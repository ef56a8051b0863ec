------------------------------ MODULE Requests ------------------------------
(***************************************************************************)
(* Which messages a data request asks for: the bitmaps that a chat program *)
(* makes from its contacts (fill_bits and send_data_request of             *)
(* xchat/xcommon.c), and how the cache of another system reads them        *)
(* (lib/pcache.c, with the positions of lib/util.c).  A bitmap is the set  *)
(* of the bits that are set, numbered from the start of all bitmaps of the *)
(* request, since the sender and the receiver each compute where one       *)
(* begins.  What the cache does with the messages is in PCache.            *)
(***************************************************************************)
EXTENDS Integers, FiniteSets

CONSTANTS
  PrefixBits,  \* the bits of an address or id that are looked at: 16
  BitmapLog,   \* BITMAP_BITS_LOG: 8
  ByteBits,    \* bits of a byte of a bitmap: 8
  AddressRequests, \* requests for addresses before one for acks: 9
  OwnTrace,    \* routing_my_address
  ContactAddresses, \* that contacts and this system have for each other
  Ids,         \* of messages
  MaxKeysets, MaxUnacked

ASSUME RequestsAssumption ==
  /\ PrefixBits \in Nat /\ BitmapLog \in 1 .. PrefixBits
  /\ ByteBits \in Nat \ {0}
  /\ AddressRequests \in Nat /\ MaxKeysets \in Nat /\ MaxUnacked \in Nat

Prefix == 0 .. 2 ^ PrefixBits - 1
\* An address: its first bits, and how many of its bits are meant.
Address == [bits : Prefix, nbits : 0 .. PrefixBits]
ASSUME AddressAssumption ==
  OwnTrace \in Prefix /\ ContactAddresses \subseteq Address /\ Ids \subseteq Prefix

VARIABLES
  keysets,     \* the addresses of every contact: [local, remote]
  unackedIds,  \* the ids of messages of which no ack came
  requestAcks, \* request_acks
  request      \* the last request: the size of each bitmap, and the bits

requests == <<keysets, unackedIds, requestAcks, request>>

(***************************************************************************)
(* Positions in a bitmap and places of the bitmaps in a request.           *)
(***************************************************************************)

\* compute_index_mask: the leading bits, first bit of a byte first.
Position(log, first) == first \div 2 ^ (PrefixBits - log)

PowerTwo(log) == IF log = 0 THEN 0 ELSE 2 ^ log

BitmapBytes(log) == (PowerTwo(log) + ByteBits - 1) \div ByteBits

\* get_details: the first byte of each bitmap, after those before it.
MutDetails(q) == [dst |-> 0, src |-> 0, mid |-> 0]   \* mutant: ptr stays
Details(q) ==
  [dst |-> 0,
   src |-> BitmapBytes(q.dst),
   mid |-> BitmapBytes(q.dst) + BitmapBytes(q.src)]

(***************************************************************************)
(* The requester.                                                          *)
(***************************************************************************)

\* fill_bits for addresses: random bits take the place of those that the
\* address does not have, counted from the last of the PrefixBits.
Randomized(a, log, random) ==
  LET range == 2 ^ (log - a.nbits) IN a.bits - (a.bits % range) + (random % range)

\* The addresses that are completed so.
Short == {s \in keysets \X {"local", "remote"} : s[1][s[2]].nbits \in 1 .. BitmapLog - 1}

FillAddresses(log, side, draw) ==
  {Position(log, IF k[side].nbits >= log THEN k[side].bits
                 ELSE Randomized(k[side], log, draw[<<k, side>>])) :
     k \in {j \in keysets : j[side].nbits > 0}}

FillLocal(log, draw) == FillAddresses(log, "local", draw) \cup {Position(log, OwnTrace)}
FillRemote(log, draw) == FillAddresses(log, "remote", draw)
FillAcks(log) == {Position(log, id) : id \in unackedIds}

\* The bits of a bitmap that begins at a byte.
From(byte, bitmap) == {byte * ByteBits + p : p \in bitmap}

RequestAddresses(draw) ==
  [dst |-> BitmapLog, src |-> BitmapLog, mid |-> 0,
   bits |-> From(0, FillLocal(BitmapLog, draw)) \cup
            From(2 ^ BitmapLog \div ByteBits, FillRemote(BitmapLog, draw))]

RequestMissingAcks ==
  [dst |-> 0, src |-> 0, mid |-> BitmapLog, bits |-> From(0, FillAcks(BitmapLog))]

\* One in AddressRequests + 1 requests is for acks, because it is slow.
SendDataRequest ==
  /\ \/ /\ requestAcks < AddressRequests
        /\ requestAcks' = requestAcks + 1
        /\ \E draw \in [Short -> 0 .. 2 ^ BitmapLog - 1] :
             request' = RequestAddresses(draw)
     \/ /\ requestAcks = AddressRequests
        /\ requestAcks' = 0
        /\ request' = RequestMissingAcks
  /\ UNCHANGED <<keysets, unackedIds>>

(***************************************************************************)
(* The cache that answers.                                                 *)
(***************************************************************************)
Has(byte, log, first) == byte * ByteBits + Position(log, first) \in request.bits

\* matches_req: the bits an address lacks are taken for zeros, and then counted
\* up from the last of the PrefixBits.
MatchesReq(a, log, byte) ==
  \/ log = 0
  \/ a.nbits = 0
  \/ LET first == a.bits - (a.bits % 2 ^ (PrefixBits - a.nbits))
         loops == IF a.nbits >= log THEN 1 ELSE 2 ^ (log - a.nbits)
     IN \E i \in 0 .. loops - 1 : Has(byte, log, first + i)

MatchesMid(id, log, byte) == log = 0 \/ Has(byte, log, id)

MatchesDataRequest(m) ==
  LET at == Details(request)
  IN /\ MatchesReq(m.destination, request.dst, at.dst)
     /\ MatchesReq(m.source, request.src, at.src)
     /\ MatchesMid(m.id, request.mid, at.mid)

-----------------------------------------------------------------------------
RequestsInit ==
  /\ keysets = {} /\ unackedIds = {} /\ requestAcks = 0
  /\ request = [dst |-> 0, src |-> 0, mid |-> 0, bits |-> {}]

\* What changes between two requests: a contact is made, a message is sent.
NewContact(local, remote) ==
  /\ Cardinality(keysets) < MaxKeysets
  /\ keysets' = keysets \cup {[local |-> local, remote |-> remote]}
  /\ UNCHANGED <<unackedIds, requestAcks, request>>
MessageSent(id) ==
  /\ Cardinality(unackedIds) < MaxUnacked
  /\ unackedIds' = unackedIds \cup {id}
  /\ UNCHANGED <<keysets, requestAcks, request>>

RequestsNext ==
  \/ SendDataRequest
  \/ \E l, r \in ContactAddresses : NewContact(l, r)
  \/ \E id \in Ids : MessageSent(id)

RequestsSpec == RequestsInit /\ [][RequestsNext]_requests

-----------------------------------------------------------------------------
\* A contact's message to us: it carries the addresses of the keyset.
FromContact(k, id) == [destination |-> k.local, source |-> k.remote, id |-> id]

\* An address that says at least as many bits as the bitmaps tell apart, or none.
Distinct(a) == a.nbits = 0 \/ a.nbits >= BitmapLog

\* No local address, nor the own one, shares the bits that the bitmaps tell apart.
Elsewhere(a) ==
  /\ a.nbits >= BitmapLog
  /\ \A l \in {OwnTrace} \cup {k.local.bits : k \in keysets} :
       Position(BitmapLog, l) # Position(BitmapLog, a.bits)

(* packet.h: "each bit in the bitmap, when set to one, specifies that          *)
(* destinations matching that prefix are of interest".  A request for          *)
(* addresses, as soon as it is made, matches what every contact may have sent  *)
(* to us, and nothing that was sent elsewhere; a request for missing acks      *)
(* matches every message that waits for one.  Bitmaps are therefore read from  *)
(* where they were written.  Addresses that say fewer bits than the bitmaps    *)
(* tell apart are excepted: matches_req and fill_bits vary the bits at the end *)
(* of the prefix for them, and positions depend on those at its beginning.     *)
RequestFindsMail ==
  [][requestAcks' # requestAcks =>
       \/ /\ request'.mid = 0
          /\ \A k \in keysets, id \in Ids :
               Distinct(k.local) /\ Distinct(k.remote)
                 => MatchesDataRequest(FromContact(k, id))'
          /\ \A d, s \in ContactAddresses, id \in Ids :
               Elsewhere(d)
                 => ~ MatchesDataRequest([destination |-> d, source |-> s, id |-> id])'
       \/ /\ request'.mid > 0
          /\ \A d, s \in ContactAddresses, id \in unackedIds :
               MatchesDataRequest([destination |-> d, source |-> s, id |-> id])']_requests
=============================================================================

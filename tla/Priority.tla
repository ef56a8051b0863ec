------------------------------ MODULE Priority ------------------------------
(***************************************************************************)
(* The priority of a packet from outside: message_priority (ad.c) with the *)
(* share of the sender in what was last received (track.c), the social     *)
(* distance (social.c) and the arithmetic of fractions (lib/priority.c).   *)
(* A fraction of ALLNET_PRIORITY_MAX, 2 ^ 30, has FractionBits bits.       *)
(***************************************************************************)
EXTENDS Integers, Sequences
LOCAL INSTANCE Folds

CONSTANTS
  Addresses,       \* addresses as sequences of the bits that are given
  ContactsAddress, \* the remote address of the only contact
  Sizes,           \* sizes of packets
  Saved,           \* SAVED_ADDRESSES, 128
  FractionBits     \* 30
ASSUME PriorityAssumption ==
  Saved \in Nat \ {0} /\ FractionBits \in 4 .. 15 /\ Sizes \subseteq Nat \ {0}

PriorityMax == 2 ^ FractionBits                        \* ALLNET_PRIORITY_MAX
Eighths(n) == n * (PriorityMax \div 8)
Epsilon == 1
FriendsHigh == Eighths(5)
UnknownTier == 4
LargestRate == PriorityMax - 1

VARIABLES
  record, nextRecord,   \* of track.c; size 0 is an unused record
  arrived,              \* the packets that were tracked, the last Saved of them (ghost)
  priority              \* what message_priority returned last, and for what
priorities == <<record, nextRecord, arrived, priority>>

NoPriority == [value |-> 0, friend |-> FALSE, dbits |-> 0, hops |-> 0, cacheable |-> TRUE]
PriorityInit ==
  /\ record = [i \in 0 .. Saved - 1 |-> [source |-> <<>>, size |-> 0]]
  /\ nextRecord = 0
  /\ arrived = <<>>
  /\ priority = NoPriority

\* matches of lib/util.c: equal in the bits that both have.
SameBits(x, y) == \A i \in DOMAIN x \cap DOMAIN y : x[i] = y[i]

\* track_rate: the sizes of the records with a source that matches, or of all.
SizeSum(Fits(_), size) ==
  MapThenFoldSet(+, size, LAMBDA i : record[i].size, LAMBDA S : CHOOSE i \in S : TRUE,
                 {i \in DOMAIN record : record[i].size > 0 /\ Fits(record[i].source)})
TrackRate(source, size) ==
  (PriorityMax \div SizeSum(LAMBDA s : TRUE, size)) * SizeSum(LAMBDA s : SameBits(source, s), size)
MutFollowing(i) == (i + 1) % (Saved - 1)     \* mutant: the last record is never used
Following(i) == (i + 1) % Saved

PowerHalf(power) ==                                    \* power_half_fraction
  IF power <= 0 THEN PriorityMax ELSE IF power >= FractionBits THEN 0 ELSE PriorityMax \div (2 ^ power)
Times(p, q) == (p * q) \div PriorityMax                \* allnet_multiply

AtLeast(low, x) == IF x < low THEN low ELSE x
HopsCarried(hops) ==
  IF hops > 4 THEN Eighths(4) ELSE PriorityMax - Eighths(AtLeast(1, hops) - 1)
HopsTotal(maxHops) ==
  IF maxHops > 0 THEN AtLeast(Epsilon, PowerHalf(maxHops - 1)) ELSE Epsilon
Boosted(value) ==
  IF value >= PriorityMax - PriorityMax \div 10 THEN PriorityMax ELSE value + value \div 10
ComputePriority(dbits, hops, maxHops, distance, rate, cacheable) ==
  LET bits == PriorityMax - PowerHalf(dbits + 1)
      sending == AtLeast(Eighths(4), PriorityMax - rate)
      value == Times(PowerHalf(distance - 1),
                     Times(Times(bits, sending), Times(HopsCarried(hops), HopsTotal(maxHops))))
  IN IF distance <= 1 THEN FriendsHigh
     ELSE AtLeast(Epsilon, IF cacheable THEN value ELSE Boosted(value))

\* is_my_contact: a signature that verifies with the key of a contact whose address matches.
IsMyContact(source, signed) == signed /\ SameBits(source, ContactsAddress)

DestinationBits == {0, 16}
Hops == {1, 3}
\* message_priority.  signed: the packet has a signature by the contact's key.
MessagePriority(source, size, signed) ==
  LET friend == IsMyContact(source, signed)
      distance == IF friend THEN 1 ELSE UnknownTier    \* social_connection
      rate == IF friend THEN TrackRate(source, size) ELSE LargestRate
  IN /\ \E dbits \in DestinationBits, hops \in Hops, cacheable \in BOOLEAN :
          priority' = [value |-> ComputePriority(dbits, hops, hops + 1, distance, rate, cacheable),
                       friend |-> friend, dbits |-> dbits, hops |-> hops, cacheable |-> cacheable]
     /\ IF friend
        THEN /\ record' = [record EXCEPT ![nextRecord] = [source |-> source, size |-> size]]
             /\ nextRecord' = Following(nextRecord)
             /\ LET all == Append(arrived, [source |-> source, size |-> size])
                IN arrived' = IF Len(all) > Saved THEN Tail(all) ELSE all
        ELSE UNCHANGED <<record, nextRecord, arrived>>

PriorityNext ==
  \E source \in Addresses, size \in Sizes, signed \in BOOLEAN : MessagePriority(source, size, signed)
PrioritySpec == PriorityInit /\ [][PriorityNext]_priorities

-----------------------------------------------------------------------------
\* "an integer, as a fraction of ALLNET_PRIORITY_MAX, to indicate what fraction of the
\* available bandwidth this source is using": the share of the source in the last packets and
\* this one, rounded down by less than one unit for each byte, when the records have been
\* reused too.
RateIsShare ==
  arrived # <<>> => \A source \in Addresses, size \in Sizes :
    LET bytes[i \in 0 .. Len(arrived)] ==
          IF i = 0 THEN [all |-> size, matching |-> size]
          ELSE LET p == arrived[i] IN
               [all |-> bytes[i - 1].all + p.size,
                matching |-> bytes[i - 1].matching + IF SameBits(source, p.source) THEN p.size ELSE 0]
        b == bytes[Len(arrived)]
        rate == TrackRate(source, size)
    IN /\ rate <= PriorityMax
       /\ rate * b.all <= PriorityMax * b.matching
       /\ (rate + b.matching) * b.all > PriorityMax * b.matching

\* (compute_priority) The packet that came last has a positive priority, below that of a
\* contact's packets if it is not one; it would not have had a higher one with a larger social
\* distance, number of hops or maximum of hops or a larger rate, nor a lower one with more bits
\* of its destination; in tiers of friends of friends, which are only prepared for, neither.
PriorityInOrder ==
  LET p == priority
      rate == TrackRate(<<>>, 1)
      Of(dbits, hops, maxHops, distance, r) ==
        ComputePriority(dbits, hops, maxHops, distance, r, p.cacheable)
  IN p # NoPriority =>
     /\ p.friend => p.value = FriendsHigh
     /\ \A distance \in 2 .. 2 * UnknownTier - 2, maxHops \in 1 .. FractionBits + 3 :
          LET value == Of(p.dbits, p.hops, maxHops, distance, rate)
          IN /\ 0 < value /\ value < FriendsHigh
             /\ value >= Of(p.dbits, p.hops + 1, maxHops, distance, rate)
             /\ value >= Of(p.dbits, p.hops, maxHops + 1, distance, rate)
             /\ value >= Of(p.dbits, p.hops, maxHops, distance + 1, rate)
             /\ value >= Of(p.dbits, p.hops, maxHops, distance, LargestRate)
             /\ value <= Of(p.dbits + 1, p.hops, maxHops, distance, rate)

\* Both: a sender's share is what it sent, and the priority follows from it and the rest.
PrioritiesFair == RateIsShare /\ PriorityInOrder
=============================================================================

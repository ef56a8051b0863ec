---------------------------- MODULE ForwardOnce -----------------------------
(***************************************************************************)
(* What the packet cache promises the daemon, without tables, bitmaps,     *)
(* hash slots or bloom filters: a set of messages and a set of acks, and   *)
(* for each of them the tokens it need never again be sent to.  Collecting *)
(* garbage may forget messages, acks and tokens, a forgotten token being   *)
(* forgotten by every item at once; nothing else ever removes a token from *)
(* an item, and nothing but sending an item to a token adds one.           *)
(***************************************************************************)
CONSTANTS Id, Token, NoToken
VARIABLES
  cached,   \* the messages that can be handed out
  acked,    \* the messages whose ack can be handed out
  msgTo,    \* [Id -> SUBSET Token]: where a cached message was sent
  ackTo,    \* [Id -> SUBSET Token]: where an ack was sent
  serving   \* the token being served, or NoToken

vars == <<cached, acked, msgTo, ackTo, serving>>

Init ==
  /\ cached = {} /\ acked = {}
  /\ msgTo = [i \in Id |-> {}]
  /\ ackTo = [i \in Id |-> {}]
  /\ serving = NoToken

\* What is left of f for the items that stay, once tokens F are forgotten.
Remaining(f, stay, F) == [i \in Id |-> IF i \in stay THEN f[i] \ F ELSE {}]
Plus(f, S, t) == [i \in Id |-> IF i \in S THEN f[i] \cup {t} ELSE f[i]]

\* Message m enters, sent to nobody; others may be forgotten for it.
Store(m) ==
  /\ m \notin cached /\ m \notin acked
  /\ UNCHANGED serving
  /\ cached' \subseteq cached \cup {m} /\ m \in cached'
  /\ acked' \subseteq acked
  /\ \E F \in SUBSET Token :
       /\ msgTo' = Remaining(msgTo, cached' \ {m}, F)
       /\ ackTo' = Remaining(ackTo, acked', F)

\* An ack enters, sent to nobody, and its message leaves.
StoreAck(a) ==
  /\ a \notin acked
  /\ UNCHANGED serving
  /\ cached' \subseteq cached \ {a}
  /\ acked' \subseteq acked \cup {a} /\ a \in acked'
  /\ \E F \in SUBSET Token :
       /\ msgTo' = Remaining(msgTo, cached', F)
       /\ ackTo' = Remaining(ackTo, acked' \ {a}, F)

\* Messages M, or acks B, are sent to the token being served; they may be lost
\* to the collection that finding room for that token costs.  What is sent to a
\* local program may go unmarked.
Send(M, B) ==
  /\ serving # NoToken
  /\ cached' \subseteq cached
  /\ acked' \subseteq acked
  /\ \E F \in SUBSET Token :
       /\ msgTo' = Plus(Remaining(msgTo, cached', F), M \cap cached', serving)
       /\ ackTo' = Plus(Remaining(ackTo, acked', F), B \cap acked', serving)

Serve ==
  /\ serving' # serving
  /\ UNCHANGED <<cached, acked, msgTo, ackTo>>

Next ==
  \/ \E i \in Id : Store(i) \/ StoreAck(i) \/ Send({i}, {}) \/ Send({}, {i})
  \/ Send({}, {})
  \/ Serve

Spec == Init /\ [][Next]_vars
=============================================================================

------------------------------- MODULE Flood -------------------------------
(***************************************************************************)
(* Several daemons (ad.c) that pass one trace (lib/trace_util.c) or one    *)
(* message and its ack along the links between them.  Each handler is the  *)
(* body of allnet_daemon_loop for one packet: count the hop, look whether  *)
(* the packet was seen, answer it, and send it to every neighbour except   *)
(* the one it came from.  Packets are reordered at will and a few are      *)
(* lost.                                                                   *)
(*                                                                         *)
(* The caches and filters that say what was seen are modules PCache and    *)
(* PidBloom; here they are sets.  The daemon's addresses and their limits  *)
(* are in Sockets and Routing: here every neighbour is reached.            *)
(***************************************************************************)
EXTENDS Integers, Sequences, FiniteSets

CONSTANTS
  Systems,       \* the daemons
  Links,         \* pairs <<s, t>>: s has an address for t
  Origin,        \* the system whose client traces or sends
  Target,        \* the system that matches the destination
  MaxHops,       \* max_hops of the client's packets
  MaxLosses      \* bound on the packets lost

\* The local programs of a system, as the sender of a packet.
Client == "client"

\* A link carries packets both ways; no chain of systems is longer than what
\* the client lets its packets travel.
ASSUME FloodAssumption ==
  /\ Links \subseteq Systems \X Systems
  /\ \A l \in Links : <<l[2], l[1]>> \in Links /\ l[1] # l[2]
  /\ {Origin, Target} \subseteq Systems /\ Origin # Target /\ Client \notin Systems
  /\ MaxHops \in Nat /\ Cardinality(Systems) - 1 <= MaxHops
  /\ MaxLosses \in Nat

VARIABLES
  job,           \* "none", then "trace", "quiet" (no intermediates) or "data"
  net,           \* packets under way
  traced,        \* systems that have the trace id in the filter
  repliesSeen,   \* replies in the filter of each system
  stored,        \* systems that have, or had, the message
  acked,         \* systems that have the ack
  delivered,     \* the target's client has the message
  shown,         \* replies the tracing client has printed (remembered_hashes)
  received,      \* received_count
  losses         \* packets lost so far (ghost)

flood == <<job, net, traced, repliesSeen, stored, acked, delivered, shown,
           received, losses>>

\* struct allnet_mgmt_trace_entry, and the entry the client starts with.
Entry(s, hops) == [sys |-> s, hops |-> hops]
FirstEntry == Entry(Client, 0)

Packet(kind, hops, max, path, from, to) ==
  [kind |-> kind, hops |-> hops, max |-> max, path |-> path, from |-> from,
   to |-> to]

FloodInit ==
  /\ job = "none"
  /\ net = {}
  /\ traced = {} /\ stored = {} /\ acked = {}
  /\ repliesSeen = [s \in Systems |-> {}]
  /\ delivered = FALSE
  /\ shown = {} /\ received = 0 /\ losses = 0

\* What the client gives its daemon: a trace, of which no intermediate system is to
\* say anything if it is quiet, or a message.
SendTrace == {Packet("request", 0, MaxHops, <<FirstEntry>>, Client, Origin)}
SendMessage == {Packet("data", 0, MaxHops, <<>>, Client, Origin)}
DoTraceLoop == job' \in {"trace", "quiet"} /\ net' = SendTrace
Send ==
  /\ job = "none"
  /\ DoTraceLoop \/ (job' = "data" /\ net' = SendMessage)
  /\ UNCHANGED <<traced, repliesSeen, stored, acked, delivered, shown,
                 received, losses>>

Local(p) == p.from = Client

\* The hop count as the daemon loop leaves it: not for local packets.
HopCount(p) == IF Local(p) THEN p.hops ELSE IF p.hops < 255 THEN p.hops + 1
                                            ELSE p.hops

(***************************************************************************)
(* send_out of a packet with the given header, to all but `except`.        *)
(***************************************************************************)
SendOut(s, kind, hops, max, path, except) ==
  IF max > 0 /\ hops < 255 /\ hops < max
  THEN {Packet(kind, hops, max, path, s, t) :
          t \in {u \in Systems \ {except} : <<s, u>> \in Links}}
  ELSE {}

(***************************************************************************)
(* trace_forward: the reply, its entries and its hops.                     *)
(***************************************************************************)
Matches(s) == s = Target
Intermediates == job = "trace"

MutReplyPath(s, p) == IF Matches(s) THEN Append(p.path, Entry(s, HopCount(p)))
                      ELSE <<p.path[1], Entry(s, HopCount(p))>> \* mutant: first
ReplyPath(s, p) ==
  IF Matches(s) THEN Append(p.path, Entry(s, HopCount(p)))
  ELSE IF HopCount(p) > 0
  THEN <<p.path[Len(p.path)], Entry(s, HopCount(p))>>
  ELSE <<Entry(s, HopCount(p))>>

MutReplyHops(hops) == IF hops <= 1 THEN 1 ELSE hops - 1   \* mutant
ReplyHops(hops) == IF hops <= 1 THEN 1 ELSE hops + 2

\* The reply is for the client here, for the sender only, or for all.
Reply(s, p) ==
  LET kind == IF Matches(s) THEN "final" ELSE "intermediate"
      max == ReplyHops(HopCount(p))
  IN IF Local(p) THEN {}
     ELSE IF max = 1 THEN {Packet(kind, 0, 1, ReplyPath(s, p), s, p.from)}
     ELSE SendOut(s, kind, 0, max, ReplyPath(s, p), Client)

RequestPath(s, p) ==
  IF Intermediates THEN Append(p.path, Entry(s, HopCount(p))) ELSE p.path

\* What the tracing client does with a reply, given as [kind, path].
PacketReceivedBefore(r) == r \in shown
Show(s, r) ==
  IF s = Origin /\ ~PacketReceivedBefore(r)
  THEN /\ shown' = shown \cup {r}
       /\ received' = received + (IF r.kind = "final" THEN 1 ELSE 0)
  ELSE UNCHANGED <<shown, received>>

Replies(s) == Matches(s) \/ Intermediates

\* The filters, which every packet is added to.
PcacheTraceRequest(s) == s \in traced
PcacheTraceReply(s, r) == r \in repliesSeen[s]

\* process_mgmt with a trace request.
HandleRequest(s, p) ==
  /\ p.kind = "request"
  /\ IF PcacheTraceRequest(s)
     THEN net' = net \ {p} /\ UNCHANGED <<traced, shown, received>>
     ELSE /\ traced' = traced \cup {s}
          /\ net' = (net \ {p})
                    \cup (IF Replies(s) THEN Reply(s, p) ELSE {})
                    \cup SendOut(s, "request", HopCount(p), p.max,
                                 RequestPath(s, p), p.from)
          /\ IF Replies(s)
             THEN Show(s, [kind |-> IF Matches(s) THEN "final"
                                    ELSE "intermediate",
                           path |-> ReplyPath(s, p)])
             ELSE UNCHANGED <<shown, received>>
  /\ UNCHANGED <<repliesSeen, stored, acked, delivered>>

\* process_mgmt with a trace reply.
HandleReply(s, p) ==
  LET r == [kind |-> p.kind, path |-> p.path] IN
  /\ p.kind \in {"final", "intermediate"}
  /\ IF PcacheTraceReply(s, r)
     THEN net' = net \ {p} /\ UNCHANGED <<repliesSeen, shown, received>>
     ELSE /\ repliesSeen' = [repliesSeen EXCEPT ![s] = @ \cup {r}]
          /\ Show(s, r)
          /\ net' = (net \ {p}) \cup SendOut(s, p.kind, HopCount(p), p.max,
                                             p.path, p.from)
  /\ UNCHANGED <<traced, stored, acked, delivered>>

\* init_ack for a packet that has made that many hops.
AckHops(hops) == hops + 3

\* process_message with a message: a system that has its ack returns the ack
\* to the sender; the target's client acks a message it gets.
HandleData(s, p) ==
  /\ p.kind = "data"
  /\ net' = (net \ {p})
       \cup (IF s \in acked
             THEN {Packet("ack", 0, AckHops(HopCount(p)), <<>>, s, p.from)}
             ELSE {})
       \cup (IF s \in acked \cup stored THEN {}
             ELSE SendOut(s, "data", HopCount(p), p.max, <<>>, p.from))
       \cup (IF Matches(s) /\ s \notin acked \cup stored
             THEN {Packet("ack", 0, AckHops(HopCount(p)), <<>>, Client, s)}
             ELSE {})
  /\ stored' = IF s \in acked THEN stored ELSE stored \cup {s}
  /\ delivered' = (delivered \/ (Matches(s) /\ s \notin acked \cup stored))
  /\ UNCHANGED <<traced, repliesSeen, acked, shown, received>>

\* process_acks: an ack that was offered to this system's token is dropped.
HandleAck(s, p) ==
  /\ p.kind = "ack"
  /\ acked' = acked \cup {s}
  /\ net' = (net \ {p})
            \cup (IF s \in acked THEN {}
                  ELSE SendOut(s, "ack", HopCount(p), p.max, <<>>, p.from))
  /\ UNCHANGED <<traced, repliesSeen, stored, delivered, shown, received>>

Handle(p) ==
  /\ \/ HandleRequest(p.to, p)
     \/ HandleReply(p.to, p)
     \/ HandleData(p.to, p)
     \/ HandleAck(p.to, p)
  /\ UNCHANGED <<job, losses>>

\* A packet between systems is lost.
Lose(p) ==
  /\ ~ Local(p) /\ losses < MaxLosses
  /\ net' = net \ {p}
  /\ losses' = losses + 1
  /\ UNCHANGED <<job, traced, repliesSeen, stored, acked, delivered, shown,
                 received>>

FloodNext ==
  \/ Send
  \/ \E p \in net : Handle(p) \/ Lose(p)

Deliver == \E p \in net : Handle(p)
FloodSpec == FloodInit /\ [][FloodNext]_flood /\ WF_flood(Deliver)

----------------------------------------------------------------------------
(* Properties                                                              *)

\* Two entries of a trace are of systems that have a link, one hop apart; the
\* first entry is the client's or is followed by one of a neighbour.
OneHopApart(a, b) ==
  IF a.sys = Client THEN b.sys = Origin /\ b.hops = 0
  ELSE <<a.sys, b.sys>> \in Links /\ b.hops = a.hops + 1

\* Every reply that the client prints is a path that the request really took:
\* successive entries, added by different systems to copies of the request
\* that overtake each other, are of neighbours one hop apart; with
\* intermediates the final reply lists them all.  (trace_util.c:
\* add_my_entry, make_trace_reply; ad.c: the hop count)
PathsTaken ==
  \A r \in shown : job = "trace" =>
    /\ \A i \in 1 .. Len(r.path) - 1 : OneHopApart(r.path[i], r.path[i + 1])
    /\ r.kind = "final" => r.path[1] = FirstEntry

\* However packets overtake each other, a client whose packets may make as
\* many hops as there are other systems gets the answer of the target, once,
\* unless a packet is lost: a copy that comes early on a long way does not use
\* up the hops.  (ad.c: process_mgmt, process_message, send_out; util.c:
\* init_ack)
Answered == IF job = "data" THEN delivered /\ Origin \in acked
            ELSE received = 1
AnswerArrives == job # "none" ~> (losses > 0 \/ Answered)

=============================================================================

------------------------------- MODULE Store --------------------------------
(***************************************************************************)
(* The saved messages of a contact (xchat/store.c): a file for every       *)
(* keyset, to which records are appended and which is read from its end,   *)
(* and the cache of the messages of all keysets, which is filled from the  *)
(* files at the first use.  The division of a file by days and the text of *)
(* the messages are left out here; RecordText has the text.                *)
(***************************************************************************)
EXTENDS Naturals, Sequences, FiniteSets, FiniteSetsExt, Functions

CONSTANTS
  KeySeq,      \* the keysets of the contact, in the order of all_keys
  MaxSeq,      \* largest sequence number
  MaxTime,     \* largest time in a message
  MaxRecords   \* most records in all files, and most messages in the cache

ASSUME StoreAssumption ==
  /\ MaxSeq \in Nat /\ MaxTime \in Nat \ {0} /\ MaxRecords \in Nat
  /\ KeySeq \in Seq(Range(KeySeq)) /\ IsInjective(KeySeq)

VARIABLES
  log,     \* [keysets -> records, the oldest first]
  cached,  \* the message cache has the contact
  msgs,    \* the cached messages: "the most recent first and the oldest last"
  cleared  \* the files were removed while the contact was in the cache
store == <<log, cached, msgs, cleared>>

Keysets == Range(KeySeq)
Record(type, seq, time) == [type |-> type, seq |-> seq, time |-> time]
Records(k, type) == {r \in {log[k][i] : i \in DOMAIN log[k]} : r.type = type}
Seqs(k, type) == {r.seq : r \in Records(k, type)}
StoreInit ==
  log = [k \in Keysets |-> <<>>] /\ cached = FALSE /\ msgs = <<>> /\ cleared = FALSE

(***************************************************************************)
(* list_all_messages: the messages of one keyset after the other, from the *)
(* end of the file, each after the last one that is not older; then the    *)
(* acks of this keyset and the numbers of messages that are missing.       *)
(***************************************************************************)
Message(k, r) ==
  [k |-> k, type |-> r.type, seq |-> r.seq, time |-> r.time, missing |-> 0, acked |-> FALSE]
InsertByTime(m, r, k) ==
  LET at == Max({0} \cup {i \in DOMAIN m : r.time <= m[i].time})
  IN  SubSeq(m, 1, at) \o <<Message(k, r)>> \o SubSeq(m, at + 1, Len(m))
AddAllMessages(m, k, file) ==
  LET found[n \in 0 .. Len(file)] ==
        IF n = 0 THEN m
        ELSE LET r == file[Len(file) + 1 - n]
             IN  IF r.type = "ack" THEN found[n - 1] ELSE InsertByTime(found[n - 1], r, k)
  IN  found[Len(file)]

\* ack_one_message: every sent message with this id, whatever its keyset.  The id
\* of a message stands for its keyset and its number.
AckOneMessage(m, k, seq) ==
  [i \in DOMAIN m |-> IF m[i].type = "sent" /\ m[i].k = k /\ m[i].seq = seq
                      THEN [m[i] EXCEPT !.acked = TRUE] ELSE m[i]]
AckAllMessages(m, k, file) ==
  LET acks == {file[n].seq : n \in {n \in DOMAIN file : file[n].type = "ack"}}
  IN  [i \in DOMAIN m |-> IF m[i].type = "sent" /\ m[i].k = k /\ m[i].seq \in acks
                          THEN [m[i] EXCEPT !.acked = TRUE] ELSE m[i]]

\* set_missing: how many numbers there are between a received message and the
\* last number before it; the first number is 1.
Received(m, k) == {i \in DOMAIN m : m[i].k = k /\ m[i].type = "rcvd"}
\* Mutant of PrevSeq: the next message in the list counts, not the largest number.
MutPrevSeq(m, k, i) ==
  IF \E j \in Received(m, k) : j > i /\ m[j].seq < m[i].seq
  THEN m[CHOOSE j \in Received(m, k) : j > i /\ m[j].seq < m[i].seq].seq ELSE 0
PrevSeq(m, k, i) == Max({0} \cup {m[j].seq : j \in {j \in Received(m, k) : m[j].seq < m[i].seq}})
SetMissing(m, k) ==
  [i \in DOMAIN m |-> IF i \in Received(m, k)
                      THEN [m[i] EXCEPT !.missing = m[i].seq - (PrevSeq(m, k, i) + 1)] ELSE m[i]]

ListMessages(m, k, file) == SetMissing(AckAllMessages(AddAllMessages(m, k, file), k, file), k)
ListAllMessages(files) ==
  LET found[n \in 0 .. Len(KeySeq)] ==
        IF n = 0 THEN <<>> ELSE ListMessages(found[n - 1], KeySeq[n], files[KeySeq[n]])
  IN  found[Len(KeySeq)]

\* start_iter: the first use of the contact fills the cache.
StartIter ==
  /\ ~cached /\ cached' = TRUE /\ msgs' = ListAllMessages(log) /\ UNCHANGED <<log, cleared>>

(***************************************************************************)
(* save_record: the record goes to the file and, "at the end", to the      *)
(* cache.  An ack is saved for a message that was sent.                    *)
(***************************************************************************)
\* Mutant of AddMessage: what is missing is not computed again.
MutAddMessage(m, k, r, file) ==
  AckAllMessages(Append(m, Message(k, r)), k, file)
AddMessage(m, k, r, file) ==
  LET added == Append(m, Message(k, r))
  IN  IF r.type = "rcvd" THEN SetMissing(added, k) ELSE AckAllMessages(added, k, file)

RecordsInFiles == FoldSet(LAMBDA j, sum : sum + Len(log[j]), 0, Keysets)
SaveRecord(k, r) ==
  /\ RecordsInFiles < MaxRecords
  /\ Len(msgs) < MaxRecords
  /\ log' = [log EXCEPT ![k] = Append(@, r)]
  /\ msgs' = IF ~cached THEN msgs
             ELSE IF r.type = "ack" THEN AckOneMessage(msgs, k, r.seq)
             ELSE AddMessage(msgs, k, r, log'[k])
  /\ UNCHANGED <<cached, cleared>>

SaveSent(k, time) ==
  LET next == Max({0} \cup Seqs(k, "sent")) + 1
  IN  next <= MaxSeq /\ SaveRecord(k, Record("sent", next, time))
SaveReceived(k, seq, time) ==
  seq \notin Seqs(k, "rcvd") /\ SaveRecord(k, Record("rcvd", seq, time))
SaveAck(k, seq) ==
  seq \in Seqs(k, "sent") \ Seqs(k, "ack") /\ SaveRecord(k, Record("ack", seq, 0))

\* clear_conversation and delete_conversation remove files, the cache stays.
ClearConversation ==
  /\ \E k \in Keysets : log[k] # <<>>
  /\ log' = [k \in Keysets |-> <<>>] /\ cleared' = cached /\ UNCHANGED <<cached, msgs>>

Restarted == cached /\ cached' = FALSE /\ msgs' = <<>> /\ cleared' = FALSE /\ UNCHANGED log

StoreNext ==
  \/ \E k \in Keysets, time \in 1 .. MaxTime, seq \in 1 .. MaxSeq :
       SaveSent(k, time) \/ SaveReceived(k, seq, time) \/ SaveAck(k, seq)
  \/ StartIter \/ ClearConversation \/ Restarted
StoreSpec == StoreInit /\ [][StoreNext]_store

-----------------------------------------------------------------------------
\* (save_record against list_all_messages) The cache has what would be read from
\* the files: the same messages, acked and missing alike, unless the files were
\* removed under it.
CacheIsFile ==
  cached /\ ~cleared =>
    /\ Range(msgs) = Range(ListAllMessages(log))
    /\ Len(msgs) = Len(ListAllMessages(log))

\* (set_missing) The messages reported missing before the received ones add up to
\* what was not received, whatever the order of the list.
AllMissing(m, k) ==
  LET sum[n \in 0 .. Len(m)] ==
        IF n = 0 THEN 0
        ELSE IF n \in Received(m, k) THEN sum[n - 1] + m[n].missing ELSE sum[n - 1]
  IN  sum[Len(m)]
MissingAddsUp ==
  \A k \in Keysets :
    cached /\ ~cleared /\ Received(msgs, k) # {} =>
      AllMissing(msgs, k)
        = Max({msgs[i].seq : i \in Received(msgs, k)}) - Cardinality(Received(msgs, k))

\* "messages in the message cache are in reverse order, i.e. the most recent first
\* and the oldest last".
MostRecentFirst ==
  \A i, j \in DOMAIN msgs : i < j => msgs[i].time >= msgs[j].time
=============================================================================

------------------------------ MODULE MCRecords -----------------------------
(***************************************************************************)
(* What one system keeps, part by part: its contacts, messages and the     *)
(* text of their file, the cache of texts, the shares of senders, an       *)
(* encrypted stream, and the filters of the ids it has seen.  The parts    *)
(* share no state, so that each behaviour is one of one part and the       *)
(* others stay as they begin.                                              *)
(***************************************************************************)
EXTENDS Contacts, Store, RecordText, Caches, Priority, Voice, PidBloom, TLC

CONSTANTS a, g, h, n, k1, k2, p1, p2, t1, t2, i1, i2, i3

KeySymmetry == Permutations(Keys) \cup Permutations(PubKeys)
MCKeySeq == <<1, 2>>
MCAddresses == {<<>>, <<0>>, <<0, 1>>, <<1, 0>>}
MCContactsAddress == <<0, 1>>
\* Three ids of which two collide at one depth and all at none.
Collide == [i \in Id |-> IF i = i1 THEN [d \in Depth |-> 0]
                         ELSE IF i = i2 THEN [d \in Depth |-> d]
                         ELSE [d \in Depth |-> 1 - d + d * d]]

VARIABLE part
records == <<part, contacts, store, recordText, caches, priorities, voice, vars>>

RecordsInit ==
  /\ part \in {"contacts", "store", "text", "caches", "priority", "voice", "bloom"}
  /\ ContactsInit /\ StoreInit /\ RecordTextInit /\ CachesInit /\ PriorityInit /\ VoiceInit /\ Init

RecordsNext ==
  /\ UNCHANGED part
  /\ \/ part = "contacts" /\ ContactsNext
        /\ UNCHANGED <<store, recordText, caches, priorities, voice, vars>>
     \/ part = "store" /\ StoreNext
        /\ UNCHANGED <<contacts, recordText, caches, priorities, voice, vars>>
     \/ part = "text" /\ RecordTextNext
        /\ UNCHANGED <<contacts, store, caches, priorities, voice, vars>>
     \/ part = "caches" /\ CachesNext
        /\ UNCHANGED <<contacts, store, recordText, priorities, voice, vars>>
     \/ part = "priority" /\ PriorityNext
        /\ UNCHANGED <<contacts, store, recordText, caches, voice, vars>>
     \/ part = "voice" /\ VoiceNext
        /\ UNCHANGED <<contacts, store, recordText, caches, priorities, vars>>
     \/ part = "bloom" /\ Next
        /\ UNCHANGED <<contacts, store, recordText, caches, priorities, voice>>
RecordsSpec == RecordsInit /\ [][RecordsNext]_records
=============================================================================

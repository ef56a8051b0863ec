------------------------------- MODULE Caches -------------------------------
(***************************************************************************)
(* lib/dcache.c, a cache of pointers to data that is released when it is   *)
(* pushed out, and its user cache_message (xchat/xcommon.c), which takes a *)
(* text that it finds for one that was seen before.  The mutex is held     *)
(* from begin to end of every function, but whether a release is going on  *)
(* is looked at before it is taken: then the function does nothing.        *)
(***************************************************************************)
EXTENDS Naturals, Sequences, FiniteSets, SequencesExt, Subsequences

CONSTANTS
  Capacity,  \* 300 for cache_message
  Texts,       \* contact and message
  Data,        \* 1 .. n, the pieces of memory that malloc gives
  Threads      \* threads that handle packets

NoText == ""      \* of memory that is not allocated
ASSUME CachesAssumption ==
  /\ Capacity \in Nat \ {0} /\ Data \subseteq Nat \ {0}
  /\ NoText \notin Texts

NoData == 0
Idle == [at |-> "idle", data |-> NoData]

VARIABLES
  entries,    \* the data of the entries, the one last used first
  lastMatch,
  busy,       \* the thread that is releasing, or {}
  memory,     \* [Data -> a text or NoText]: what is allocated
  handling,   \* [Threads -> [at, data]]: calls of cache_message
  uses        \* data in the order of usage, what is in no cache left out (ghost)
caches == <<entries, lastMatch, busy, memory, handling, uses>>

CachesInit ==
  /\ entries = <<>> /\ lastMatch = 0 /\ busy = {}
  /\ memory = [d \in Data |-> NoText]
  /\ handling = [t \in Threads |-> Idle]
  /\ uses = <<>>

Without(s, d) == Only(s, Data \ {d})
\* record_usage: the data goes to the front, what was before it moves back.
MutInFront(s, d) == Append(Without(s, d), d)  \* mutant: to the other end
InFront(s, d) == <<d>> \o Without(s, d)
ToFront(d) == <<d>> \o Without(uses, d)

\* cache_get_match: [index, last] of the first entry with data in fits, in the order in which
\* they are tried; index 0 if there is none.
Tried(from) == [i \in 1 .. Len(entries) |-> ((from + i - 1) % Len(entries)) + 1]
Outcome(found, from) ==
  IF found = <<>> THEN [index |-> 0, last |-> from] ELSE [index |-> Head(found), last |-> Head(found)]
GetMatch(from, fits) == Outcome(SelectSeq(Tried(from), LAMBDA i : entries[i] \in fits), from)

-----------------------------------------------------------------------------
Unlocked == busy = {}

\* cache_message makes a copy and looks for it.  Beside a release nothing is found.
LooksUp(t, text) ==
  /\ handling[t] = Idle
  /\ \E d \in Data :
       /\ memory[d] = NoText
       /\ LET r == IF Unlocked THEN GetMatch(lastMatch, {x \in Data : memory[x] = text})
                   ELSE [index |-> 0, last |-> lastMatch]
          IN /\ lastMatch' = r.last
             /\ IF r.index # 0 THEN UNCHANGED <<memory, handling>>
                ELSE /\ memory' = [memory EXCEPT ![d] = text]
                     /\ handling' = [handling EXCEPT ![t] = [at |-> "adding", data |-> d]]
  /\ UNCHANGED <<entries, busy, uses>>

\* cache_add.  Beside a release nothing is added, and the copy belongs to nobody.
AddsNothing(t) ==
  /\ handling[t].at = "adding" /\ ~Unlocked
  /\ handling' = [handling EXCEPT ![t] = Idle]
  /\ UNCHANGED <<entries, lastMatch, busy, memory, uses>>

Adds(t) ==
  LET d == handling[t].data IN
  /\ handling[t].at = "adding" /\ Unlocked
  /\ IF Len(entries) < Capacity
     THEN /\ entries' = InFront(entries, d)
          /\ uses' = ToFront(d)
          /\ handling' = [handling EXCEPT ![t] = Idle]
          /\ UNCHANGED busy
     ELSE /\ busy' = {t}
          /\ handling' = [handling EXCEPT ![t].at = "releasing"]
          /\ UNCHANGED <<entries, uses>>
  /\ UNCHANGED <<lastMatch, memory>>

\* release_entry of the last entry, whose place the new data takes.
Releases(t) ==
  LET old == Last(entries)
      d == handling[t].data
  IN /\ handling[t].at = "releasing"
     /\ memory' = [memory EXCEPT ![old] = NoText]
     /\ entries' = InFront(Front(entries), d)
     /\ uses' = Without(ToFront(d), old)
     /\ busy' = {}
     /\ handling' = [handling EXCEPT ![t] = Idle]
     /\ UNCHANGED lastMatch

\* cache_record_usage.
RecordsUsage(d) ==
  /\ Unlocked /\ d \in Range(entries)
  /\ entries' = InFront(entries, d) /\ uses' = ToFront(d)
  /\ UNCHANGED <<lastMatch, busy, memory, handling>>

\* cache_remove: the release is within the call.
Removes(d) ==
  /\ Unlocked /\ d \in Range(entries)
  /\ entries' = Without(entries, d) /\ uses' = Without(uses, d)
  /\ memory' = [memory EXCEPT ![d] = NoText]
  /\ UNCHANGED <<lastMatch, busy, handling>>

CachesNext ==
  \/ \E t \in Threads : \/ \E text \in Texts : LooksUp(t, text)
                        \/ Adds(t) \/ AddsNothing(t) \/ Releases(t)
  \/ \E d \in Data : RecordsUsage(d) \/ Removes(d)
CachesSpec == CachesInit /\ [][CachesNext]_caches

-----------------------------------------------------------------------------
\* (record_usage, release_entry) The entries are in the order of their last usage, each once
\* and with data that is allocated, so what is pushed out is what was not used for longest and
\* nothing is released that the cache still has; also while threads add at the same time.
CacheInOrder ==
  /\ entries = uses
  /\ \A d \in Range(entries) : memory[d] # NoText /\ (\A t \in Threads : handling[t].data # d)
  /\ Len(entries) <= Capacity

=============================================================================

------------------------------ MODULE PidBloom ------------------------------
(***************************************************************************)
(* The bloom filters of lib/pid_bloom.c, with their loads, their file and  *)
(* their false positives.  There are NumFilters filters for each selector  *)
(* (message ids, acks, trace requests and replies); filter 0 is the one    *)
(* ids are added to.  A filter is a bitmap for each depth, here the set of *)
(* its bits, and an id is in it when the bitmap of every depth has the bit *)
(* that the id names at that depth.                                        *)
(*                                                                         *)
(* `since` is not in the code: it counts how many times the filters were   *)
(* advanced since an id was last added, and is NumFilters once it may be   *)
(* forgotten.                                                              *)
(***************************************************************************)
EXTENDS Integers, FiniteSets

CONSTANTS
  Sel,           \* the filter selectors
  Id,            \* 16-byte ids
  Depth,         \* 0 .. FILTER_DEPTH - 1
  BitOf,         \* [Id -> [Depth -> Nat]]: the bit an id names at each depth
  NumFilters,    \* NUM_FILTERS
  MaxLoad        \* MAX_FILTER_LOAD

ASSUME FilterAssumption ==
  /\ NumFilters \in Nat \ {0}
  /\ MaxLoad \in Nat \ {0}
  /\ Depth # {}
  /\ BitOf \in [Id -> [Depth -> Nat]]

VARIABLES
  filter,        \* bloom_filter
  load,          \* filter_load
  since,         \* advances since an id was added (ghost)
  file,          \* ~/.allnet/acache/bloom: {} or one [filter, since]
  saving         \* pid_save_bloom has truncated the file and is writing it

vars == <<filter, load, since, file, saving>>

Gen == 0 .. NumFilters - 1
NoFilter == [s \in Sel |-> [n \in Gen |-> [d \in Depth |-> {}]]]
NoLoad == [s \in Sel |-> 0]
Forgotten == [s \in Sel |-> [i \in Id |-> NumFilters]]

\* There is no file, or one of the wrong size because a write did not finish.
NoFile == {}

InFilter(s, n, i) == \A d \in Depth : BitOf[i][d] \in filter[s][n][d]
Found(s, i) == \E n \in Gen : InFilter(s, n, i)

Init ==
  /\ filter = NoFilter
  /\ load = NoLoad
  /\ since = Forgotten
  /\ file = NoFile
  /\ saving = FALSE

\* Filter 0 of selector s with the bits of i added, and the load that makes.
Added(s, i) == [filter EXCEPT ![s][0] = [d \in Depth |-> @[d] \cup {BitOf[i][d]}]]
LoadAfter(s, i) == IF InFilter(s, 0, i) THEN load[s] ELSE load[s] + 1

\* All filters of all selectors move one generation on.
MutAdvanced(f) ==                      \* mutant: stops short of the oldest
  [s \in Sel |-> [n \in Gen |-> IF n = 0 THEN NoFilter[s][0]
                                ELSE IF n = NumFilters - 1 THEN f[s][n]
                                ELSE f[s][n - 1]]]
Advanced(f) ==
  [s \in Sel |-> [n \in Gen |-> IF n = 0 THEN NoFilter[s][0] ELSE f[s][n - 1]]]
Older(g) ==
  [s \in Sel |-> [i \in Id |-> IF g[s][i] < NumFilters THEN g[s][i] + 1
                               ELSE NumFilters]]

Overloaded(s, i) == LoadAfter(s, i) > MaxLoad

\* pid_add_to_bloom, which advances and saves once filter 0 has too many bits.
Add(s, i) ==
  LET added == [since EXCEPT ![s][i] = 0] IN
  \/ /\ ~ Overloaded(s, i)
     /\ filter' = Added(s, i)
     /\ load' = [load EXCEPT ![s] = LoadAfter(s, i)]
     /\ since' = added
     /\ UNCHANGED <<file, saving>>
  \/ /\ Overloaded(s, i)
     /\ filter' = Advanced(Added(s, i))
     /\ load' = NoLoad
     /\ since' = Older(added)
     /\ file' = NoFile /\ saving' = TRUE

AddToBloom(s, i) == ~ saving /\ Add(s, i)

\* pid_is_in_bloom finds i in a filter other than 0 and adds it to filter 0.
\* In filter 0, or in none, it changes nothing.
Refresh(s, i) ==
  /\ ~ saving
  /\ ~ InFilter(s, 0, i) /\ Found(s, i)
  /\ Add(s, i)

\* pid_advance_bloom, called by the garbage collection, which then saves.
AdvanceBloom ==
  /\ ~ saving
  /\ filter' = Advanced(filter)
  /\ load' = NoLoad
  /\ since' = Older(since)
  /\ file' = NoFile /\ saving' = TRUE

\* pid_save_bloom at the end of the program; the file is open and empty.
StartSave ==
  /\ ~ saving
  /\ file' = NoFile /\ saving' = TRUE
  /\ UNCHANGED <<filter, load, since>>
FinishSave ==
  /\ saving
  /\ file' = {[filter |-> filter, since |-> since]}
  /\ saving' = FALSE
  /\ UNCHANGED <<filter, load, since>>

\* init_filter_load counts the bits of filter 0: the load is that of the depth
\* with most bits.  A full filter makes it give up on all of them.
Bits(f, s, d) == Cardinality(f[s][0][d])
IsLoad(f, s, n) == /\ \A d \in Depth : Bits(f, s, d) <= n
                   /\ \E d \in Depth : Bits(f, s, d) = n
Excessive(f) == \E s \in Sel, d \in Depth : Bits(f, s, d) >= MaxLoad

\* The program ends or dies, and the next one calls bloom_init.
RestartEmpty ==
  /\ \A saved \in file : Excessive(saved.filter)
  /\ filter' = NoFilter /\ load' = NoLoad /\ since' = Forgotten
RestartLoaded ==
  \E saved \in file :
    /\ ~ Excessive(saved.filter)
    /\ filter' = saved.filter /\ since' = saved.since
    /\ load' \in {n \in [Sel -> 0 .. MaxLoad - 1] :
                   \A s \in Sel : IsLoad(saved.filter, s, n[s])}
Restart ==
  /\ RestartEmpty \/ RestartLoaded
  /\ saving' = FALSE
  /\ UNCHANGED file

Next ==
  \/ \E s \in Sel, i \in Id : AddToBloom(s, i) \/ Refresh(s, i)
  \/ AdvanceBloom \/ StartSave \/ FinishSave
  \/ Restart

Spec == Init /\ [][Next]_vars

-----------------------------------------------------------------------------
(* Filters, loads and the file have the shape of their C types.              *)
TypeOK ==
  /\ filter \in [Sel -> [Gen -> [Depth -> SUBSET Nat]]]
  /\ load \in [Sel -> Nat]
  /\ since \in [Sel -> [Id -> 0 .. NumFilters]]
  /\ \A saved \in file :
       /\ saved.filter \in [Sel -> [Gen -> [Depth -> SUBSET Nat]]]
       /\ saved.since \in [Sel -> [Id -> 0 .. NumFilters]]
  /\ saving \in BOOLEAN

(* No false negatives: an id is found until the filters have advanced        *)
(* NUM_FILTERS times since it was last added or looked up, also after a      *)
(* restart from the file.                                                    *)
NeverForgottenEarly ==
  \A s \in Sel, i \in Id : since[s][i] < NumFilters => Found(s, i)

(* "the filter load is an overestimate, and we may save too soon but not too *)
(* late": no depth of filter 0 has more bits than filter_load says, and that *)
(* never exceeds MAX_FILTER_LOAD.                                            *)
LoadCoversFilter ==
  \A s \in Sel :
    /\ load[s] <= MaxLoad
    /\ \A d \in Depth : Cardinality(filter[s][0][d]) <= load[s]
=============================================================================

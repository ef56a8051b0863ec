--------------------------- MODULE RecordsProofs ----------------------------
(***************************************************************************)
(* What a system keeps: the ids that its filters have seen are forgotten   *)
(* only in time (NeverForgottenEarly of PidBloom), the keys of its contacts     *)
(* stay apart and stay theirs (KeyUsedOnce and PeerKeyStays of Contacts),  *)
(* its contacts are what their files say (AsSaved of Contacts), and its    *)
(* cached messages are what their files say (CacheIsFile and MissingAddsUp *)
(* of Store).                                                              *)
(***************************************************************************)
EXTENDS PidBloom, Contacts, Store, FiniteSetTheorems, SubsequenceProofs

(***************************************************************************)
(* The filters of ids, for any number and size of filters: no id is        *)
(* forgotten early, and the load is never less than the bits that are set. *)
(***************************************************************************)
FilterType == [Sel -> [Gen -> [Depth -> SUBSET Nat]]]
SinceType == [Sel -> [Id -> 0 .. NumFilters]]

\* Generation g[s][i] of f has the bits of i: where an id stays until it leaves.
Holds(f, g) ==
  \A s \in Sel, i \in Id : g[s][i] < NumFilters =>
    \A d \in Depth : BitOf[i][d] \in f[s][g[s][i]][d]

FilesHold ==
  \A saved \in file : /\ saved.filter \in FilterType /\ saved.since \in SinceType
                      /\ Holds(saved.filter, saved.since)

BloomInv == /\ filter \in FilterType /\ since \in SinceType
            /\ Holds(filter, since) /\ FilesHold

LEMMA GenZero == 0 \in Gen /\ NumFilters \in Nat /\ NumFilters > 0
BY FilterAssumption DEF Gen

LEMMA EmptyTypes ==
  NoFilter \in FilterType /\ Forgotten \in SinceType /\ Holds(NoFilter, Forgotten)
BY GenZero DEF NoFilter, Forgotten, FilterType, SinceType, Holds

(* What pid_add_to_bloom adds is in filter 0.                                *)
LEMMA AddHolds ==
  ASSUME BloomInv, NEW s \in Sel, NEW i \in Id
  PROVE  /\ Added(s, i) \in FilterType
         /\ [since EXCEPT ![s][i] = 0] \in SinceType
         /\ Holds(Added(s, i), [since EXCEPT ![s][i] = 0])
<1> DEFINE f == Added(s, i)
           g == [since EXCEPT ![s][i] = 0]
<1>1. BitOf[i] \in [Depth -> Nat]
  BY FilterAssumption
<1>2. f \in FilterType /\ g \in SinceType
  BY <1>1, GenZero DEF Added, BloomInv, FilterType, SinceType
<1>3. ASSUME NEW t \in Sel, NEW j \in Id, NEW d \in Depth, g[t][j] < NumFilters
      PROVE  BitOf[j][d] \in f[t][g[t][j]][d]
  <2>1. g[t][j] \in Gen
    BY <1>2, <1>3, GenZero DEF SinceType, Gen
  <2>2. \A n \in Gen : filter[t][n][d] \subseteq f[t][n][d]
    BY GenZero DEF Added, BloomInv, FilterType
  <2>3. CASE t = s /\ j = i
    BY <2>3, GenZero DEF Added, BloomInv, FilterType, SinceType
  <2>4. CASE ~ (t = s /\ j = i)
    <3>1. g[t][j] = since[t][j]
      BY <2>4 DEF BloomInv, SinceType
    <3>2. BitOf[j][d] \in filter[t][since[t][j]][d]
      BY <1>3, <3>1 DEF BloomInv, Holds
    <3> QED BY <2>1, <2>2, <3>1, <3>2
  <2> QED BY <2>3, <2>4
<1> QED BY <1>2, <1>3 DEF Holds

(* Advancing the filters moves every id one generation on.                   *)
LEMMA AdvanceHolds ==
  ASSUME NEW f \in FilterType, NEW g \in SinceType, Holds(f, g)
  PROVE  /\ Advanced(f) \in FilterType /\ Older(g) \in SinceType
         /\ Holds(Advanced(f), Older(g))
<1>1. \A n \in Gen : n # 0 => n - 1 \in Gen
  BY GenZero DEF Gen
<1>2. Advanced(f) \in FilterType /\ Older(g) \in SinceType
  BY <1>1, GenZero DEF Advanced, Older, FilterType, SinceType, NoFilter
<1>3. ASSUME NEW t \in Sel, NEW j \in Id, NEW d \in Depth, Older(g)[t][j] < NumFilters
      PROVE  BitOf[j][d] \in Advanced(f)[t][Older(g)[t][j]][d]
  <2>1. Older(g)[t][j] = g[t][j] + 1 /\ g[t][j] \in Nat /\ g[t][j] < NumFilters
    BY <1>3, GenZero DEF Older, SinceType
  <2>2. Older(g)[t][j] \in Gen
    BY <1>3, <2>1, GenZero DEF Gen
  <2>3. Advanced(f)[t][Older(g)[t][j]] = f[t][g[t][j]]
    BY <2>1, <2>2 DEF Advanced
  <2> QED BY <2>1, <2>3 DEF Holds
<1> QED BY <1>2, <1>3 DEF Holds

LEMMA AddKeeps ==
  ASSUME BloomInv, NEW s \in Sel, NEW i \in Id, Add(s, i) PROVE BloomInv'
<1> DEFINE f == Added(s, i)
           g == [since EXCEPT ![s][i] = 0]
<1>1. f \in FilterType /\ g \in SinceType /\ Holds(f, g)
  BY AddHolds
<1>2. CASE ~ Overloaded(s, i)
  <2>1. filter' = f /\ since' = g /\ file' = file
    BY <1>2 DEF Add
  <2> HIDE DEF f, g
  <2> QED BY <1>1, <2>1 DEF BloomInv, FilesHold
<1>3. CASE Overloaded(s, i)
  <2>1. filter' = Advanced(f) /\ since' = Older(g) /\ file' = {}
    BY <1>3 DEF Add, NoFile
  <2> HIDE DEF f, g
  <2>2. /\ Advanced(f) \in FilterType /\ Older(g) \in SinceType
        /\ Holds(Advanced(f), Older(g))
    BY <1>1, AdvanceHolds
  <2> QED BY <2>1, <2>2 DEF BloomInv, FilesHold
<1> QED BY <1>2, <1>3

LEMMA BloomStep == BloomInv /\ [Next]_vars => BloomInv'
<1> SUFFICES ASSUME BloomInv, [Next]_vars PROVE BloomInv'
  OBVIOUS
<1>1. ASSUME NEW s \in Sel, NEW i \in Id, AddToBloom(s, i) \/ Refresh(s, i)
      PROVE  BloomInv'
  BY <1>1, AddKeeps DEF AddToBloom, Refresh
<1>2. CASE AdvanceBloom
  BY <1>2, AdvanceHolds DEF AdvanceBloom, BloomInv, FilesHold, NoFile
<1>3. CASE StartSave
  BY <1>3 DEF StartSave, BloomInv, FilesHold, NoFile
<1>4. CASE FinishSave
  <2>1. /\ filter' = filter /\ since' = since
        /\ \A saved \in file' : saved.filter = filter /\ saved.since = since
    BY <1>4 DEF FinishSave
  <2> QED BY <2>1 DEF BloomInv, FilesHold
<1>5. CASE Restart
  <2>1. file' = file
    BY <1>5 DEF Restart
  <2>2. CASE RestartEmpty
    BY <2>1, <2>2, EmptyTypes DEF RestartEmpty, BloomInv, FilesHold
  <2>3. CASE RestartLoaded
    BY <2>1, <2>3 DEF RestartLoaded, BloomInv, FilesHold
  <2> QED BY <1>5, <2>2, <2>3 DEF Restart
<1>6. CASE UNCHANGED vars
  BY <1>6 DEF vars, BloomInv, FilesHold
<1> QED BY <1>1, <1>2, <1>3, <1>4, <1>5, <1>6 DEF Next

LEMMA BloomInvFinds == BloomInv => NeverForgottenEarly
<1> SUFFICES ASSUME BloomInv, NEW s \in Sel, NEW i \in Id, since[s][i] < NumFilters
             PROVE  Found(s, i)
  BY DEF NeverForgottenEarly
<1>1. since[s][i] \in Gen
  BY GenZero DEF BloomInv, SinceType, Gen
<1>2. InFilter(s, since[s][i], i)
  BY DEF BloomInv, Holds, InFilter
<1> QED BY <1>1, <1>2 DEF Found

(* An id is found until NUM_FILTERS advances after it was last added, however *)
(* many ids collide with it, and also when the program restarts in between.  *)
THEOREM FiltersRemember == Spec => []NeverForgottenEarly
<1>1. Init => BloomInv
  BY EmptyTypes DEF Init, BloomInv, FilesHold, NoFile
<1> QED BY <1>1, BloomStep, BloomInvFinds, PTL DEF Spec

-----------------------------------------------------------------------------
\* Filter 0 has finitely many bits at each depth, no more than its load.
Counted(f, n, s) ==
  \A d \in Depth : IsFiniteSet(f[s][0][d]) /\ Bits(f, s, d) <= n

LoadInv ==
  /\ load \in [Sel -> 0 .. MaxLoad]
  /\ \A s \in Sel : Counted(filter, load[s], s)
  /\ \A saved \in file, s \in Sel, d \in Depth : IsFiniteSet(saved.filter[s][0][d])

LEMMA NothingCounted ==
  ASSUME NEW f \in FilterType
  PROVE  /\ NoLoad \in [Sel -> 0 .. MaxLoad]
         /\ \A s \in Sel : Counted(NoFilter, NoLoad[s], s)
         /\ \A s \in Sel : Counted(Advanced(f), NoLoad[s], s)
BY GenZero, FilterAssumption, FS_EmptySet
   DEF NoLoad, NoFilter, Counted, Bits, Advanced

(* A new bit is counted, and counting it cannot pass the limit unnoticed.    *)
LEMMA AddCounts ==
  ASSUME BloomInv, LoadInv, NEW s \in Sel, NEW i \in Id, Add(s, i)
  PROVE  LoadInv'
<1>0. /\ MaxLoad \in Nat \ {0} /\ load[s] \in 0 .. MaxLoad
      /\ Added(s, i) \in FilterType
  BY AddHolds, FilterAssumption DEF LoadInv
<1>1. CASE Overloaded(s, i)
  <2>1. filter' = Advanced(Added(s, i)) /\ load' = NoLoad /\ file' = {}
    BY <1>1 DEF Add, NoFile
  <2> QED BY <1>0, <2>1, NothingCounted DEF LoadInv
<1>2. CASE ~ Overloaded(s, i)
  <2>1. /\ filter' = Added(s, i) /\ file' = file
        /\ load' = [load EXCEPT ![s] = LoadAfter(s, i)]
        /\ LoadAfter(s, i) <= MaxLoad
    BY <1>0, <1>2 DEF Add, Overloaded, LoadAfter
  <2>2. load' \in [Sel -> 0 .. MaxLoad]
    BY <1>0, <2>1 DEF LoadInv, LoadAfter
  <2>3. ASSUME NEW t \in Sel PROVE Counted(filter', load'[t], t)
    <3>1. CASE t # s
      BY <2>1, <3>1, GenZero DEF LoadInv, Counted, Bits, Added, BloomInv, FilterType
    <3>2. CASE t = s
      <4> SUFFICES ASSUME NEW d \in Depth
                   PROVE  /\ IsFiniteSet(filter'[s][0][d])
                          /\ Bits(filter', s, d) <= LoadAfter(s, i)
        BY <2>1, <3>2 DEF Counted, LoadInv
      <4> DEFINE old == filter[s][0][d]
                 x == BitOf[i][d]
      <4>1. filter'[s][0][d] = old \cup {x}
        BY <2>1, GenZero DEF Added, BloomInv, FilterType
      <4>2. IsFiniteSet(old) /\ Cardinality(old) <= load[s]
        BY DEF LoadInv, Counted, Bits
      <4>3. InFilter(s, 0, i) => x \in old
        BY DEF InFilter
      <4> HIDE DEF old, x
      <4>4. /\ IsFiniteSet(old \cup {x}) /\ Cardinality(old) \in Nat
            /\ Cardinality(old \cup {x})
                 = IF x \in old THEN Cardinality(old) ELSE Cardinality(old) + 1
        BY <4>2, FS_AddElement, FS_CardinalityType
      <4> QED BY <1>0, <4>1, <4>2, <4>3, <4>4 DEF LoadAfter, Bits
    <3> QED BY <3>1, <3>2
  <2> QED BY <2>1, <2>2, <2>3 DEF LoadInv
<1> QED BY <1>1, <1>2

LEMMA LoadStep == BloomInv /\ LoadInv /\ [Next]_vars => LoadInv'
<1> SUFFICES ASSUME BloomInv, LoadInv, [Next]_vars PROVE LoadInv'
  OBVIOUS
<1>1. ASSUME NEW s \in Sel, NEW i \in Id, AddToBloom(s, i) \/ Refresh(s, i)
      PROVE  LoadInv'
  BY <1>1, AddCounts DEF AddToBloom, Refresh
<1>2. CASE AdvanceBloom
  BY <1>2, NothingCounted DEF AdvanceBloom, BloomInv, LoadInv, NoFile
<1>3. CASE StartSave
  BY <1>3 DEF StartSave, LoadInv, NoFile, Counted, Bits
<1>4. CASE FinishSave
  <2>1. /\ filter' = filter /\ load' = load
        /\ \A saved \in file' : saved.filter = filter
    BY <1>4 DEF FinishSave
  <2> QED BY <2>1 DEF LoadInv, Counted, Bits
<1>5. CASE Restart
  <2>1. file' = file
    BY <1>5 DEF Restart
  <2>2. CASE RestartEmpty
    BY <2>1, <2>2, EmptyTypes, NothingCounted DEF RestartEmpty, LoadInv
  <2>3. CASE RestartLoaded
    <3>1. PICK saved \in file :
            /\ filter' = saved.filter /\ load' \in [Sel -> 0 .. MaxLoad - 1]
            /\ \A s \in Sel : IsLoad(saved.filter, s, load'[s])
      BY <2>3 DEF RestartLoaded
    <3>2. load' \in [Sel -> 0 .. MaxLoad]
      BY <3>1, FilterAssumption
    <3>3. \A s \in Sel : Counted(saved.filter, load'[s], s)
      BY <3>1 DEF LoadInv, IsLoad, Counted
    <3> QED BY <2>1, <3>1, <3>2, <3>3 DEF LoadInv
  <2> QED BY <1>5, <2>2, <2>3 DEF Restart
<1>6. CASE UNCHANGED vars
  BY <1>6 DEF vars, LoadInv, Counted, Bits
<1> QED BY <1>1, <1>2, <1>3, <1>4, <1>5, <1>6 DEF Next

(* filter_load is never below the number of bits of any depth of filter 0,   *)
(* nor above MAX_FILTER_LOAD: the filters are advanced in time.              *)
THEOREM LoadIsOverestimate == Spec => []LoadCoversFilter
<1>1. Init => BloomInv /\ LoadInv
  BY EmptyTypes, NothingCounted DEF Init, BloomInv, FilesHold, LoadInv, NoFile
<1>2. LoadInv => LoadCoversFilter
  BY FilterAssumption DEF LoadInv, LoadCoversFilter, Counted, Bits
<1> QED BY <1>1, <1>2, BloomStep, LoadStep, PTL DEF Spec

-----------------------------------------------------------------------------
(***************************************************************************)
(* The keys of contacts.                                                   *)
(***************************************************************************)
Sides == {"local", "remote"}
Entry == [name : Names \cup {None}, dir : Seconds \cup {None}, group : BOOLEAN,
          visible : BOOLEAN, deleted : BOOLEAN, members : Seq(Names),
          priv : Keys \cup {None}, pub : PubKeys \cup {None}, addr : SUBSET {"local", "remote"},
          sym : Names \cup {None}, state : Names \cup {None}]
File == [there : BOOLEAN, name : Names \cup {None}, priv : Keys \cup {None},
         privInv : Keys \cup {None}, pub : PubKeys \cup {None}, addr : SUBSET {"local", "remote"},
         group : BOOLEAN, members : Seq(Names), sym : Names \cup {None},
         symInv : Names \cup {None}, state : Names \cup {None}, hidden : BOOLEAN]

\* Directory d has the private key k: in one of its files, or in the live entry for d.
HeldIn(d, k) ==
  \/ disk[d].priv = k \/ disk[d].privInv = k
  \/ \E i \in DOMAIN kip : ~ kip[i].deleted /\ kip[i].dir = d /\ kip[i].priv = k

ContactsTypes ==
  /\ kip \in Seq(Entry) /\ disk \in [Seconds -> File] /\ spares \subseteq Keys /\ now \in Seconds
\* An entry has a directory of its own, or no keys.
DirsApart ==
  \A i \in DOMAIN kip :
    /\ kip[i].dir = None => kip[i].priv = None /\ kip[i].pub = None
    /\ \A j \in DOMAIN kip : i # j /\ kip[i].dir # None => kip[i].dir # kip[j].dir
\* A private key is in one directory at most, and then it is no spare key.
KeysApart ==
  \A k \in Keys, d \in Seconds : HeldIn(d, k) =>
    /\ k \notin spares
    /\ \A e \in Seconds : HeldIn(e, k) => d = e
\* The file of a live entry has its public key, or none.
PubSaved ==
  \A i \in DOMAIN kip : ~ kip[i].deleted /\ kip[i].pub # None =>
    disk[kip[i].dir].pub \in {kip[i].pub, None}
KeysInv == ContactsTypes /\ DirsApart /\ KeysApart /\ PubSaved

\* What a step may do to the public keys of live entries (PeerKeyStays).
PubStays ==
  \A i \in DOMAIN kip, j \in DOMAIN kip' :
    /\ Live(i) /\ ~ kip'[j].deleted /\ kip[i].dir = kip'[j].dir
    /\ kip[i].pub # None /\ kip'[j].priv # None /\ kip[i].priv # None
    => kip'[j].pub \in {kip[i].pub, None}

-----------------------------------------------------------------------------
\* Steps that leave the entries where they are.
SamePlaces ==
  /\ ContactsTypes' /\ DOMAIN kip' = DOMAIN kip /\ spares' = spares
  /\ \A i \in DOMAIN kip :
       /\ kip'[i].dir = kip[i].dir
       /\ kip[i].deleted => kip'[i].deleted
       /\ kip'[i].priv \in {kip[i].priv, None} \/ (kip[i].dir # None /\ HeldIn(kip[i].dir, kip'[i].priv))
       /\ kip'[i].pub = kip[i].pub \/ (kip[i].dir # None /\ kip[i].pub = None)
  /\ \A d \in Seconds :
       /\ disk'[d].priv = None \/ HeldIn(d, disk'[d].priv)
       /\ disk'[d].privInv = None \/ HeldIn(d, disk'[d].privInv)
       /\ \/ disk'[d].pub \in {disk[d].pub, None}
          \/ \E i \in DOMAIN kip : ~ kip[i].deleted /\ kip[i].dir = d /\ disk'[d].pub = kip'[i].pub
  /\ \A i \in DOMAIN kip : ~ kip'[i].deleted /\ kip[i].pub = None /\ kip'[i].pub # None =>
       disk'[kip[i].dir].pub = kip'[i].pub

LEMMA SamePlacesKeep == KeysInv /\ SamePlaces => KeysInv' /\ PubStays
<1> SUFFICES ASSUME KeysInv, SamePlaces PROVE KeysInv' /\ PubStays
  OBVIOUS
<1>0. /\ \A i \in DOMAIN kip : kip[i] \in Entry
      /\ \A i \in DOMAIN kip : kip'[i] \in Entry
      /\ \A d \in Seconds : disk[d] \in File /\ disk'[d] \in File
      /\ None \notin Keys \cup PubKeys \cup Seconds
  BY ContactsAssumption DEF KeysInv, ContactsTypes, SamePlaces
<1>1. DirsApart'
  BY <1>0 DEF KeysInv, DirsApart, SamePlaces
<1>2. ASSUME NEW d \in Seconds, NEW k \in Keys, HeldIn(d, k)' PROVE HeldIn(d, k)
  <2>1. CASE disk'[d].priv = k \/ disk'[d].privInv = k
    BY <1>0, <1>2, <2>1 DEF SamePlaces
  <2>2. CASE \E i \in DOMAIN kip' : ~ kip'[i].deleted /\ kip'[i].dir = d /\ kip'[i].priv = k
    <3>1. PICK i \in DOMAIN kip : ~ kip'[i].deleted /\ kip'[i].dir = d /\ kip'[i].priv = k
      BY <2>2 DEF SamePlaces
    <3>2. ~ kip[i].deleted /\ kip[i].dir = d /\ k # None
      BY <1>0, <3>1 DEF SamePlaces
    <3>3. CASE kip'[i].priv = kip[i].priv
      BY <3>1, <3>2, <3>3 DEF HeldIn
    <3>4. CASE kip'[i].priv # kip[i].priv
      BY <3>1, <3>2, <3>4 DEF SamePlaces
    <3> QED BY <3>3, <3>4
  <2> QED BY <1>2, <2>1, <2>2 DEF HeldIn
<1>3. KeysApart'
  <2>1. spares' = spares
    BY DEF SamePlaces
  <2> QED BY <1>2, <2>1 DEF KeysInv, KeysApart
<1>4. PubSaved'
  <2> SUFFICES ASSUME NEW i \in DOMAIN kip, ~ kip'[i].deleted, kip'[i].pub # None
               PROVE  disk'[kip'[i].dir].pub \in {kip'[i].pub, None}
    BY DEF PubSaved, SamePlaces
  <2>1. /\ ~ kip[i].deleted /\ kip'[i].dir = kip[i].dir
    BY <1>0 DEF SamePlaces
  <2>2. CASE kip[i].pub = None
    BY <2>1, <2>2 DEF SamePlaces
  <2>3. CASE kip[i].pub # None
    <3>1. kip'[i].pub = kip[i].pub /\ kip[i].dir \in Seconds
      BY <1>0, <2>3 DEF SamePlaces, KeysInv, DirsApart, Entry
    <3>2. disk[kip[i].dir].pub \in {kip[i].pub, None}
      BY <2>1, <2>3 DEF KeysInv, PubSaved
    <3>3. CASE disk'[kip[i].dir].pub \in {disk[kip[i].dir].pub, None}
      BY <2>1, <3>1, <3>2, <3>3
    <3>4. CASE \E j \in DOMAIN kip : /\ ~ kip[j].deleted /\ kip[j].dir = kip[i].dir
                                     /\ disk'[kip[i].dir].pub = kip'[j].pub
      <4>1. PICK j \in DOMAIN kip : /\ kip[j].dir = kip[i].dir
                                    /\ disk'[kip[i].dir].pub = kip'[j].pub
        BY <3>4
      <4>2. j = i
        BY <1>0, <3>1, <4>1 DEF KeysInv, DirsApart
      <4> QED BY <2>1, <4>1, <4>2
    <3> QED BY <3>1, <3>3, <3>4 DEF SamePlaces
  <2> QED BY <2>2, <2>3
<1>5. PubStays
  <2> SUFFICES ASSUME NEW i \in DOMAIN kip, NEW j \in DOMAIN kip', kip[i].dir = kip'[j].dir,
                      kip[i].pub # None
               PROVE  kip'[j].pub \in {kip[i].pub, None}
    BY DEF PubStays
  <2>1. j \in DOMAIN kip /\ kip'[j].dir = kip[j].dir /\ kip[i].dir # None
    BY DEF SamePlaces, KeysInv, DirsApart
  <2>2. i = j
    BY <2>1 DEF KeysInv, DirsApart
  <2> QED BY <2>2 DEF SamePlaces
<1> QED BY <1>1, <1>3, <1>4, <1>5 DEF KeysInv, SamePlaces

-----------------------------------------------------------------------------
\* A key for the current second that no directory has; the spare keys are used up only.
NewKeyFor(key) ==
  /\ key \in Keys \cup {None} /\ spares' \subseteq spares
  /\ \A d \in Seconds : key # None => ~ HeldIn(d, key)
  /\ key \notin spares'

\* Steps that put one entry e, with the key, where no entry was.
NewPlace(e, key) ==
  /\ ContactsTypes' /\ NewKeyFor(key)
  /\ e.dir = now /\ e.priv \in {key, None} /\ \A i \in DOMAIN kip : kip[i].dir # now
  /\ \E n \in Nat : \A j \in DOMAIN kip' :
       \/ j = n /\ kip'[j] = e
       \/ j # n /\ j \in DOMAIN kip /\ kip'[j] = kip[j]
  /\ \A d \in Seconds : d # now => disk'[d] = disk[d]
  /\ disk'[now].priv \in {disk[now].priv, e.priv} /\ disk'[now].privInv = disk[now].privInv
  /\ e.pub # None => disk'[now].pub = e.pub

LEMMA NewPlaceKeeps ==
  ASSUME KeysInv, NEW e, NEW key, NewPlace(e, key) PROVE KeysInv' /\ PubStays
<1>0. /\ \A i \in DOMAIN kip : kip[i] \in Entry
      /\ \A i \in DOMAIN kip' : kip'[i] \in Entry
      /\ \A d \in Seconds : disk[d] \in File /\ disk'[d] \in File
      /\ None \notin Keys \cup PubKeys \cup Seconds /\ now \in Seconds
  BY ContactsAssumption DEF KeysInv, ContactsTypes, NewPlace
<1>1. PICK n \in Nat : \A j \in DOMAIN kip' :
        \/ j = n /\ kip'[j] = e
        \/ j # n /\ j \in DOMAIN kip /\ kip'[j] = kip[j]
  BY DEF NewPlace
<1>2. DirsApart'
  BY <1>0, <1>1 DEF DirsApart, KeysInv, NewPlace
<1>3. ASSUME NEW d \in Seconds, NEW k \in Keys, HeldIn(d, k)'
      PROVE  HeldIn(d, k) \/ (d = now /\ k = key)
  <2>1. CASE disk'[d].priv = k \/ disk'[d].privInv = k
    BY <1>0, <2>1 DEF NewPlace, HeldIn
  <2>2. CASE \E i \in DOMAIN kip' : ~ kip'[i].deleted /\ kip'[i].dir = d /\ kip'[i].priv = k
    BY <1>0, <1>1, <2>2 DEF NewPlace, HeldIn
  <2> QED BY <1>3, <2>1, <2>2 DEF HeldIn
<1>4. KeysApart'
  <2>1. spares' \subseteq spares /\ \A d \in Seconds : key \in Keys => ~ HeldIn(d, key)
    BY <1>0 DEF NewPlace, NewKeyFor
  <2>2. key \notin spares'
    BY DEF NewPlace, NewKeyFor
  <2> QED BY <1>3, <2>1, <2>2 DEF KeysInv, KeysApart
<1>5. PubSaved'
  <2> SUFFICES ASSUME NEW j \in DOMAIN kip', ~ kip'[j].deleted, kip'[j].pub # None
               PROVE  disk'[kip'[j].dir].pub \in {kip'[j].pub, None}
    BY DEF PubSaved
  <2>1. CASE kip'[j] = e
    BY <2>1 DEF NewPlace
  <2>2. CASE j \in DOMAIN kip /\ kip'[j] = kip[j]
    <3>1. kip[j].dir \in Seconds /\ kip[j].dir # now
      BY <1>0, <2>2 DEF NewPlace, KeysInv, DirsApart, Entry
    <3> QED BY <2>2, <3>1 DEF NewPlace, KeysInv, PubSaved
  <2> QED BY <1>1, <2>1, <2>2
<1>6. PubStays
  <2> SUFFICES ASSUME NEW i \in DOMAIN kip, NEW j \in DOMAIN kip', kip[i].dir = kip'[j].dir,
                      kip[i].pub # None
               PROVE  kip'[j].pub \in {kip[i].pub, None}
    BY DEF PubStays
  <2>1. kip'[j] # e /\ kip[i].dir # None
    BY DEF NewPlace, KeysInv, DirsApart
  <2>2. j \in DOMAIN kip /\ kip'[j] = kip[j]
    BY <1>1, <2>1
  <2>3. i = j
    BY <2>1, <2>2 DEF KeysInv, DirsApart
  <2> QED BY <2>2, <2>3
<1> QED BY <1>2, <1>4, <1>5, <1>6 DEF KeysInv, NewPlace

-----------------------------------------------------------------------------
\* Steps after which the program starts from the files.
Reload(key) ==
  /\ disk' \in [Seconds -> File] /\ now' \in Seconds /\ NewKeyFor(key) /\ InitFromFile
  /\ \A d \in Seconds :
       /\ disk'[d].priv = None \/ HeldIn(d, disk'[d].priv) \/ (d = now /\ disk'[d].priv = key)
       /\ disk'[d].privInv = None \/ HeldIn(d, disk'[d].privInv)
       /\ \/ disk'[d].pub \in {disk[d].pub, None}
          \/ \A i \in DOMAIN kip : kip[i].dir # d

\* An entry as it is loaded.
Loaded(e) ==
  /\ e \in Entry
  /\ \/ e.dir = None /\ e.priv = None /\ e.pub = None
     \/ e.dir \in Seconds /\ e.priv \in {disk'[e.dir].priv, None} /\ e.pub \in {disk'[e.dir].pub, None}

LEMMA SecondsFinite ==
  ASSUME NEW S \in SUBSET Seconds PROVE IsFiniteSet(S) /\ Cardinality(S) \in Nat
BY ContactsAssumption, FS_Subset, FS_CardinalityType

LEMMA StartReads ==
  ASSUME disk' \in [Seconds -> File], InitFromFile
  PROVE  /\ kip' \in Seq(Entry) /\ \A i \in DOMAIN kip' : Loaded(kip'[i])
         /\ \A i, j \in DOMAIN kip' : i # j /\ kip'[i].dir # None => kip'[i].dir # kip'[j].dir
<1> DEFINE there == {d \in Seconds : disk'[d].there}
           named == {d \in there : disk'[d].name # None}
           m == Cardinality(there \ named)
           n == Cardinality(named)
<1>1. PICK order \in [1 .. n -> named] :
        /\ \A i, j \in 1 .. n : i # j => order[i] # order[j]
        /\ kip' = [i \in DOMAIN order |-> ReadKeyInfo(order[i])] \o [i \in 1 .. m |-> Individual]
  BY Zenon DEF InitFromFile, SetToSeqs
<1>2. m \in Nat /\ n \in Nat /\ named \subseteq Seconds
  BY SecondsFinite
<1> HIDE DEF m, n, named, there
<1>3. ASSUME NEW d \in Seconds PROVE ReadKeyInfo(d) \in Entry /\ ReadKeyInfo(d).dir = d /\ Loaded(ReadKeyInfo(d))
  <2>1. disk'[d] \in File
    OBVIOUS
  <2>2. ReadKeyInfo(d) \in Entry
    BY <2>1 DEF ReadKeyInfo, GetMembers, Entry, File
  <2>3. /\ ReadKeyInfo(d).dir = d /\ ReadKeyInfo(d).priv \in {disk'[d].priv, None}
        /\ ReadKeyInfo(d).pub \in {disk'[d].pub, None}
    BY DEF ReadKeyInfo
  <2> QED BY <2>2, <2>3 DEF Loaded
<1>4. Individual \in Entry /\ Loaded(Individual) /\ Individual.dir = None
  <2>1. Individual \in Entry
    BY DEF Individual, Entry
  <2> QED BY <2>1 DEF Individual, Loaded
<1> DEFINE x == [i \in DOMAIN order |-> ReadKeyInfo(order[i])]
           y == [i \in 1 .. m |-> Individual]
<1>5. x \in Seq(Entry) /\ Len(x) = n /\ \A i \in 1 .. n : x[i] = ReadKeyInfo(order[i])
  <2>1. DOMAIN order = 1 .. n /\ \A i \in 1 .. n : order[i] \in Seconds
    BY <1>2
  <2>2. \A i \in 1 .. n : ReadKeyInfo(order[i]) \in Entry
    BY <1>3, <2>1
  <2> QED BY <1>2, <2>1, <2>2, IsASeq
<1>6. y \in Seq(Entry) /\ Len(y) = m /\ \A i \in 1 .. m : y[i] = Individual
  BY <1>2, <1>4, IsASeq
<1> HIDE DEF x, y
<1>7. kip' = x \o y
  BY <1>1 DEF x, y
<1>8. /\ kip' \in Seq(Entry) /\ Len(kip') = n + m /\ DOMAIN kip' = 1 .. n + m
      /\ \A i \in 1 .. n + m : kip'[i] = IF i <= n THEN x[i] ELSE y[i - n]
  <2>1. /\ x \o y \in Seq(Entry) /\ Len(x \o y) = Len(x) + Len(y)
        /\ \A i \in 1 .. Len(x) + Len(y) : (x \o y)[i] = IF i <= Len(x) THEN x[i] ELSE y[i - Len(x)]
    BY <1>5, <1>6, ConcatProperties
  <2>2. DOMAIN (x \o y) = 1 .. n + m
    BY <1>5, <1>6, <2>1, LenProperties
  <2> QED BY <1>5, <1>6, <1>7, <2>1, <2>2
<1>9. \A i \in DOMAIN kip' :
        \/ i \in 1 .. n /\ kip'[i] = ReadKeyInfo(order[i])
        \/ kip'[i] = Individual
  BY <1>2, <1>5, <1>6, <1>8
<1>10. \A i \in 1 .. n : order[i] \in Seconds
  BY <1>2
<1>11. \A i \in DOMAIN kip' : Loaded(kip'[i])
  BY <1>3, <1>4, <1>9, <1>10, Zenon
<1>12. ASSUME NEW i \in DOMAIN kip', NEW j \in DOMAIN kip', i # j, kip'[i].dir # None
       PROVE  kip'[i].dir # kip'[j].dir
  <2>1. i \in 1 .. n /\ kip'[i] = ReadKeyInfo(order[i])
    BY <1>4, <1>9, <1>12
  <2>2. kip'[i].dir = order[i] /\ order[i] # None
    BY <1>3, <1>10, <1>12, <2>1
  <2>3. CASE kip'[j] = Individual
    BY <1>4, <1>12, <2>3
  <2>4. CASE j \in 1 .. n /\ kip'[j] = ReadKeyInfo(order[j])
    <3>1. kip'[j].dir = order[j]
      BY <1>3, <1>10, <2>4
    <3> QED BY <1>1, <1>12, <2>1, <2>2, <2>4, <3>1
  <2> QED BY <1>9, <2>3, <2>4
<1> QED BY <1>8, <1>11, <1>12

LEMMA ReloadKeeps == ASSUME KeysInv, NEW key, Reload(key) PROVE KeysInv' /\ PubStays
<1>0. /\ \A i \in DOMAIN kip : kip[i] \in Entry
      /\ \A d \in Seconds : disk[d] \in File /\ disk'[d] \in File
      /\ None \notin Keys \cup PubKeys \cup Seconds
  BY ContactsAssumption DEF KeysInv, ContactsTypes, Reload
<1>1. /\ kip' \in Seq(Entry) /\ \A i \in DOMAIN kip' : Loaded(kip'[i])
      /\ \A i, j \in DOMAIN kip' : i # j /\ kip'[i].dir # None => kip'[i].dir # kip'[j].dir
  BY StartReads DEF Reload
<1>2. ContactsTypes'
  BY <1>1 DEF Reload, ContactsTypes, NewKeyFor, KeysInv
<1>3. DirsApart'
  BY <1>0, <1>1 DEF DirsApart, Loaded
<1>4. ASSUME NEW d \in Seconds, NEW k \in Keys, HeldIn(d, k)'
      PROVE  HeldIn(d, k) \/ (d = now /\ k = key)
  <2>1. disk'[d].priv = k \/ disk'[d].privInv = k
    BY <1>0, <1>1, <1>4 DEF HeldIn, Loaded
  <2> QED BY <1>0, <2>1 DEF Reload
<1>5. KeysApart'
  <2>1. /\ spares' \subseteq spares /\ key \notin spares'
        /\ \A d \in Seconds : key \in Keys => ~ HeldIn(d, key)
    BY <1>0 DEF Reload, NewKeyFor
  <2> QED BY <1>4, <2>1 DEF KeysInv, KeysApart
<1>6. PubSaved'
  BY <1>0, <1>1 DEF PubSaved, Loaded
<1>7. PubStays
  <2> SUFFICES ASSUME NEW i \in DOMAIN kip, NEW j \in DOMAIN kip', Live(i), kip[i].dir = kip'[j].dir,
                      kip[i].pub # None
               PROVE  kip'[j].pub \in {kip[i].pub, None}
    BY DEF PubStays
  <2>1. kip[i].dir \in Seconds
    BY <1>0 DEF KeysInv, DirsApart, Entry
  <2>2. kip'[j].pub \in {disk'[kip[i].dir].pub, None}
    BY <1>0, <1>1, <2>1 DEF Loaded
  <2>3. disk'[kip[i].dir].pub \in {disk[kip[i].dir].pub, None}
    BY <2>1 DEF Reload
  <2>4. disk[kip[i].dir].pub \in {kip[i].pub, None}
    BY DEF KeysInv, PubSaved, Live
  <2> QED BY <2>2, <2>3, <2>4
<1> QED BY <1>2, <1>3, <1>5, <1>6, <1>7 DEF KeysInv

-----------------------------------------------------------------------------
\* What most calls do to an entry and to a directory: nothing to the keys, or deletion.
EntryKept(i) ==
  /\ kip'[i] \in Entry /\ kip'[i].dir = kip[i].dir
  /\ kip'[i].priv = kip[i].priv /\ kip'[i].pub = kip[i].pub
  /\ kip[i].deleted => kip'[i].deleted
FileKept(d) ==
  /\ disk'[d] \in File
  /\ disk'[d].priv \in {disk[d].priv, None} /\ disk'[d].privInv \in {disk[d].privInv, None}
  /\ disk'[d].pub \in {disk[d].pub, None}

LEMMA PlainKeeps ==
  ASSUME KeysInv, UNCHANGED <<spares, now>>,
         kip' = [i \in DOMAIN kip |-> kip'[i]], disk' = [d \in Seconds |-> disk'[d]],
         \A i \in DOMAIN kip : EntryKept(i), \A d \in Seconds : FileKept(d)
  PROVE  KeysInv' /\ PubStays
<1>1. kip' \in Seq(Entry) /\ DOMAIN kip' = DOMAIN kip
  <2>1. Len(kip) \in Nat /\ DOMAIN kip = 1 .. Len(kip)
    BY DEF KeysInv, ContactsTypes
  <2>2. \A i \in 1 .. Len(kip) : kip'[i] \in Entry
    BY <2>1 DEF EntryKept
  <2> QED BY <2>1, <2>2, IsASeq
<1>2. ContactsTypes'
  BY <1>1 DEF KeysInv, ContactsTypes, FileKept
<1>3. SamePlaces
  BY <1>1, <1>2 DEF SamePlaces, EntryKept, FileKept, HeldIn
<1> QED BY <1>3, SamePlacesKeep

LEMMA Kinds ==
  ASSUME KeysInv
  PROVE  /\ \A i \in DOMAIN kip : kip[i] \in Entry
         /\ \A d \in Seconds : disk[d] \in File
         /\ None \notin Keys \cup PubKeys \cup Seconds /\ now \in Seconds
         /\ People \subseteq Names /\ GroupNames \subseteq Names /\ NewNames \subseteq Names
BY ContactsAssumption DEF KeysInv, ContactsTypes, Names

LEMMA NoDirIsFile == NoDir \in File /\ NoDir.priv = None /\ NoDir.privInv = None /\ NoDir.pub = None
<1>1. <<>> \in Seq(Names)
  OBVIOUS
<1> QED BY <1>1 DEF NoDir, File

\* What is written to another file of a directory leaves its keys.
LEMMA NameWritten ==
  ASSUME NEW f \in File, NEW n \in Names \cup {None}
  PROVE  LET g == [f EXCEPT !.name = n] IN
         g \in File /\ g.priv = f.priv /\ g.privInv = f.privInv /\ g.pub = f.pub
BY DEF File

LEMMA HiddenWritten ==
  ASSUME NEW f \in File, NEW h \in BOOLEAN
  PROVE  LET g == [f EXCEPT !.hidden = h] IN
         g \in File /\ g.priv = f.priv /\ g.privInv = f.privInv /\ g.pub = f.pub
BY DEF File

LEMMA MembersWritten ==
  ASSUME NEW f \in File, NEW m \in Seq(Names)
  PROVE  LET g == [f EXCEPT !.members = m, !.group = TRUE] IN
         g \in File /\ g.priv = f.priv /\ g.privInv = f.privInv /\ g.pub = f.pub
<1> DEFINE h == [f EXCEPT !.members = m]
<1>1. h \in File /\ h.priv = f.priv /\ h.privInv = f.privInv /\ h.pub = f.pub
  BY DEF File
<1>2. [f EXCEPT !.members = m, !.group = TRUE] = [h EXCEPT !.group = TRUE]
  BY DEF File
<1> HIDE DEF h
<1>3. [h EXCEPT !.group = TRUE] \in File
  BY <1>1 DEF File
<1>4. [h EXCEPT !.group = TRUE].priv = h.priv /\ [h EXCEPT !.group = TRUE].privInv = h.privInv
      /\ [h EXCEPT !.group = TRUE].pub = h.pub
  BY <1>1 DEF File
<1> QED BY <1>1, <1>2, <1>3, <1>4

LEMMA RenameKeeps ==
  ASSUME KeysInv, NEW c \in Touched, NEW n \in NewNames, RenameContact(c, n)
  PROVE  KeysInv' /\ PubStays
<1> DEFINE S == {i \in Named(c) : Live(i)}
<1>1. /\ UNCHANGED <<spares, now>>
      /\ kip' = [i \in DOMAIN kip |-> IF i \in S THEN [kip[i] EXCEPT !.name = n] ELSE kip[i]]
      /\ disk' = [d \in Seconds |-> IF \E i \in S : kip[i].dir = d
                                    THEN [disk[d] EXCEPT !.name = n] ELSE disk[d]]
  BY DEF RenameContact, Change
<1> HIDE DEF S
<1>2. ASSUME NEW i \in DOMAIN kip PROVE EntryKept(i)
  <2> DEFINE e == [kip[i] EXCEPT !.name = n]
  <2>1. kip[i] \in Entry /\ n \in Names
    BY Kinds
  <2>2. /\ e \in Entry /\ e.dir = kip[i].dir /\ e.priv = kip[i].priv
        /\ e.pub = kip[i].pub /\ (kip[i].deleted => e.deleted)
    BY <2>1 DEF Entry
  <2>3. kip'[i] \in {kip[i], e}
    BY <1>1
  <2> HIDE DEF e
  <2> QED BY <2>1, <2>2, <2>3 DEF EntryKept
<1>3. ASSUME NEW d \in Seconds PROVE FileKept(d)
  <2>1. disk[d] \in File /\ n \in Names
    BY Kinds
  <2>2. /\ [disk[d] EXCEPT !.name = n] \in File /\ [disk[d] EXCEPT !.name = n].priv = disk[d].priv
        /\ [disk[d] EXCEPT !.name = n].privInv = disk[d].privInv
        /\ [disk[d] EXCEPT !.name = n].pub = disk[d].pub
    BY <2>1, NameWritten
  <2>3. disk'[d] \in {disk[d], [disk[d] EXCEPT !.name = n]}
    BY <1>1
  <2> QED BY <2>1, <2>2, <2>3 DEF FileKept
<1> QED BY <1>1, <1>2, <1>3, PlainKeeps

LEMMA HideKeeps ==
  ASSUME KeysInv, NEW c \in Touched, NEW v \in BOOLEAN, NEW h \in BOOLEAN, NEW S,
         UNCHANGED <<spares, now>>,
         kip' = [i \in DOMAIN kip |-> IF i \in S THEN [kip[i] EXCEPT !.visible = v] ELSE kip[i]],
         disk' = [d \in Seconds |-> IF \E i \in S : kip[i].dir = d
                                    THEN [disk[d] EXCEPT !.hidden = h] ELSE disk[d]]
  PROVE  KeysInv' /\ PubStays
<1>2. ASSUME NEW i \in DOMAIN kip PROVE EntryKept(i)
  <2> DEFINE e == [kip[i] EXCEPT !.visible = v]
  <2>1. kip[i] \in Entry
    BY Kinds
  <2>2. /\ e \in Entry /\ e.dir = kip[i].dir /\ e.priv = kip[i].priv
        /\ e.pub = kip[i].pub /\ (kip[i].deleted => e.deleted)
    BY <2>1 DEF Entry
  <2>3. kip'[i] \in {kip[i], e}
    OBVIOUS
  <2> HIDE DEF e
  <2> QED BY <2>1, <2>2, <2>3 DEF EntryKept
<1>3. ASSUME NEW d \in Seconds PROVE FileKept(d)
  <2>1. disk[d] \in File
    BY Kinds
  <2>2. /\ [disk[d] EXCEPT !.hidden = h] \in File /\ [disk[d] EXCEPT !.hidden = h].priv = disk[d].priv
        /\ [disk[d] EXCEPT !.hidden = h].privInv = disk[d].privInv
        /\ [disk[d] EXCEPT !.hidden = h].pub = disk[d].pub
    BY <2>1, HiddenWritten
  <2>3. disk'[d] \in {disk[d], [disk[d] EXCEPT !.hidden = h]}
    OBVIOUS
  <2> QED BY <2>1, <2>2, <2>3 DEF FileKept
<1> QED BY <1>2, <1>3, PlainKeeps

LEMMA VisibilityKeeps ==
  ASSUME KeysInv, NEW c \in Touched, MakeInvisible(c) \/ MakeVisible(c)
  PROVE  KeysInv' /\ PubStays
<1>1. CASE MakeInvisible(c)
  <2> DEFINE S == {i \in Named(c) : Live(i) /\ kip[i].visible}
  <2>1. /\ UNCHANGED <<spares, now>>
        /\ kip' = [i \in DOMAIN kip |-> IF i \in S THEN [kip[i] EXCEPT !.visible = FALSE] ELSE kip[i]]
        /\ disk' = [d \in Seconds |-> IF \E i \in S : kip[i].dir = d
                                      THEN [disk[d] EXCEPT !.hidden = TRUE] ELSE disk[d]]
    BY <1>1 DEF MakeInvisible, Change, HideFile
  <2> HIDE DEF S
  <2> QED BY <2>1, HideKeeps
<1>2. CASE MakeVisible(c)
  <2> DEFINE S == {i \in Named(c) : Live(i) /\ ~ kip[i].visible}
  <2>1. /\ UNCHANGED <<spares, now>>
        /\ kip' = [i \in DOMAIN kip |-> IF i \in S THEN [kip[i] EXCEPT !.visible = TRUE] ELSE kip[i]]
        /\ disk' = [d \in Seconds |-> IF \E i \in S : kip[i].dir = d
                                      THEN [disk[d] EXCEPT !.hidden = FALSE] ELSE disk[d]]
    BY <1>2 DEF MakeVisible, Change
  <2> HIDE DEF S
  <2> QED BY <2>1, HideKeeps
<1> QED BY <1>1, <1>2

LEMMA DeleteKeeps ==
  ASSUME KeysInv, NEW c \in Touched, DeleteContact(c) PROVE KeysInv' /\ PubStays
<1> DEFINE S == Deletable(c)
<1>1. /\ UNCHANGED <<spares, now>>
      /\ kip' = [i \in DOMAIN kip |-> IF i \in S THEN [kip[i] EXCEPT !.deleted = TRUE] ELSE kip[i]]
      /\ disk' = [d \in Seconds |-> IF \E i \in S : kip[i].dir = d THEN NoDir ELSE disk[d]]
  BY DEF DeleteContact, Change
<1> HIDE DEF S
<1>2. ASSUME NEW i \in DOMAIN kip PROVE EntryKept(i)
  <2> DEFINE e == [kip[i] EXCEPT !.deleted = TRUE]
  <2>1. kip[i] \in Entry
    BY Kinds
  <2>2. /\ e \in Entry /\ e.dir = kip[i].dir /\ e.priv = kip[i].priv
        /\ e.pub = kip[i].pub /\ (kip[i].deleted => e.deleted)
    BY <2>1 DEF Entry
  <2>3. kip'[i] \in {kip[i], e}
    BY <1>1
  <2> HIDE DEF e
  <2> QED BY <2>1, <2>2, <2>3 DEF EntryKept
<1>3. \A d \in Seconds : FileKept(d)
  BY <1>1, Kinds, NoDirIsFile DEF FileKept
<1> QED BY <1>1, <1>2, <1>3, PlainKeeps

\* Lists of members stay lists of members.
LEMMA RemoveFirstType ==
  ASSUME NEW T, NEW s \in Seq(T), NEW c PROVE RemoveFirst(s, c) \in Seq(T)
<1>1. CASE ~ \E i \in 1 .. Len(s) : s[i] = c
  BY <1>1 DEF RemoveFirst
<1>2. CASE \E i \in 1 .. Len(s) : s[i] = c
  <2> DEFINE I == {i \in 1 .. Len(s) : s[i] = c}
             n == CHOOSE x \in I : \A y \in I : x <= y
  <2>1. I \in SUBSET Nat /\ I # {}
    BY <1>2
  <2>2. n \in I
    <3> HIDE DEF I
    <3>1. \E x \in I : \A y \in I : x <= y
      BY <2>1, Least
    <3> QED BY <3>1
  <2>3. RemoveFirst(s, c) = SubSeq(s, 1, n - 1) \o SubSeq(s, n + 1, Len(s))
    BY <1>2, <2>1 DEF RemoveFirst, RemoveAt, SelectInSeq, Min
  <2>4. n \in 1 .. Len(s) /\ Len(s) \in Nat
    BY <2>2
  <2> HIDE DEF n, I
  <2>5. SubSeq(s, 1, n - 1) \in Seq(T)
    <3>1. 1 \in 1 .. (n - 1) + 1 /\ n - 1 \in 0 .. Len(s)
      BY <2>4
    <3> QED BY <3>1, SubSeqProperties
  <2>6. SubSeq(s, n + 1, Len(s)) \in Seq(T)
    <3>1. n + 1 \in 1 .. Len(s) + 1 /\ Len(s) \in 0 .. Len(s)
      BY <2>4
    <3> QED BY <3>1, SubSeqProperties
  <2> QED BY <2>3, <2>5, <2>6, ConcatProperties
<1> QED BY <1>1, <1>2

LEMMA ReloadMembersKeeps ==
  ASSUME KeysInv, NEW i, NEW members \in Seq(Names), ReloadMembers(i, members)
  PROVE  KeysInv' /\ PubStays
<1>1. /\ UNCHANGED <<spares, now>>
      /\ kip' = [kip EXCEPT ![i].members = members]
      /\ disk' = [disk EXCEPT ![kip[i].dir].members = members, ![kip[i].dir].group = TRUE]
  BY DEF ReloadMembers
<1>2. \A j \in DOMAIN kip : kip'[j] = IF j = i THEN [kip[j] EXCEPT !.members = members] ELSE kip[j]
  BY <1>1
<1>3. \A d \in Seconds : disk'[d] =
        IF d = kip[i].dir THEN [disk[d] EXCEPT !.members = members, !.group = TRUE] ELSE disk[d]
  <2>1. DOMAIN disk = Seconds
    BY DEF KeysInv, ContactsTypes
  <2> QED BY <1>1, <2>1
<1>4. kip' = [j \in DOMAIN kip |-> kip'[j]] /\ disk' = [d \in Seconds |-> disk'[d]]
  <2>1. disk \in [Seconds -> File]
    BY DEF KeysInv, ContactsTypes
  <2> QED BY <1>1, <2>1
<1>5. ASSUME NEW j \in DOMAIN kip PROVE EntryKept(j)
  <2>1. kip[j] \in Entry
    BY Kinds
  <2>2. [kip[j] EXCEPT !.members = members] \in Entry
    BY <2>1 DEF Entry
  <2>3. /\ [kip[j] EXCEPT !.members = members].dir = kip[j].dir
        /\ [kip[j] EXCEPT !.members = members].priv = kip[j].priv
        /\ [kip[j] EXCEPT !.members = members].pub = kip[j].pub
        /\ [kip[j] EXCEPT !.members = members].deleted = kip[j].deleted
    BY <2>1 DEF Entry
  <2>4. kip'[j] \in {kip[j], [kip[j] EXCEPT !.members = members]}
    BY <1>2
  <2> QED BY <2>1, <2>2, <2>3, <2>4 DEF EntryKept
<1>6. ASSUME NEW d \in Seconds PROVE FileKept(d)
  <2> DEFINE g == [disk[d] EXCEPT !.members = members, !.group = TRUE]
  <2>1. disk[d] \in File
    BY Kinds
  <2>2. g \in File /\ g.priv = disk[d].priv /\ g.privInv = disk[d].privInv /\ g.pub = disk[d].pub
    BY <2>1, MembersWritten
  <2>3. disk'[d] \in {disk[d], g}
    BY <1>3
  <2> HIDE DEF g
  <2> QED BY <2>1, <2>2, <2>3 DEF FileKept
<1> QED BY <1>1, <1>4, <1>5, <1>6, PlainKeeps

LEMMA MembersKeep ==
  ASSUME KeysInv, NEW g \in GroupNames, NEW c \in People \cup GroupNames,
         AddToGroup(g, c) \/ RemoveFromGroup(g, c)
  PROVE  KeysInv' /\ PubStays
<1> DEFINE i == IndexOf(g)
           members == disk[kip[i].dir].members
<1>1. Storable(i) /\ (ReloadMembers(i, Append(members, c)) \/ ReloadMembers(i, RemoveFirst(members, c)))
  BY DEF AddToGroup, RemoveFromGroup
<1> HIDE DEF i
<1>2. kip[i].dir \in Seconds
  BY <1>1, Kinds DEF Storable, Entry
<1>3. members \in Seq(Names) /\ c \in Names
  BY <1>2, Kinds DEF File
<1> HIDE DEF members
<1>4. Append(members, c) \in Seq(Names) /\ RemoveFirst(members, c) \in Seq(Names)
  BY <1>3, RemoveFirstType
<1> QED BY <1>1, <1>4, ReloadMembersKeeps

\* Symmetric keys and states are written beside the other keys.
LEMMA SymmetricKeeps ==
  ASSUME KeysInv, UNCHANGED <<spares, now>>,
         kip' = [i \in DOMAIN kip |-> kip'[i]], disk' = [d \in Seconds |-> disk'[d]],
         \A i \in DOMAIN kip : \E x \in Names \cup {None} :
           kip'[i] \in {kip[i], [kip[i] EXCEPT !.sym = x], [kip[i] EXCEPT !.state = x]},
         \A d \in Seconds : \E x, y \in Names \cup {None} :
           disk'[d] \in {disk[d], [disk[d] EXCEPT !.sym = x], [disk[d] EXCEPT !.state = x],
                         [disk[d] EXCEPT !.sym = x, !.symInv = y]}
  PROVE  KeysInv' /\ PubStays
<1>1. ASSUME NEW i \in DOMAIN kip PROVE EntryKept(i)
  <2>1. PICK x \in Names \cup {None} :
          kip'[i] \in {kip[i], [kip[i] EXCEPT !.sym = x], [kip[i] EXCEPT !.state = x]}
    OBVIOUS
  <2>2. kip[i] \in Entry
    BY Kinds
  <2>3. CASE kip'[i] = [kip[i] EXCEPT !.sym = x]
    BY <2>2, <2>3 DEF EntryKept, Entry
  <2>4. CASE kip'[i] = [kip[i] EXCEPT !.state = x]
    BY <2>2, <2>4 DEF EntryKept, Entry
  <2>5. CASE kip'[i] = kip[i]
    BY <2>2, <2>5 DEF EntryKept
  <2> QED BY <2>1, <2>3, <2>4, <2>5
<1>2. ASSUME NEW d \in Seconds PROVE FileKept(d)
  <2>1. PICK x \in Names \cup {None}, y \in Names \cup {None} :
           disk'[d] \in {disk[d], [disk[d] EXCEPT !.sym = x], [disk[d] EXCEPT !.state = x],
                         [disk[d] EXCEPT !.sym = x, !.symInv = y]}
    OBVIOUS
  <2> DEFINE f == disk[d]
             g == [f EXCEPT !.sym = x]
  <2>2. f \in File
    BY Kinds
  <2> HIDE DEF f
  <2>3. g \in File /\ g.priv = f.priv /\ g.privInv = f.privInv /\ g.pub = f.pub
    BY <2>2 DEF File
  <2>4. [f EXCEPT !.state = x] \in File /\ [f EXCEPT !.state = x].priv = f.priv
        /\ [f EXCEPT !.state = x].privInv = f.privInv /\ [f EXCEPT !.state = x].pub = f.pub
    BY <2>2 DEF File
  <2>5. [f EXCEPT !.sym = x, !.symInv = y] = [g EXCEPT !.symInv = y]
    BY <2>2 DEF File
  <2>6. [f EXCEPT !.sym = x] = g
    OBVIOUS
  <2> HIDE DEF g
  <2>7. [g EXCEPT !.symInv = y] \in File /\ [g EXCEPT !.symInv = y].priv = g.priv
        /\ [g EXCEPT !.symInv = y].privInv = g.privInv /\ [g EXCEPT !.symInv = y].pub = g.pub
    BY <2>3 DEF File
  <2>8. disk'[d] \in File /\ disk'[d].priv = f.priv /\ disk'[d].privInv = f.privInv /\ disk'[d].pub = f.pub
    <3>1. \/ disk'[d] = f \/ disk'[d] = g \/ disk'[d] = [f EXCEPT !.state = x]
          \/ disk'[d] = [g EXCEPT !.symInv = y]
      BY <2>1, <2>5, <2>6 DEF f
    <3> QED BY <3>1, <2>2, <2>3, <2>4, <2>7
  <2> QED BY <2>8 DEF FileKept, f
<1> QED BY <1>1, <1>2, PlainKeeps

LEMMA SymmetricKeysKeep ==
  ASSUME KeysInv, NEW c \in People,
         \/ SetSymmetricKey(c) \/ SaveKeyState(c)
         \/ InvalidateSymmetricKey(c) \/ RevalidateSymmetricKey(c)
  PROVE  KeysInv' /\ PubStays
<1>1. c \in Names
  BY Kinds
<1>2. CASE SetSymmetricKey(c)
  <2> DEFINE n == Find(c, WithSymmetric(c))
  <2>1. /\ UNCHANGED <<spares, now>>
        /\ kip' = [i \in DOMAIN kip |-> IF i \in {n} THEN [kip[i] EXCEPT !.sym = c] ELSE kip[i]]
        /\ disk' = [d \in Seconds |-> IF \E i \in {n} : kip[i].dir = d
                      THEN IF disk[d].there THEN [disk[d] EXCEPT !.sym = c] ELSE disk[d]
                      ELSE disk[d]]
    BY <1>2 DEF SetSymmetricKey, Change
  <2> HIDE DEF n
  <2>2. \A i \in DOMAIN kip : kip'[i] \in {kip[i], [kip[i] EXCEPT !.sym = c]}
    BY <2>1
  <2>3. \A d \in Seconds : disk'[d] \in {disk[d], [disk[d] EXCEPT !.sym = c]}
    BY <2>1
  <2> QED BY <1>1, <2>1, <2>2, <2>3, SymmetricKeeps
<1>3. CASE SaveKeyState(c)
  <2> DEFINE n == Find(c, WithState(c))
  <2>1. /\ UNCHANGED <<spares, now>>
        /\ kip' = [i \in DOMAIN kip |-> IF i \in {n} THEN [kip[i] EXCEPT !.state = c] ELSE kip[i]]
        /\ disk' = [d \in Seconds |-> IF \E i \in {n} : kip[i].dir = d
                      THEN IF disk[d].there THEN [disk[d] EXCEPT !.state = c] ELSE disk[d]
                      ELSE disk[d]]
    BY <1>3 DEF SaveKeyState, Change
  <2> HIDE DEF n
  <2>2. \A i \in DOMAIN kip : kip'[i] \in {kip[i], [kip[i] EXCEPT !.state = c]}
    BY <2>1
  <2>3. \A d \in Seconds : disk'[d] \in {disk[d], [disk[d] EXCEPT !.state = c]}
    BY <2>1
  <2> QED BY <1>1, <2>1, <2>2, <2>3, SymmetricKeeps
<1>4. CASE InvalidateSymmetricKey(c)
  <2> DEFINE S == {FirstOf(WithSymmetric(c))}
  <2>1. /\ UNCHANGED <<spares, now>>
        /\ kip' = [i \in DOMAIN kip |-> IF i \in S THEN [kip[i] EXCEPT !.sym = None] ELSE kip[i]]
        /\ disk' = [d \in Seconds |-> IF \E i \in S : kip[i].dir = d
                      THEN [disk[d] EXCEPT !.sym = None, !.symInv = disk[d].sym] ELSE disk[d]]
    BY <1>4 DEF InvalidateSymmetricKey, Change
  <2> HIDE DEF S
  <2>2. \A i \in DOMAIN kip : kip'[i] \in {kip[i], [kip[i] EXCEPT !.sym = None]}
    BY <2>1
  <2>3. \A d \in Seconds : /\ disk[d].sym \in Names \cup {None}
                           /\ disk'[d] \in {disk[d], [disk[d] EXCEPT !.sym = None, !.symInv = disk[d].sym]}
    BY <2>1, Kinds DEF File
  <2>4. None \in Names \cup {None}
    OBVIOUS
  <2>5. \A d \in Seconds : \E x, y \in Names \cup {None} :
           disk'[d] \in {disk[d], [disk[d] EXCEPT !.sym = x, !.symInv = y]}
    BY <2>3, <2>4, Zenon
  <2>6. \A i \in DOMAIN kip : \E x \in Names \cup {None} :
           kip'[i] \in {kip[i], [kip[i] EXCEPT !.sym = x], [kip[i] EXCEPT !.state = x]}
    BY <2>2, <2>4
  <2>7. \A d \in Seconds : \E x, y \in Names \cup {None} :
           disk'[d] \in {disk[d], [disk[d] EXCEPT !.sym = x], [disk[d] EXCEPT !.state = x],
                         [disk[d] EXCEPT !.sym = x, !.symInv = y]}
    BY <2>5
  <2>8. /\ kip' = [i \in DOMAIN kip |-> kip'[i]] /\ disk' = [d \in Seconds |-> disk'[d]]
        /\ UNCHANGED <<spares, now>>
    BY <2>1
  <2> QED BY <2>6, <2>7, <2>8, SymmetricKeeps
<1>5. CASE RevalidateSymmetricKey(c)
  <2> DEFINE n == Negated(c)
  <2>1. /\ UNCHANGED <<spares, now>>
        /\ kip' = [i \in DOMAIN kip |-> IF i \in {n}
                      THEN [kip[i] EXCEPT !.sym = disk[kip[i].dir].symInv] ELSE kip[i]]
        /\ disk' = [d \in Seconds |-> IF \E i \in {n} : kip[i].dir = d
                      THEN [disk[d] EXCEPT !.sym = disk[d].symInv, !.symInv = None] ELSE disk[d]]
        /\ n \in DOMAIN kip /\ kip[n].dir # None
    BY <1>5 DEF RevalidateSymmetricKey, Change, Storable
  <2> HIDE DEF n
  <2>2. disk[kip[n].dir].symInv \in Names \cup {None}
    BY <2>1, Kinds DEF Entry, File
  <2>3. \A i \in DOMAIN kip : kip'[i] \in {kip[i], [kip[i] EXCEPT !.sym = disk[kip[n].dir].symInv]}
    BY <2>1
  <2>4. \A d \in Seconds : /\ disk[d].symInv \in Names \cup {None}
                           /\ disk'[d] \in {disk[d], [disk[d] EXCEPT !.sym = disk[d].symInv, !.symInv = None]}
    BY <2>1, Kinds DEF File
  <2>5. None \in Names \cup {None}
    OBVIOUS
  <2>6. \A d \in Seconds : \E x, y \in Names \cup {None} :
           disk'[d] \in {disk[d], [disk[d] EXCEPT !.sym = x, !.symInv = y]}
    BY <2>4, <2>5, Zenon
  <2>7. \A i \in DOMAIN kip : \E x \in Names \cup {None} :
           kip'[i] \in {kip[i], [kip[i] EXCEPT !.sym = x], [kip[i] EXCEPT !.state = x]}
    BY <2>2, <2>3
  <2>8. \A d \in Seconds : \E x, y \in Names \cup {None} :
           disk'[d] \in {disk[d], [disk[d] EXCEPT !.sym = x], [disk[d] EXCEPT !.state = x],
                         [disk[d] EXCEPT !.sym = x, !.symInv = y]}
    BY <2>6
  <2>9. /\ kip' = [i \in DOMAIN kip |-> kip'[i]] /\ disk' = [d \in Seconds |-> disk'[d]]
        /\ UNCHANGED <<spares, now>>
    BY <2>1
  <2> QED BY <2>7, <2>8, <2>9, SymmetricKeeps
<1> QED BY <1>2, <1>3, <1>4, <1>5

\* What save_contact writes: the keys that the entry has.
LEMMA WrittenKeys ==
  ASSUME NEW f \in File, NEW e \in Entry, NEW n \in Nat
  PROVE  /\ Written(f, e, n) \in File
         /\ Written(f, e, n).priv \in {f.priv, e.priv} /\ Written(f, e, n).privInv = f.privInv
         /\ Written(f, e, n).pub \in {f.pub, e.pub}
         /\ n >= 3 /\ e.pub # None => Written(f, e, n).pub = e.pub
<1> DEFINE g == Written(f, e, n)
<1>1. g \in File
  BY DEF File, Entry, Written
<1>2. /\ g.priv \in {f.priv, e.priv} /\ g.privInv = f.privInv
      /\ g.pub \in {f.pub, e.pub} /\ (n >= 3 /\ e.pub # None => g.pub = e.pub)
  BY DEF File, Entry, Written
<1> QED BY <1>1, <1>2

\* A live entry is changed and saved.
LEMMA UpdateKeeps ==
  ASSUME KeysInv, NEW k, ValidKeyset(k), NEW e \in Entry, UpdateAndSave(k, e),
         e.dir = kip[k].dir, e.dir # None, e.deleted = kip[k].deleted, e.priv = kip[k].priv,
         e.pub = kip[k].pub \/ kip[k].pub = None
  PROVE  KeysInv' /\ PubStays
<1>1. /\ UNCHANGED <<spares, now>> /\ kip' = [kip EXCEPT ![k] = e]
      /\ disk' = [disk EXCEPT ![e.dir] = Written(disk[e.dir], e, NumWrites)]
      /\ k \in DOMAIN kip /\ ~ kip[k].deleted
  BY DEF UpdateAndSave, SaveContact, ValidKeyset
<1> DEFINE g == Written(disk[e.dir], e, NumWrites)
<1>2. e.dir \in Seconds
  BY DEF Entry
<1>3. /\ g \in File /\ g.priv \in {disk[e.dir].priv, e.priv} /\ g.privInv = disk[e.dir].privInv
      /\ g.pub \in {disk[e.dir].pub, e.pub} /\ (e.pub # None => g.pub = e.pub)
  <2>1. NumWrites \in Nat /\ NumWrites >= 3
    BY DEF NumWrites
  <2> QED BY <1>2, <2>1, Kinds, WrittenKeys
<1> HIDE DEF g
<1>4. /\ \A d \in Seconds : disk'[d] = IF d = e.dir THEN g ELSE disk[d]
      /\ \A i \in DOMAIN kip : kip'[i] = IF i = k THEN e ELSE kip[i]
      /\ DOMAIN kip' = DOMAIN kip
  BY <1>1 DEF g, KeysInv, ContactsTypes
<1>5. ContactsTypes'
  BY <1>1, <1>2, <1>3 DEF KeysInv, ContactsTypes, g
<1>6. ASSUME NEW i \in DOMAIN kip
      PROVE  /\ kip'[i].dir = kip[i].dir
             /\ kip[i].deleted => kip'[i].deleted
             /\ kip'[i].priv = kip[i].priv
             /\ kip'[i].pub = kip[i].pub \/ (kip[i].dir # None /\ kip[i].pub = None)
             /\ ~ kip'[i].deleted /\ kip[i].pub = None /\ kip'[i].pub # None =>
                  disk'[kip[i].dir].pub = kip'[i].pub
  BY <1>1, <1>2, <1>3, <1>4
<1>7. ASSUME NEW d \in Seconds
      PROVE  /\ disk'[d].priv = None \/ HeldIn(d, disk'[d].priv)
             /\ disk'[d].privInv = None \/ HeldIn(d, disk'[d].privInv)
             /\ \/ disk'[d].pub \in {disk[d].pub, None}
                \/ \E i \in DOMAIN kip : ~ kip[i].deleted /\ kip[i].dir = d /\ disk'[d].pub = kip'[i].pub
  <2>1. CASE d = e.dir
    <3>1. HeldIn(d, e.priv)
      BY <1>1, <2>1 DEF HeldIn
    <3>2. disk'[d] = g
      BY <1>4, <2>1
    <3>3. disk'[d].priv = None \/ HeldIn(d, disk'[d].priv)
      BY <1>3, <2>1, <3>1, <3>2 DEF HeldIn
    <3>4. disk'[d].privInv = None \/ HeldIn(d, disk'[d].privInv)
      BY <1>3, <2>1, <3>2 DEF HeldIn
    <3>5. \/ disk'[d].pub = disk[d].pub
          \/ ~ kip[k].deleted /\ kip[k].dir = d /\ disk'[d].pub = kip'[k].pub
      BY <1>1, <1>3, <1>4, <2>1, <3>2
    <3> QED BY <1>1, <3>3, <3>4, <3>5
  <2>2. CASE d # e.dir
    BY <1>4, <2>2 DEF HeldIn
  <2> QED BY <2>1, <2>2
<1>8. SamePlaces
  BY <1>1, <1>4, <1>5, <1>6, <1>7 DEF SamePlaces
<1> QED BY <1>8, SamePlacesKeep

LEMMA SetKeeps ==
  ASSUME KeysInv, NEW k,
         (\E p \in PubKeys : SetContactPubkey(k, p)) \/ (\E side \in {"local", "remote"} : SetAddr(k, side))
  PROVE  KeysInv' /\ PubStays
<1>1. ASSUME NEW p \in PubKeys, SetContactPubkey(k, p) PROVE KeysInv' /\ PubStays
  <2> DEFINE e == [kip[k] EXCEPT !.pub = p]
  <2>1. ValidKeyset(k) /\ kip[k].pub = None /\ kip[k].dir # None /\ UpdateAndSave(k, e)
    BY <1>1 DEF SetContactPubkey, MaySetPubkey
  <2>2. kip[k] \in Entry
    BY <2>1, Kinds DEF ValidKeyset
  <2>3. e \in Entry /\ e.dir = kip[k].dir /\ e.deleted = kip[k].deleted /\ e.priv = kip[k].priv
    BY <2>2 DEF Entry
  <2> HIDE DEF e
  <2> QED BY <2>1, <2>3, UpdateKeeps
<1>2. ASSUME NEW side \in {"local", "remote"}, SetAddr(k, side) PROVE KeysInv' /\ PubStays
  <2> DEFINE e == [kip[k] EXCEPT !.addr = @ \cup {side}]
  <2>1. ValidKeyset(k) /\ kip[k].dir # None /\ UpdateAndSave(k, e)
    BY <1>2 DEF SetAddr
  <2>2. kip[k] \in Entry
    BY <2>1, Kinds DEF ValidKeyset
  <2>3. e \in Entry /\ e.dir = kip[k].dir /\ e.deleted = kip[k].deleted /\ e.priv = kip[k].priv
        /\ e.pub = kip[k].pub
    BY <2>2 DEF Entry
  <2> HIDE DEF e
  <2> QED BY <2>1, <2>3, UpdateKeeps
<1> QED BY <1>1, <1>2

LEMMA MarkKeeps ==
  ASSUME KeysInv, NEW k, MarkInvalid(k) \/ MarkValid(k) PROVE KeysInv' /\ PubStays
<1> DEFINE d0 == kip[k].dir
           key == IF MarkInvalid(k) THEN None ELSE disk[d0].privInv
           inv == IF MarkInvalid(k) THEN disk[d0].priv ELSE None
           g == [disk[d0] EXCEPT !.priv = key, !.privInv = inv]
           e == [kip[k] EXCEPT !.priv = key]
<1>1. /\ k \in DOMAIN kip /\ ~ kip[k].deleted /\ kip[k].dir # None
      /\ UNCHANGED <<spares, now>>
  BY DEF MarkInvalid, MarkValid, ValidKeyset, Change
<1>2. /\ kip[k] \in Entry /\ d0 \in Seconds /\ disk[d0] \in File
  <2>1. kip[k] \in Entry
    BY <1>1, Kinds
  <2>2. d0 \in Seconds
    BY <1>1, <2>1 DEF Entry
  <2> QED BY <2>1, <2>2, Kinds
<1>3. /\ kip' = [i \in DOMAIN kip |-> IF i \in {k} THEN [kip[i] EXCEPT !.priv = key] ELSE kip[i]]
      /\ disk' = [d \in Seconds |-> IF \E i \in {k} : kip[i].dir = d
                    THEN [disk[d] EXCEPT !.priv = key, !.privInv = inv] ELSE disk[d]]
  <2>1. CASE MarkInvalid(k)
    <3>1. key = None /\ inv = disk[d0].priv
      BY <2>1
    <3>2. /\ kip' = [i \in DOMAIN kip |-> IF i \in {k} THEN [kip[i] EXCEPT !.priv = None] ELSE kip[i]]
          /\ disk' = [d \in Seconds |-> IF \E i \in {k} : kip[i].dir = d
                      THEN [disk[d] EXCEPT !.priv = None, !.privInv = disk[d].priv] ELSE disk[d]]
      BY <2>1 DEF MarkInvalid, Change
    <3> HIDE DEF key, inv
    <3> QED BY <3>1, <3>2
  <2>2. CASE ~ MarkInvalid(k)
    <3>1. key = disk[d0].privInv /\ inv = None /\ MarkValid(k)
      BY <2>2
    <3>2. /\ kip' = [i \in DOMAIN kip |-> IF i \in {k} THEN [kip[i] EXCEPT !.priv = disk[d0].privInv]
                                          ELSE kip[i]]
          /\ disk' = [d \in Seconds |-> IF \E i \in {k} : kip[i].dir = d
                      THEN [disk[d] EXCEPT !.priv = disk[d0].privInv, !.privInv = None] ELSE disk[d]]
      BY <3>1 DEF MarkValid, Change
    <3> HIDE DEF key, inv
    <3> QED BY <3>1, <3>2
  <2> QED BY <2>1, <2>2
<1>4. key \in Keys \cup {None} /\ inv \in Keys \cup {None}
      /\ (key # None => HeldIn(d0, key)) /\ (inv # None => HeldIn(d0, inv))
  BY <1>2 DEF File, HeldIn
<1> HIDE DEF key, inv
<1>5. /\ \A i \in DOMAIN kip : kip'[i] = IF i = k THEN e ELSE kip[i]
      /\ \A d \in Seconds : disk'[d] = IF d = d0 THEN g ELSE disk[d]
  BY <1>3
<1>6. e \in Entry /\ e.dir = kip[k].dir /\ e.deleted = kip[k].deleted /\ e.priv = key /\ e.pub = kip[k].pub
  BY <1>2, <1>4 DEF Entry
<1>7. g \in File /\ g.priv = key /\ g.privInv = inv /\ g.pub = disk[d0].pub
  <2> DEFINE f == disk[d0]
             h == [f EXCEPT !.priv = key]
  <2> HIDE DEF f
  <2>1. f \in File
    BY <1>2 DEF f
  <2>2. h \in File /\ h.priv = key /\ h.pub = f.pub
    BY <1>4, <2>1 DEF File
  <2>3. [f EXCEPT !.priv = key, !.privInv = inv] = [h EXCEPT !.privInv = inv]
    BY <2>1 DEF File
  <2> HIDE DEF h
  <2>4. [h EXCEPT !.privInv = inv] \in File /\ [h EXCEPT !.privInv = inv].priv = h.priv
        /\ [h EXCEPT !.privInv = inv].privInv = inv /\ [h EXCEPT !.privInv = inv].pub = h.pub
    BY <1>4, <2>2 DEF File
  <2> QED BY <2>2, <2>3, <2>4 DEF f
<1> HIDE DEF e, g
<1>8. ContactsTypes'
  <2>1. kip' \in Seq(Entry)
    <3>0. Len(kip) \in Nat /\ DOMAIN kip = 1 .. Len(kip)
      BY DEF KeysInv, ContactsTypes
    <3>1. kip' = [i \in 1 .. Len(kip) |-> kip'[i]]
      <4>1. kip' = [i \in DOMAIN kip |-> kip'[i]]
        BY <1>3
      <4> QED BY <3>0, <4>1
    <3>2. \A i \in 1 .. Len(kip) : kip'[i] \in Entry
      BY <1>5, <1>6, <3>0, Kinds
    <3> QED BY <3>0, <3>1, <3>2, IsASeq
  <2>2. disk' \in [Seconds -> File]
    <3>1. \A d \in Seconds : disk'[d] \in File
      BY <1>5, <1>7, Kinds
    <3> QED BY <1>3, <3>1
  <2> QED BY <1>1, <2>1, <2>2 DEF KeysInv, ContactsTypes
<1>9. DOMAIN kip' = DOMAIN kip
  BY <1>3
<1>10. ASSUME NEW i \in DOMAIN kip
      PROVE  /\ kip'[i].dir = kip[i].dir /\ (kip[i].deleted => kip'[i].deleted)
             /\ \/ kip'[i].priv \in {kip[i].priv, None}
                \/ kip[i].dir # None /\ HeldIn(kip[i].dir, kip'[i].priv)
             /\ kip'[i].pub = kip[i].pub
  <2>1. CASE i = k
    <3>1. kip'[i] = e
      BY <1>5, <2>1
    <3>2. key = None \/ HeldIn(kip[i].dir, key)
      BY <1>4, <2>1
    <3> QED BY <1>1, <1>6, <2>1, <3>1, <3>2
  <2>2. CASE i # k
    BY <1>5, <2>2
  <2> QED BY <2>1, <2>2
<1>11. ASSUME NEW d \in Seconds
      PROVE  /\ disk'[d].priv = None \/ HeldIn(d, disk'[d].priv)
             /\ disk'[d].privInv = None \/ HeldIn(d, disk'[d].privInv)
             /\ disk'[d].pub = disk[d].pub
  <2>1. CASE d = d0
    BY <1>4, <1>5, <1>7, <2>1
  <2>2. CASE d # d0
    BY <1>5, <2>2 DEF HeldIn
  <2> QED BY <2>1, <2>2
<1>12. SamePlaces
  BY <1>1, <1>8, <1>9, <1>10, <1>11 DEF SamePlaces
<1> QED BY <1>12, SamePlacesKeep

-----------------------------------------------------------------------------
\* A key that generate_key or a spare file gives is new.
LEMMA NewKeyIsNew ==
  ASSUME KeysInv, NEW key \in Keys, NewKey(key) PROVE NewKeyFor(key)
<1>1. CASE spares # {}
  BY <1>1 DEF NewKey, NewKeyFor, KeysInv, KeysApart
<1>2. CASE spares = {}
  <2>1. key \in Keys /\ key \notin KeysInUse /\ spares' = spares
    BY <1>2 DEF NewKey, RsaGenerateKey
  <2>2. \A d \in Seconds : key # disk[d].priv /\ key # disk[d].privInv
    BY <2>1 DEF KeysInUse
  <2>3. \A i \in DOMAIN kip : key # kip[i].priv
    BY <2>1 DEF KeysInUse
  <2>4. \A d \in Seconds : ~ HeldIn(d, key)
    BY <2>2, <2>3 DEF HeldIn
  <2> QED BY <1>2, <2>1, <2>4 DEF NewKeyFor
<1> QED BY <1>1, <1>2

LEMMA NoKeyIsNew == ASSUME KeysInv, UNCHANGED spares PROVE NewKeyFor(None)
BY ContactsAssumption DEF NewKeyFor, KeysInv, ContactsTypes

LEMMA SaveNew ==
  ASSUME KeysInv, NEW e \in Entry, NEW n \in Nat, e.dir = now,
         disk' = [disk EXCEPT ![e.dir] = Written(disk[e.dir], e, n)]
  PROVE  /\ disk' \in [Seconds -> File]
         /\ \A d \in Seconds : d # now => disk'[d] = disk[d]
         /\ disk'[now].priv \in {disk[now].priv, e.priv} /\ disk'[now].privInv = disk[now].privInv
         /\ disk'[now].pub \in {disk[now].pub, e.pub}
         /\ n >= 3 /\ e.pub # None => disk'[now].pub = e.pub
<1> DEFINE g == Written(disk[e.dir], e, n)
<1>1. /\ g \in File /\ g.priv \in {disk[now].priv, e.priv} /\ g.privInv = disk[now].privInv
      /\ g.pub \in {disk[now].pub, e.pub} /\ (n >= 3 /\ e.pub # None => g.pub = e.pub)
  BY Kinds, WrittenKeys
<1> HIDE DEF g
<1>2. disk \in [Seconds -> File] /\ now \in Seconds
  BY DEF KeysInv, ContactsTypes
<1>3. disk' = [disk EXCEPT ![now] = g]
  BY DEF g
<1> QED BY <1>1, <1>2, <1>3

\* e is a live entry that is created now with the keys key and p.
NewEntryOf(e, key, p) ==
  e \in Entry /\ e.dir = now /\ e.priv = key /\ e.pub = p /\ e.deleted = FALSE

LEMMA NewContactType ==
  ASSUME KeysInv, NEW c \in People, NEW key \in Keys, NEW p \in PubKeys \cup {None}
  PROVE  NewEntryOf(NewContact(c, key, p), key, p)
<1>1. /\ <<>> \in Seq(Names) /\ c \in Names /\ now \in Seconds
      /\ {} \subseteq {"local", "remote"} /\ {"local"} \subseteq {"local", "remote"}
  BY Kinds
<1> QED BY <1>1 DEF NewContact, Individual, Entry, NewEntryOf

LEMMA NewGroupType ==
  ASSUME KeysInv, NEW g \in GroupNames
  PROVE  LET e == NewGroup(g) IN
         e \in Entry /\ e.dir = now /\ e.priv = None /\ e.pub = None /\ e.deleted = FALSE
<1>1. <<>> \in Seq(Names) /\ g \in Names /\ now \in Seconds /\ {} \subseteq {"local", "remote"}
  BY Kinds
<1> QED BY <1>1 DEF NewGroup, Individual, Entry

\* A new entry at the end of kip, or in the place of a deleted one.
LEMMA AddEntryKeeps ==
  ASSUME KeysInv, ~ Hurried, NEW e \in Entry, NEW key \in Keys \cup {None}, NewKeyFor(key),
         RoomFor(e), e.dir = now, e.priv = key, e.deleted = FALSE, now' = now,
         SaveContact(e),
         kip' = Append(kip, e) \/ (\E i : kip' = [kip EXCEPT ![i] = e])
  PROVE  KeysInv' /\ PubStays
<1>1. disk' = [disk EXCEPT ![e.dir] = Written(disk[e.dir], e, NumWrites)]
  BY DEF SaveContact
<1>2. NumWrites \in Nat /\ NumWrites >= 3
  BY DEF NumWrites
<1>3. /\ disk' \in [Seconds -> File]
      /\ \A d \in Seconds : d # now => disk'[d] = disk[d]
      /\ disk'[now].priv \in {disk[now].priv, e.priv} /\ disk'[now].privInv = disk[now].privInv
      /\ NumWrites >= 3 /\ e.pub # None => disk'[now].pub = e.pub
  BY <1>1, <1>2, SaveNew
<1>4. kip \in Seq(Entry) /\ Len(kip) \in Nat /\ DOMAIN kip = 1 .. Len(kip)
  BY DEF KeysInv, ContactsTypes
<1>5. /\ kip' \in Seq(Entry)
      /\ \E n \in Nat : \A j \in DOMAIN kip' :
           \/ j = n /\ kip'[j] = e
           \/ j # n /\ j \in DOMAIN kip /\ kip'[j] = kip[j]
  <2>1. CASE kip' = Append(kip, e)
    <3> DEFINE m == Len(kip) + 1
    <3>1. kip' \in Seq(Entry) /\ DOMAIN kip' = 1 .. m
      BY <1>4, <2>1
    <3>2. \A j \in 1 .. m : kip'[j] = IF j = m THEN e ELSE kip[j]
      BY <1>4, <2>1
    <3>3. m \in Nat /\ \A j \in 1 .. m : j # m => j \in DOMAIN kip
      BY <1>4
    <3> HIDE DEF m
    <3>4. \A j \in DOMAIN kip' : (j = m /\ kip'[j] = e) \/ (j # m /\ j \in DOMAIN kip /\ kip'[j] = kip[j])
      BY <3>1, <3>2, <3>3
    <3> QED BY <3>1, <3>3, <3>4
  <2>2. CASE \E i : kip' = [kip EXCEPT ![i] = e]
    <3>0. PICK i : kip' = [kip EXCEPT ![i] = e]
      BY <2>2
    <3> DEFINE m == Len(kip)
    <3>1. m \in Nat /\ DOMAIN kip = 1 .. m /\ \A j \in 1 .. m : kip[j] \in Entry
      BY <1>4
    <3>2. DOMAIN kip' = 1 .. m /\ (\A j \in 1 .. m : kip'[j] = IF j = i THEN e ELSE kip[j])
          /\ kip' = [j \in 1 .. m |-> kip'[j]]
      BY <3>0, <3>1
    <3>3. \A j \in 1 .. m : kip'[j] \in Entry
      BY <3>1, <3>2
    <3> HIDE DEF m
    <3>4. kip' \in Seq(Entry)
      BY <3>1, <3>2, <3>3, IsASeq
    <3>5. \E x \in Nat : \A j \in 1 .. m : (i = j) <=> (x = j)
      <4>1. CASE i \in 1 .. m
        <5>1. i \in Nat
          BY <3>1, <4>1
        <5> QED BY <5>1, Zenon
      <4>2. CASE i \notin 1 .. m
        <5>1. 0 \in Nat /\ \A j \in 1 .. m : 0 # j
          BY <3>1
        <5> QED BY <4>2, <5>1
      <4> QED BY <4>1, <4>2
    <3>6. PICK x \in Nat : \A j \in 1 .. m : (i = j) <=> (x = j)
      BY <3>5
    <3>7. \A j \in DOMAIN kip' : (j = x /\ kip'[j] = e) \/ (j # x /\ j \in DOMAIN kip /\ kip'[j] = kip[j])
      BY <3>1, <3>2, <3>6
    <3> QED BY <3>4, <3>7
  <2> QED BY <2>1, <2>2
<1>6. \A i \in DOMAIN kip : kip[i].dir # now
  BY DEF RoomFor
<1>7. ContactsTypes'
  BY <1>3, <1>5 DEF NewKeyFor, KeysInv, ContactsTypes
<1>8. NewPlace(e, key)
  BY <1>2, <1>3, <1>5, <1>6, <1>7 DEF NewPlace
<1> QED BY <1>8, NewPlaceKeeps

\* The program stops while the files of a new entry are written.
LEMMA AddHalfKeeps ==
  ASSUME KeysInv, ~ Hurried, NEW e \in Entry, NEW key \in Keys \cup {None}, NewKeyFor(key),
         RoomFor(e), e.dir = now, e.priv = key, now' = now, AddHalf(e)
  PROVE  KeysInv' /\ PubStays
<1>1. PICK n \in Nat : disk' = [disk EXCEPT ![e.dir] = Written(disk[e.dir], e, n)]
  <2>1. PICK n \in (IF Nameless THEN 0 ELSE 1) .. NumWrites - 1 :
          disk' = [disk EXCEPT ![e.dir] = Written(disk[e.dir], e, n)]
    BY DEF AddHalf
  <2>2. n \in Nat
    BY DEF NumWrites
  <2> QED BY <2>1, <2>2
<1>2. /\ disk' \in [Seconds -> File]
      /\ \A d \in Seconds : d # now => disk'[d] = disk[d]
      /\ disk'[now].priv \in {disk[now].priv, e.priv} /\ disk'[now].privInv = disk[now].privInv
      /\ disk'[now].pub \in {disk[now].pub, e.pub}
  BY <1>1, SaveNew
<1>3. \A i \in DOMAIN kip : kip[i].dir # now
  BY DEF RoomFor
<1>4. now' \in Seconds /\ InitFromFile
  BY DEF AddHalf, KeysInv, ContactsTypes
<1>5. Reload(key)
  BY <1>2, <1>3, <1>4 DEF Reload, HeldIn
<1> QED BY <1>5, ReloadKeeps

\* A deletion that stops between two files leaves the others as they are.
LEMMA SomeGone ==
  ASSUME NEW f \in File, NEW gone \in SUBSET {"name", "priv", "pub", "addr", "hidden"}
  PROVE  LET g == [x \in DOMAIN f |-> IF x \in gone THEN NoDir[x] ELSE f[x]] IN
         /\ g \in File /\ g.priv \in {f.priv, None} /\ g.privInv \in {f.privInv, None}
         /\ g.pub \in {f.pub, None}
<1> DEFINE g == [x \in DOMAIN f |-> IF x \in gone THEN NoDir[x] ELSE f[x]]
<1>1. DOMAIN f = {"there", "name", "priv", "privInv", "pub", "addr", "group", "members", "sym",
                  "symInv", "state", "hidden"}
  BY DEF File
<1>2. /\ g.there \in {f.there, NoDir.there} /\ g.name \in {f.name, NoDir.name}
      /\ g.priv \in {f.priv, NoDir.priv} /\ g.privInv \in {f.privInv, NoDir.privInv}
      /\ g.pub \in {f.pub, NoDir.pub} /\ g.addr \in {f.addr, NoDir.addr}
      /\ g.group \in {f.group, NoDir.group} /\ g.members \in {f.members, NoDir.members}
      /\ g.sym \in {f.sym, NoDir.sym} /\ g.symInv \in {f.symInv, NoDir.symInv}
      /\ g.state \in {f.state, NoDir.state} /\ g.hidden \in {f.hidden, NoDir.hidden}
  BY <1>1
<1>3. NoDir \in File
  BY NoDirIsFile
<1>4. /\ g.there \in BOOLEAN /\ g.name \in Names \cup {None} /\ g.priv \in Keys \cup {None}
      /\ g.privInv \in Keys \cup {None} /\ g.pub \in PubKeys \cup {None}
      /\ g.addr \in SUBSET {"local", "remote"} /\ g.group \in BOOLEAN
      /\ g.members \in Seq(Names) /\ g.sym \in Names \cup {None}
      /\ g.symInv \in Names \cup {None} /\ g.state \in Names \cup {None} /\ g.hidden \in BOOLEAN
  <2> HIDE DEF g
  <2> QED BY <1>2, <1>3 DEF File
<1>5. g = [there |-> g.there, name |-> g.name, priv |-> g.priv, privInv |-> g.privInv,
           pub |-> g.pub, addr |-> g.addr, group |-> g.group, members |-> g.members,
           sym |-> g.sym, symInv |-> g.symInv, state |-> g.state, hidden |-> g.hidden]
  BY <1>1
<1> HIDE DEF g
<1>6. g \in File
  BY <1>4, <1>5 DEF File
<1> QED BY <1>2, <1>6, NoDirIsFile DEF g

LEMMA DeleteHalfKeeps ==
  ASSUME KeysInv, NEW c \in Touched, DeleteContactHalf(c) PROVE KeysInv' /\ PubStays
<1> DEFINE x == kip[IndexOf(c)].dir
           g(gone) == [y \in DOMAIN disk[x] |-> IF y \in gone THEN NoDir[y] ELSE disk[x][y]]
<1>1. PICK gone \in SUBSET {"name", "priv", "pub", "addr", "hidden"} :
        disk' = [disk EXCEPT ![x] = g(gone)] /\ InitFromFile /\ UNCHANGED <<spares, now>>
  BY DEF DeleteContactHalf
<1>2. ASSUME x \in Seconds
      PROVE  /\ g(gone) \in File /\ g(gone).priv \in {disk[x].priv, None}
             /\ g(gone).privInv \in {disk[x].privInv, None} /\ g(gone).pub \in {disk[x].pub, None}
  BY <1>2, Kinds, SomeGone
<1> HIDE DEF g, x
<1>3. \A d \in Seconds : disk'[d] = IF d = x THEN g(gone) ELSE disk[d]
  BY <1>1 DEF KeysInv, ContactsTypes
<1>4. disk' \in [Seconds -> File]
  <2>1. disk' = [d \in Seconds |-> disk'[d]]
    BY <1>1 DEF KeysInv, ContactsTypes
  <2>2. \A d \in Seconds : disk'[d] \in File
    BY <1>2, <1>3, Kinds
  <2> QED BY <2>1, <2>2
<1>5. ASSUME NEW d \in Seconds
      PROVE  /\ disk'[d].priv \in {disk[d].priv, None} /\ disk'[d].privInv \in {disk[d].privInv, None}
             /\ disk'[d].pub \in {disk[d].pub, None}
  BY <1>2, <1>3
<1>6. NewKeyFor(None) /\ now' \in Seconds
  BY <1>1, NoKeyIsNew DEF KeysInv, ContactsTypes
<1>7. Reload(None)
  BY <1>1, <1>4, <1>5, <1>6 DEF Reload, HeldIn
<1> QED BY <1>7, ReloadKeeps

LEMMA RestartKeeps == ASSUME KeysInv, RestartProgram PROVE KeysInv' /\ PubStays
<1>1. NewKeyFor(None)
  BY NoKeyIsNew DEF RestartProgram
<1>2. Reload(None)
  BY <1>1 DEF RestartProgram, Reload, HeldIn, KeysInv, ContactsTypes
<1> QED BY <1>2, ReloadKeeps

LEMMA CreateKeeps ==
  ASSUME KeysInv, ~ Hurried, NEW c \in People, NEW p \in PubKeys \cup {None},
         CreateContact(c, p) \/ CreateContactHalf(c, p)
  PROVE  KeysInv' /\ PubStays
<1>1. PICK key \in Keys :
        /\ RoomFor(NewContact(c, key, p)) /\ NewKey(key) /\ now' = now
        /\ \/ AddHalf(NewContact(c, key, p))
           \/ /\ SaveContact(NewContact(c, key, p))
              /\ \/ kip' = Append(kip, NewContact(c, key, p))
                 \/ \E i : kip' = [kip EXCEPT ![i] = NewContact(c, key, p)]
  <2>1. CASE CreateContact(c, p)
    <3>1. PICK key \in Keys :
        /\ RoomFor(NewContact(c, key, p)) /\ NewKey(key) /\ now' = now
        /\ SaveContact(NewContact(c, key, p))
        /\ \/ kip' = Append(kip, NewContact(c, key, p))
           \/ kip' = [kip EXCEPT ![IndexOf(c)] = NewContact(c, key, p)]
      BY <2>1, Zenon DEF CreateContact, AddEntry
    <3> QED BY <3>1, Zenon
  <2>2. CASE CreateContactHalf(c, p)
    BY <2>2, Zenon DEF CreateContactHalf
  <2> QED BY <2>1, <2>2
<1> DEFINE e == NewContact(c, key, p)
<1>2. e \in Entry /\ e.dir = now /\ e.priv = key /\ e.deleted = FALSE
  <2>1. NewEntryOf(e, key, p)
    BY NewContactType, Zenon
  <2> HIDE DEF e
  <2> QED BY <2>1 DEF NewEntryOf
<1>3. NewKeyFor(key)
  BY <1>1, NewKeyIsNew
<1> HIDE DEF e
<1>4. /\ RoomFor(e) /\ now' = now /\ key \in Keys \cup {None}
      /\ \/ AddHalf(e)
         \/ SaveContact(e) /\ (kip' = Append(kip, e) \/ \E i : kip' = [kip EXCEPT ![i] = e])
  BY <1>1 DEF e
<1>5. CASE AddHalf(e)
  BY <1>2, <1>3, <1>4, <1>5, AddHalfKeeps
<1>6. CASE SaveContact(e) /\ (kip' = Append(kip, e) \/ \E i : kip' = [kip EXCEPT ![i] = e])
  BY <1>2, <1>3, <1>4, <1>6, AddEntryKeeps
<1> QED BY <1>4, <1>5, <1>6

LEMMA CreateGroupKeeps ==
  ASSUME KeysInv, ~ Hurried, NEW g \in GroupNames, CreateGroup(g) \/ CreateGroupHalf(g)
  PROVE  KeysInv' /\ PubStays
<1> DEFINE e == NewGroup(g)
<1>1. e \in Entry /\ e.dir = now /\ e.priv = None /\ e.deleted = FALSE
  BY NewGroupType
<1>2. /\ RoomFor(e) /\ now' = now /\ UNCHANGED spares
      /\ AddHalf(e) \/ (SaveContact(e) /\ kip' = Append(kip, e))
  BY DEF CreateGroup, CreateGroupHalf, AddEntry
<1>3. NewKeyFor(None) /\ None \in Keys \cup {None}
  BY <1>2, NoKeyIsNew
<1> HIDE DEF e
<1>4. CASE AddHalf(e)
  BY <1>1, <1>2, <1>3, <1>4, AddHalfKeeps
<1>5. CASE SaveContact(e) /\ kip' = Append(kip, e)
  BY <1>1, <1>2, <1>3, <1>5, AddEntryKeeps
<1> QED BY <1>2, <1>4, <1>5

LEMMA SpareKeeps == ASSUME KeysInv, CreateSpareKey PROVE KeysInv' /\ PubStays
<1>1. PICK key \in Keys : key \notin KeysInUse /\ spares' = spares \cup {key}
  BY DEF CreateSpareKey, RsaGenerateKey, SaveSpareKey
<1>2. UNCHANGED <<kip, disk, now>>
  BY DEF CreateSpareKey
<1>3. \A d \in Seconds : ~ HeldIn(d, key)
  <2>1. \A d \in Seconds : key # disk[d].priv /\ key # disk[d].privInv
    BY <1>1 DEF KeysInUse
  <2>2. \A i \in DOMAIN kip : key # kip[i].priv
    BY <1>1 DEF KeysInUse
  <2> QED BY <2>1, <2>2 DEF HeldIn
<1>4. \A d \in Seconds, k \in Keys : HeldIn(d, k)' <=> HeldIn(d, k)
  BY <1>2 DEF HeldIn
<1>5. KeysApart'
  BY <1>1, <1>3, <1>4 DEF KeysInv, KeysApart
<1>6. ContactsTypes' /\ DirsApart' /\ PubSaved'
  BY <1>1, <1>2 DEF KeysInv, ContactsTypes, DirsApart, PubSaved
<1>7. PubStays
  BY <1>2 DEF PubStays, KeysInv, DirsApart
<1> QED BY <1>5, <1>6, <1>7 DEF KeysInv

\* The clock, or nothing.
LEMMA TimeKeeps ==
  ASSUME KeysInv, UNCHANGED <<kip, disk, spares>>, now' \in Seconds PROVE KeysInv' /\ PubStays
<1>1. KeysInv'
  BY DEF KeysInv, ContactsTypes, DirsApart, KeysApart, PubSaved, HeldIn
<1>2. PubStays
  BY DEF PubStays, KeysInv, DirsApart
<1> QED BY <1>1, <1>2

LEMMA ContactsStep ==
  ASSUME KeysInv, ~ Hurried, [ContactsNext]_contacts PROVE KeysInv' /\ PubStays
<1>1. ASSUME NEW c \in People, NEW p \in PubKeys \cup {None},
             CreateContact(c, p) \/ CreateContactHalf(c, p)
      PROVE  KeysInv' /\ PubStays
  BY <1>1, CreateKeeps
<1>2. ASSUME NEW g \in GroupNames, CreateGroup(g) \/ CreateGroupHalf(g) PROVE KeysInv' /\ PubStays
  BY <1>2, CreateGroupKeeps
<1>3. ASSUME NEW c \in Touched, NEW n \in NewNames, RenameContact(c, n) PROVE KeysInv' /\ PubStays
  BY <1>3, RenameKeeps
<1>4. ASSUME NEW c \in Touched,
             MakeInvisible(c) \/ MakeVisible(c) \/ DeleteContact(c) \/ DeleteContactHalf(c)
      PROVE  KeysInv' /\ PubStays
  BY <1>4, VisibilityKeeps, DeleteKeeps, DeleteHalfKeeps
<1>5. ASSUME NEW g \in GroupNames, NEW c \in People \cup GroupNames, AddToGroup(g, c)
      PROVE  KeysInv' /\ PubStays
  BY <1>5, MembersKeep
<1>6. ASSUME NEW g \in GroupNames, NEW c \in People \cup GroupNames, RemoveFromGroup(g, c)
      PROVE  KeysInv' /\ PubStays
  BY <1>6, MembersKeep
<1>7. ASSUME NEW k \in DOMAIN kip,
             \/ \E p \in PubKeys : SetContactPubkey(k, p)
             \/ \E side \in {"local", "remote"} : SetAddr(k, side)
             \/ MarkInvalid(k) \/ MarkValid(k)
      PROVE  KeysInv' /\ PubStays
  BY <1>7, SetKeeps, MarkKeeps
<1>8. ASSUME NEW c \in People,
             \/ SetSymmetricKey(c) \/ SaveKeyState(c)
             \/ InvalidateSymmetricKey(c) \/ RevalidateSymmetricKey(c)
      PROVE  KeysInv' /\ PubStays
  BY <1>8, SymmetricKeysKeep
<1>9. CASE CreateSpareKey
  BY <1>9, SpareKeeps
<1>10. CASE Tick \/ UNCHANGED contacts
  <2>1. UNCHANGED <<kip, disk, spares>> /\ now' \in Seconds
    BY <1>10 DEF Tick, contacts, KeysInv, ContactsTypes
  <2> QED BY <2>1, TimeKeeps
<1>11. CASE RestartProgram
  BY <1>11, RestartKeeps
<1> QED BY <1>1, <1>2, <1>3, <1>4, <1>5, <1>6, <1>7, <1>8, <1>9, <1>10, <1>11 DEF ContactsNext

LEMMA ContactsStart == ContactsInit => KeysInv
<1> SUFFICES ASSUME ContactsInit PROVE KeysInv
  OBVIOUS
<1>1. 1 \in Seconds
  <2>1. IsFiniteSet(Seconds) /\ Seconds = 1 .. Cardinality(Seconds) /\ Seconds # {}
    BY ContactsAssumption
  <2>2. Cardinality(Seconds) \in Nat
    BY <2>1, FS_CardinalityType
  <2> DEFINE n == Cardinality(Seconds)
  <2> HIDE DEF n
  <2>3. n \in Nat /\ Seconds = 1 .. n /\ Seconds # {}
    BY <2>1, <2>2 DEF n
  <2> QED BY <2>3
<1>2. ContactsTypes
  BY <1>1, NoDirIsFile DEF ContactsInit, ContactsTypes
<1>3. DirsApart /\ PubSaved
  BY DEF ContactsInit, DirsApart, PubSaved
<1>4. KeysApart
  BY ContactsAssumption, NoDirIsFile DEF ContactsInit, KeysApart, HeldIn
<1> QED BY <1>2, <1>3, <1>4 DEF KeysInv

LEMMA OnceIfApart == KeysInv => KeyUsedOnce
<1> SUFFICES ASSUME KeysInv PROVE KeyUsedOnce
  OBVIOUS
<1>1. ASSUME NEW i \in DOMAIN kip, NEW j \in DOMAIN kip, i # j, Live(i), Live(j),
             kip[i].priv # None, kip[i].priv = kip[j].priv
      PROVE  FALSE
  <2>1. kip[i] \in Entry /\ kip[j] \in Entry
    BY Kinds
  <2>2. kip[i].dir # None /\ kip[j].dir # None
    BY <1>1 DEF KeysInv, DirsApart
  <2>3. kip[i].dir \in Seconds /\ kip[j].dir \in Seconds /\ kip[i].priv \in Keys
    BY <1>1, <2>1, <2>2 DEF Entry
  <2>4. HeldIn(kip[i].dir, kip[i].priv) /\ HeldIn(kip[j].dir, kip[i].priv)
    BY <1>1 DEF HeldIn, Live
  <2>5. kip[i].dir = kip[j].dir
    BY <2>3, <2>4 DEF KeysInv, KeysApart
  <2> QED BY <1>1, <2>2, <2>5 DEF KeysInv, DirsApart
<1>2. ASSUME NEW d \in Seconds PROVE {disk[d].priv, disk[d].privInv} \cap spares = {}
  <2>1. spares \subseteq Keys
    BY DEF KeysInv, ContactsTypes
  <2>2. \A k \in spares : ~ HeldIn(d, k)
    BY <2>1 DEF KeysInv, KeysApart
  <2> QED BY <2>2 DEF HeldIn
<1> QED BY <1>1, <1>2 DEF KeyUsedOnce

(* (create_contact, get_spare_key, mark_valid, init_from_file) With no two      *)
(* entries created in one second, for any number of contacts, keys and spare    *)
(* keys, and wherever the program stops: a private key is that of one contact.  *)
THEOREM EachKeyOnce == ASSUME ~ Hurried PROVE ContactsSpec => []KeyUsedOnce
<1>1. KeysInv /\ [ContactsNext]_contacts => KeysInv'
  BY ContactsStep
<1> QED BY <1>1, ContactsStart, OnceIfApart, PTL DEF ContactsSpec

(* (set_contact_pubkey, save_contact, init_from_file) With no two entries       *)
(* created in one second, the public key accepted for a contact is never        *)
(* replaced by another.                                                         *)
THEOREM PeerKeysStay == ASSUME ~ Hurried PROVE ContactsSpec => PeerKeyStays
<1>1. KeysInv /\ [ContactsNext]_contacts => KeysInv'
  BY ContactsStep
<1>2. KeysInv /\ [ContactsNext]_contacts =>
        [\A i \in DOMAIN kip, j \in DOMAIN kip' :
           /\ Live(i) /\ ~ kip'[j].deleted /\ kip[i].dir = kip'[j].dir
           /\ kip[i].pub # None /\ kip'[j].priv # None /\ kip[i].priv # None
           => kip'[j].pub \in {kip[i].pub, None}]_contacts
  BY ContactsStep DEF PubStays
<1> QED BY <1>1, <1>2, ContactsStart, PTL DEF ContactsSpec, PeerKeyStays
-----------------------------------------------------------------------------
(***************************************************************************)
(* Contacts are what their files say.                                      *)
(***************************************************************************)
\* The steps of generate_contacts, for names that are all different.
NameSteps(f, entries) ==
  f = [i \in 0 .. Len(entries) |->
         IF i = 0 THEN <<>>
         ELSE IF entries[i].name \in Range(f[i - 1]) \cup {None} THEN f[i - 1]
         ELSE Append(f[i - 1], entries[i].name)]
NamesUpTo(entries, k) == [i \in 1 .. k |-> entries[i].name]

LEMMA NextName ==
  ASSUME NEW n \in Nat, NEW entries, NEW k \in 1 .. n,
         \A i \in 1 .. n : entries[i].name # None,
         \A i, j \in 1 .. n : i # j => entries[i].name # entries[j].name
  PROVE  /\ entries[k].name \notin Range(NamesUpTo(entries, k - 1)) \cup {None}
         /\ Append(NamesUpTo(entries, k - 1), entries[k].name) = NamesUpTo(entries, k)
<1> DEFINE T == {entries[i].name : i \in 1 .. n}
           x == entries[k].name
           s == NamesUpTo(entries, k - 1)
<1>1. k - 1 \in Nat /\ x \in T /\ x # None
  OBVIOUS
<1>2. s \in Seq(T) /\ Len(s) = k - 1 /\ DOMAIN s = 1 .. k - 1
      /\ \A i \in 1 .. k - 1 : s[i] = entries[i].name
  <2>1. \A i \in 1 .. k - 1 : entries[i].name \in T
    OBVIOUS
  <2> HIDE DEF T
  <2> QED BY <1>1, <2>1, IsASeq DEF NamesUpTo
<1>3. x \notin Range(s)
  BY <1>2 DEF Range
<1>4. Append(s, x) = NamesUpTo(entries, k)
  <2> DEFINE t == NamesUpTo(entries, k)
  <2>1. t \in Seq(T) /\ Len(t) = k /\ \A i \in 1 .. k : t[i] = entries[i].name
    <3>1. \A i \in 1 .. k : entries[i].name \in T
      OBVIOUS
    <3> HIDE DEF T
    <3> QED BY <1>1, <3>1, IsASeq DEF NamesUpTo
  <2>2. entries[k].name = x
    OBVIOUS
  <2> HIDE DEF T, s, x, t
  <2>3. Append(s, x) \in Seq(T) /\ Len(Append(s, x)) = k
        /\ \A i \in 1 .. k : Append(s, x)[i] = IF i = k THEN x ELSE s[i]
    BY <1>1, <1>2
  <2>4. \A i \in 1 .. k : Append(s, x)[i] = t[i]
    <3>1. \A i \in 1 .. k : i # k => i \in 1 .. k - 1
      BY <1>1
    <3> QED BY <1>2, <2>1, <2>2, <2>3, <3>1
  <2>5. Append(s, x) = t
    BY <2>1, <2>3, <2>4, SeqEqual
  <2> QED BY <2>5 DEF t
<1> QED BY <1>1, <1>3, <1>4

LEMMA Generate ==
  ASSUME NEW entries, Len(entries) \in Nat,
         \A i \in 1 .. Len(entries) : entries[i].name # None,
         \A i, j \in 1 .. Len(entries) : i # j => entries[i].name # entries[j].name
  PROVE  GenerateContacts(entries) = [i \in 1 .. Len(entries) |-> entries[i].name]
<1> DEFINE n == Len(entries)
           Step(f, i) == IF i = 0 THEN <<>>
                         ELSE IF entries[i].name \in Range(f[i - 1]) \cup {None} THEN f[i - 1]
                         ELSE Append(f[i - 1], entries[i].name)
           g == [k \in 0 .. n |-> NamesUpTo(entries, k)]
           f == CHOOSE f : NameSteps(f, entries)
<1>0. n \in Nat
  OBVIOUS
<1>1. GenerateContacts(entries) = f[n]
  BY Zenon DEF GenerateContacts, NameSteps
<1>2. \A h : NameSteps(h, entries) <=> h = [i \in 0 .. n |-> Step(h, i)]
  BY Zenon DEF NameSteps
<1>3. ASSUME NEW h, NEW k \in 1 .. n, h[k - 1] = NamesUpTo(entries, k - 1)
      PROVE  Step(h, k) = NamesUpTo(entries, k)
  <2>1. k # 0
    BY <1>0
  <2>2. Step(h, k) = Append(h[k - 1], entries[k].name)
    BY <1>3, <2>1, NextName
  <2> QED BY <1>3, <2>2, NextName
<1>4. \A h : Step(h, 0) = NamesUpTo(entries, 0)
  BY DEF NamesUpTo
<1> HIDE DEF Step, n
<1>5. NameSteps(g, entries)
  <2>1. \A k \in 0 .. n : Step(g, k) = NamesUpTo(entries, k)
    <3> SUFFICES ASSUME NEW k \in 0 .. n, k # 0 PROVE Step(g, k) = NamesUpTo(entries, k)
      BY <1>4
    <3>1. k \in 1 .. n /\ k - 1 \in 0 .. n
      BY <1>0
    <3> QED BY <1>3, <3>1
  <2> QED BY <1>2, <2>1
<1>6. f = [i \in 0 .. n |-> Step(f, i)]
  <2>1. NameSteps(f, entries)
    BY <1>5
  <2> HIDE DEF f
  <2> QED BY <1>2, <2>1
<1> HIDE DEF f, g
<1> DEFINE D == {k \in Nat : k <= n => f[k] = NamesUpTo(entries, k)}
<1>7. D = Nat
  <2>0. \A k \in 0 .. n : f[k] = Step(f, k)
    BY <1>6
  <2>1. 0 \in D
    BY <1>0, <1>4, <2>0
  <2>2. ASSUME NEW k \in D PROVE k + 1 \in D
    <3> SUFFICES ASSUME k + 1 <= n PROVE f[k + 1] = NamesUpTo(entries, k + 1)
      OBVIOUS
    <3>1. k + 1 \in 1 .. n /\ (k + 1) - 1 = k /\ k <= n /\ k + 1 \in 0 .. n
      BY <1>0
    <3>2. f[k] = NamesUpTo(entries, k)
      BY <3>1
    <3> QED BY <1>3, <2>0, <3>1, <3>2
  <2> HIDE DEF D
  <2>3. D \in SUBSET Nat
    BY DEF D
  <2> QED BY <2>1, <2>2, <2>3, Induction
<1>8. f[n] = NamesUpTo(entries, n)
  BY <1>0, <1>7
<1> QED BY <1>1, <1>8 DEF NamesUpTo, n

\* An entry e is what the files f say.
Saved(e, f) ==
  /\ f.there /\ f.name = e.name /\ f.group = e.group /\ f.members = e.members
  /\ f.hidden = ~ e.visible /\ f.sym = e.sym
  /\ ~ e.group => f.priv = e.priv
  /\ e.pub # None => f.pub = e.pub
  /\ e.addr \subseteq f.addr
  /\ e.group \/ e.members = <<>>

\* Each entry has a directory and a name of its own, and cpx lists the names in place.
NamesListed ==
  /\ \A i \in DOMAIN kip : kip[i].dir # None /\ kip[i].name # None
  /\ \A i, j \in DOMAIN kip : i # j => kip[i].name # kip[j].name
  /\ cpx = [i \in DOMAIN kip |-> kip[i].name]
\* A directory is that of a live entry, or is not there.
SavedInv ==
  /\ NamesListed
  /\ \A i \in DOMAIN kip : Live(i) => Saved(kip[i], disk[kip[i].dir])
  /\ \A d \in Seconds : (\A i \in DOMAIN kip : Live(i) => kip[i].dir # d) => disk[d] = NoDir

LEMMA SavedIsAsSaved == SavedInv => AsSaved
<1> SUFFICES ASSUME SavedInv PROVE AsSaved
  OBVIOUS
<1>1. \A i \in DOMAIN kip : Live(i) => SameAsRead(kip[i])
  BY DEF SavedInv, Saved, SameAsRead
<1>2. DOMAIN cpx = DOMAIN kip /\ \A i \in DOMAIN kip : cpx[i] = kip[i].name
  BY DEF SavedInv, NamesListed
<1>3. AllContacts = {kip[i].name : i \in {j \in DOMAIN kip : Live(j) /\ kip[j].visible}}
  BY <1>2 DEF AllContacts
<1>4. InvisibleContacts = {kip[i].name : i \in {j \in DOMAIN kip : Live(j) /\ ~ kip[j].visible}}
  BY <1>2 DEF InvisibleContacts
<1>5. AllIndividualContacts = {kip[i].name : i \in {j \in DOMAIN kip : Live(j) /\ ~ kip[j].group}}
  BY <1>2 DEF AllIndividualContacts
<1>6. InvisibleContacts \cup AllContacts = {kip[i].name : i \in {j \in DOMAIN kip : Live(j)}}
  BY <1>3, <1>4
<1> QED BY <1>1, <1>3, <1>5, <1>6 DEF AsSaved

-----------------------------------------------------------------------------
\* What becomes of an entry e with the files f: it is saved, or deleted with them.
Goes(e, e2, f2) ==
  \/ ~ e.deleted /\ ~ e2.deleted /\ Saved(e2, f2)
  \/ e2.deleted /\ f2 = NoDir

\* Only the entries S and their directories are changed.
ChangedOnly(S) ==
  /\ S \subseteq DOMAIN kip /\ DOMAIN kip' = DOMAIN kip
  /\ \A i \in DOMAIN kip : i \notin S => kip'[i] = kip[i]
  /\ \A d \in Seconds : (\A i \in S : kip[i].dir # d) => disk'[d] = disk[d]
  /\ \A i \in S : kip'[i].dir = kip[i].dir /\ Goes(kip[i], kip'[i], disk'[kip[i].dir])

LEMMA ChangeSaved ==
  ASSUME KeysInv, SavedInv, NEW S, ChangedOnly(S), NamesListed' PROVE SavedInv'
<1>0. \A i \in DOMAIN kip : kip[i].dir \in Seconds
  <2>1. \A i \in DOMAIN kip : kip[i] \in Entry /\ kip[i].dir # None
    BY Kinds DEF SavedInv, NamesListed
  <2> QED BY <2>1 DEF Entry
<1>1. ASSUME NEW i \in DOMAIN kip', Live(i)' PROVE Saved(kip'[i], disk'[kip'[i].dir])
  <2>1. CASE i \in S
    BY <1>1, <2>1 DEF ChangedOnly, Goes, Live
  <2>2. CASE i \notin S
    <3>1. i \in DOMAIN kip /\ kip'[i] = kip[i] /\ Live(i)
      BY <1>1, <2>2 DEF ChangedOnly, Live
    <3>2. \A j \in S : kip[j].dir # kip[i].dir
      BY <2>2, <3>1 DEF ChangedOnly, KeysInv, DirsApart, SavedInv, NamesListed
    <3>3. disk'[kip[i].dir] = disk[kip[i].dir]
      BY <1>0, <3>1, <3>2 DEF ChangedOnly
    <3> QED BY <3>1, <3>3 DEF SavedInv
  <2> QED BY <2>1, <2>2
<1>2. ASSUME NEW d \in Seconds, \A i \in DOMAIN kip' : Live(i)' => kip'[i].dir # d
      PROVE  disk'[d] = NoDir
  <2>1. CASE \E i \in S : kip[i].dir = d
    BY <1>2, <2>1 DEF ChangedOnly, Goes, Live
  <2>2. CASE \A i \in S : kip[i].dir # d
    <3>1. disk'[d] = disk[d]
      BY <2>2 DEF ChangedOnly
    <3>2. \A i \in DOMAIN kip : Live(i) => kip[i].dir # d
      BY <1>2, <2>2 DEF ChangedOnly, Live
    <3> QED BY <3>1, <3>2 DEF SavedInv
  <2> QED BY <2>1, <2>2
<1> QED BY <1>1, <1>2 DEF SavedInv

\* The names stay.
LEMMA NamesStay ==
  ASSUME SavedInv, DOMAIN kip' = DOMAIN kip, cpx' = cpx,
         \A i \in DOMAIN kip : kip'[i].dir = kip[i].dir /\ kip'[i].name = kip[i].name
  PROVE  NamesListed'
BY DEF SavedInv, NamesListed

\* A directory that has an entry that is not live is not there.
LEMMA NotLive ==
  ASSUME KeysInv, SavedInv, NEW i \in DOMAIN kip, ~ Live(i) PROVE disk[kip[i].dir] = NoDir
<1>1. kip[i] \in Entry /\ kip[i].dir # None
  BY Kinds DEF SavedInv, NamesListed
<1>2. kip[i].dir \in Seconds
  BY <1>1 DEF Entry
<1>3. \A j \in DOMAIN kip : Live(j) => kip[j].dir # kip[i].dir
  BY <1>1 DEF KeysInv, DirsApart
<1> QED BY <1>2, <1>3 DEF SavedInv

-----------------------------------------------------------------------------
\* What files the program may start from: each directory has a name of its own.
FilesNamed ==
  /\ \A d \in Seconds : disk[d].there => disk[d].name # None
  /\ \A c, d \in Seconds : c # d /\ disk[c].there /\ disk[d].there => disk[c].name # disk[d].name
  /\ \A d \in Seconds : ~ disk[d].there => disk[d] = NoDir
  /\ \A d \in Seconds : disk[d].group \/ disk[d].members = <<>>

LEMMA NoDirIsEmpty ==
  /\ NoDir.there = FALSE /\ NoDir.name = None /\ NoDir.group = FALSE /\ NoDir.members = <<>>
  /\ NoDir.addr = {} /\ NoDir.hidden = FALSE /\ NoDir.sym = None /\ NoDir.priv = None
  /\ NoDir.pub = None /\ NoDir.privInv = None /\ NoDir.symInv = None /\ NoDir.state = None
BY DEF NoDir

LEMMA SavedFiles == ASSUME KeysInv, SavedInv PROVE FilesNamed
<1>1. ASSUME NEW d \in Seconds, disk[d] # NoDir
      PROVE  \E i \in DOMAIN kip : Live(i) /\ kip[i].dir = d /\ Saved(kip[i], disk[d])
  BY <1>1 DEF SavedInv
<1>2. \A i \in DOMAIN kip : kip[i].name # None
  BY DEF SavedInv, NamesListed
<1>3. \A i, j \in DOMAIN kip : i # j => kip[i].name # kip[j].name
  BY DEF SavedInv, NamesListed
<1>4. ASSUME NEW d \in Seconds
      PROVE  /\ disk[d].there => disk[d].name # None
             /\ ~ disk[d].there => disk[d] = NoDir
             /\ disk[d].group \/ disk[d].members = <<>>
  BY <1>1, <1>2, NoDirIsEmpty DEF Saved
<1>5. ASSUME NEW c \in Seconds, NEW d \in Seconds, c # d, disk[c].there, disk[d].there
      PROVE  disk[c].name # disk[d].name
  <2>1. disk[c] # NoDir /\ disk[d] # NoDir
    BY <1>5, NoDirIsEmpty
  <2>2. PICK i \in DOMAIN kip : kip[i].dir = c /\ Saved(kip[i], disk[c])
    BY <1>1, <2>1
  <2>3. PICK j \in DOMAIN kip : kip[j].dir = d /\ Saved(kip[j], disk[d])
    BY <1>1, <2>1
  <2>4. i # j
    BY <1>5, <2>2, <2>3
  <2> QED BY <1>3, <2>2, <2>3, <2>4 DEF Saved
<1> QED BY <1>4, <1>5 DEF FilesNamed

\* What an entry is when it is read.
LEMMA ReadSaved ==
  ASSUME disk' \in [Seconds -> File], FilesNamed', NEW d \in Seconds, disk'[d].there
  PROVE  /\ ReadKeyInfo(d) \in Entry /\ Saved(ReadKeyInfo(d), disk'[d])
         /\ ReadKeyInfo(d).dir = d /\ ReadKeyInfo(d).name = disk'[d].name
         /\ ReadKeyInfo(d).name # None /\ ReadKeyInfo(d).deleted = FALSE
<1> DEFINE f == disk'[d]
<1>1. f \in File /\ f.name # None /\ (f.group \/ f.members = <<>>)
  BY DEF FilesNamed
<1>2. ReadKeyInfo(d) \in Entry
  BY <1>1 DEF ReadKeyInfo, GetMembers, Entry, File
<1>3. Saved(ReadKeyInfo(d), disk'[d])
  BY <1>1 DEF ReadKeyInfo, GetMembers, File, Saved
<1>4. /\ ReadKeyInfo(d).dir = d /\ ReadKeyInfo(d).name = f.name /\ ReadKeyInfo(d).deleted = FALSE
  BY DEF ReadKeyInfo
<1> QED BY <1>1, <1>2, <1>3, <1>4

\* The entries are the directories that are there, in some order.
LEMMA StartOrder ==
  ASSUME disk' \in [Seconds -> File], FilesNamed', InitFromFile
  PROVE  \E n \in Nat : \E order \in [1 .. n -> Seconds] :
           /\ \A i, j \in 1 .. n : i # j => order[i] # order[j]
           /\ \A d \in Seconds : disk'[d].there <=> \E i \in 1 .. n : order[i] = d
           /\ Len(kip') = n /\ DOMAIN kip' = 1 .. n
           /\ \A i \in 1 .. n : kip'[i] = ReadKeyInfo(order[i])
           /\ cpx' = GenerateContacts(kip')
<1> DEFINE there == {d \in Seconds : disk'[d].there}
           named == {d \in there : disk'[d].name # None}
           blank == [i \in 1 .. Cardinality(there \ named) |-> Individual]
           n == Cardinality(named)
<1>1. PICK order \in [1 .. n -> named] :
        /\ \A i, j \in 1 .. n : i # j => order[i] # order[j]
        /\ kip' = [i \in DOMAIN order |-> ReadKeyInfo(order[i])] \o blank
        /\ cpx' = GenerateContacts(kip')
  BY Zenon DEF InitFromFile, SetToSeqs
<1>2. named = there /\ there \ named = {}
  BY DEF FilesNamed
<1>3. IsFiniteSet(named) /\ n \in Nat /\ named \subseteq Seconds
  BY SecondsFinite
<1>4. blank = <<>>
  <2>1. Cardinality(there \ named) = 0
    BY <1>2, FS_EmptySet
  <2>2. \A i \in 1 .. 0 : Individual \in {Individual}
    OBVIOUS
  <2>3. [i \in 1 .. 0 |-> Individual] \in Seq({Individual}) /\ Len([i \in 1 .. 0 |-> Individual]) = 0
    BY <2>2, IsASeq
  <2>4. [i \in 1 .. 0 |-> Individual] = <<>>
    BY <2>3, EmptySeq
  <2> QED BY <2>1, <2>4
<1>5. \A d \in named : \E i \in 1 .. n : order[i] = d
  <2> DEFINE R == {order[i] : i \in 1 .. n}
  <2>1. R \in SUBSET named
    OBVIOUS
  <2>2. order \in Bijection(1 .. n, R)
    <3>1. order \in [1 .. n -> R]
      OBVIOUS
    <3> QED BY <1>1, <3>1 DEF Bijection, Injection, Surjection, IsInjective
  <2>3. ExistsBijection(1 .. n, R)
    BY <2>2 DEF ExistsBijection
  <2> HIDE DEF R, n, named
  <2>4. Cardinality(R) = n
    BY <1>3, <2>3, FS_CountingElements
  <2>5. R = named
    BY <1>3, <2>1, <2>4, FS_Subset DEF n
  <2> QED BY <2>5 DEF R
<1> DEFINE x == [i \in DOMAIN order |-> ReadKeyInfo(order[i])]
<1> HIDE DEF n
<1>6. DOMAIN order = 1 .. n /\ \A i \in 1 .. n : order[i] \in Seconds /\ disk'[order[i]].there
  OBVIOUS
<1> HIDE DEF named, there
<1>7. x \in Seq(Entry) /\ Len(x) = n /\ DOMAIN x = 1 .. n /\ \A i \in 1 .. n : x[i] = ReadKeyInfo(order[i])
  <2>1. \A i \in 1 .. n : ReadKeyInfo(order[i]) \in Entry
    BY <1>6, ReadSaved
  <2> QED BY <1>3, <1>6, <2>1, IsASeq
<1> HIDE DEF x, blank
<1>8. kip' = x
  <2>1. kip' = x \o blank
    BY <1>1 DEF x
  <2> QED BY <1>4, <1>7, <2>1, ConcatEmptySeq
<1>9. order \in [1 .. n -> Seconds]
  BY <1>3
<1>10. \A d \in Seconds : disk'[d].there <=> \E i \in 1 .. n : order[i] = d
  <2>1. \A d \in Seconds : disk'[d].there => d \in named
    BY <1>2 DEF there
  <2> QED BY <1>5, <1>6, <2>1
<1> QED BY <1>1, <1>3, <1>7, <1>8, <1>9, <1>10

LEMMA ReloadSaved ==
  ASSUME disk' \in [Seconds -> File], FilesNamed', InitFromFile PROVE SavedInv'
<1>0. PICK n \in Nat : \E order \in [1 .. n -> Seconds] :
        /\ \A i, j \in 1 .. n : i # j => order[i] # order[j]
        /\ \A d \in Seconds : disk'[d].there <=> \E i \in 1 .. n : order[i] = d
        /\ Len(kip') = n /\ DOMAIN kip' = 1 .. n
        /\ \A i \in 1 .. n : kip'[i] = ReadKeyInfo(order[i])
        /\ cpx' = GenerateContacts(kip')
  BY StartOrder
<1>1. PICK order \in [1 .. n -> Seconds] :
        /\ \A i, j \in 1 .. n : i # j => order[i] # order[j]
        /\ \A d \in Seconds : disk'[d].there <=> \E i \in 1 .. n : order[i] = d
        /\ Len(kip') = n /\ DOMAIN kip' = 1 .. n
        /\ \A i \in 1 .. n : kip'[i] = ReadKeyInfo(order[i])
        /\ cpx' = GenerateContacts(kip')
  BY <1>0
<1>2. \A i \in 1 .. n : order[i] \in Seconds /\ disk'[order[i]].there
  BY <1>1
<1>3. ASSUME NEW i \in 1 .. n
      PROVE  /\ Saved(kip'[i], disk'[kip'[i].dir]) /\ kip'[i].dir = order[i] /\ kip'[i].dir # None
             /\ kip'[i].name = disk'[order[i]].name /\ kip'[i].name # None /\ ~ kip'[i].deleted
  <2> DEFINE d == order[i]
  <2>1. d \in Seconds /\ disk'[d].there /\ d # None /\ kip'[i] = ReadKeyInfo(d)
    BY <1>1, <1>2, ContactsAssumption
  <2> HIDE DEF d
  <2>2. /\ Saved(ReadKeyInfo(d), disk'[d])
        /\ ReadKeyInfo(d).dir = d /\ ReadKeyInfo(d).name = disk'[d].name
        /\ ReadKeyInfo(d).name # None /\ ReadKeyInfo(d).deleted = FALSE
    BY <2>1, ReadSaved
  <2> QED BY <2>1, <2>2 DEF d
<1>4. \A i, j \in 1 .. n : i # j => kip'[i].name # kip'[j].name
  BY <1>1, <1>2, <1>3 DEF FilesNamed
<1>5. cpx' = [i \in 1 .. n |-> kip'[i].name]
  <2>1. PICK es : es = kip'
    OBVIOUS
  <2>2. Len(es) = n /\ \A i \in 1 .. n : es[i].name # None
    BY <1>1, <1>3, <2>1
  <2>3. \A i, j \in 1 .. n : i # j => es[i].name # es[j].name
    BY <1>4, <2>1
  <2>4. GenerateContacts(es) = [i \in 1 .. n |-> es[i].name]
    BY <2>2, <2>3, Generate
  <2> QED BY <1>1, <2>1, <2>4
<1>6. NamesListed'
  BY <1>1, <1>3, <1>4, <1>5 DEF NamesListed
<1>7. ASSUME NEW d \in Seconds, \A i \in DOMAIN kip' : Live(i)' => kip'[i].dir # d
      PROVE  disk'[d] = NoDir
  BY <1>1, <1>3, <1>7 DEF Live, FilesNamed
<1> QED BY <1>1, <1>3, <1>6, <1>7 DEF SavedInv, Live

-----------------------------------------------------------------------------
\* One field is changed in an entry and in its files.
LEMMA FieldSaved ==
  ASSUME NEW e \in Entry, NEW f \in File, Saved(e, f), NEW x
  PROVE  /\ Saved([e EXCEPT !.name = x], [f EXCEPT !.name = x])
         /\ Saved([e EXCEPT !.visible = TRUE], [f EXCEPT !.hidden = FALSE])
         /\ Saved([e EXCEPT !.visible = FALSE], [f EXCEPT !.hidden = TRUE])
         /\ Saved([e EXCEPT !.sym = x], [f EXCEPT !.sym = x])
         /\ Saved([e EXCEPT !.state = x], [f EXCEPT !.state = x])
<1>1. Saved([e EXCEPT !.name = x], [f EXCEPT !.name = x])
  BY DEF Saved, Entry, File
<1>2. Saved([e EXCEPT !.visible = TRUE], [f EXCEPT !.hidden = FALSE])
  BY DEF Saved, Entry, File
<1>3. Saved([e EXCEPT !.visible = FALSE], [f EXCEPT !.hidden = TRUE])
  BY DEF Saved, Entry, File
<1>4. Saved([e EXCEPT !.sym = x], [f EXCEPT !.sym = x])
  BY DEF Saved, Entry, File
<1>5. Saved([e EXCEPT !.state = x], [f EXCEPT !.state = x])
  BY DEF Saved, Entry, File
<1> QED BY <1>1, <1>2, <1>3, <1>4, <1>5

LEMMA FieldKept ==
  ASSUME NEW e \in Entry, NEW x
  PROVE  /\ [e EXCEPT !.name = x].dir = e.dir /\ [e EXCEPT !.name = x].deleted = e.deleted
         /\ [e EXCEPT !.name = x].name = x
         /\ [e EXCEPT !.visible = x].dir = e.dir /\ [e EXCEPT !.visible = x].deleted = e.deleted
         /\ [e EXCEPT !.visible = x].name = e.name
         /\ [e EXCEPT !.deleted = x].dir = e.dir /\ [e EXCEPT !.deleted = x].deleted = x
         /\ [e EXCEPT !.deleted = x].name = e.name
         /\ [e EXCEPT !.sym = x].dir = e.dir /\ [e EXCEPT !.sym = x].deleted = e.deleted
         /\ [e EXCEPT !.sym = x].name = e.name
         /\ [e EXCEPT !.state = x].dir = e.dir /\ [e EXCEPT !.state = x].deleted = e.deleted
         /\ [e EXCEPT !.state = x].name = e.name
         /\ [e EXCEPT !.priv = x].dir = e.dir /\ [e EXCEPT !.priv = x].deleted = e.deleted
         /\ [e EXCEPT !.priv = x].name = e.name
         /\ [e EXCEPT !.members = x].dir = e.dir /\ [e EXCEPT !.members = x].deleted = e.deleted
         /\ [e EXCEPT !.members = x].name = e.name
BY DEF Entry

\* A live entry, its directory and its files.
LEMMA LiveSaved ==
  ASSUME KeysInv, SavedInv, NEW i \in DOMAIN kip
  PROVE  /\ kip[i] \in Entry /\ kip[i].dir \in Seconds /\ disk[kip[i].dir] \in File
         /\ Live(i) => Saved(kip[i], disk[kip[i].dir])
         /\ ~ Live(i) => disk[kip[i].dir] = NoDir
<1>1. kip[i] \in Entry /\ kip[i].dir # None
  BY Kinds DEF SavedInv, NamesListed
<1>2. kip[i].dir \in Seconds
  BY <1>1 DEF Entry
<1> QED BY <1>1, <1>2, Kinds, NotLive DEF SavedInv

\* The names searched are those of the entries.
LEMMA NamedAre ==
  ASSUME SavedInv, NEW c
  PROVE  /\ Named(c) = {i \in DOMAIN kip : kip[i].name = c} /\ OfName(c) = Named(c)
         /\ ContactExists(c) <=> Named(c) # {}
         /\ \A i, j \in Named(c) : i = j
<1>1. DOMAIN cpx = DOMAIN kip /\ \A i \in DOMAIN kip : cpx[i] = kip[i].name
  BY DEF SavedInv, NamesListed
<1>2. Named(c) = {i \in DOMAIN kip : kip[i].name = c}
  BY <1>1 DEF Named
<1>3. \A i, j \in DOMAIN kip : i # j => kip[i].name # kip[j].name
  BY DEF SavedInv, NamesListed
<1> QED BY <1>2, <1>3 DEF Named, OfName, ContactExists

LEMMA RenameSaved ==
  ASSUME KeysInv, SavedInv, ~ MayReuse, NEW c \in Touched, NEW n \in NewNames, RenameContact(c, n)
  PROVE  SavedInv'
<1> DEFINE S == {i \in Named(c) : Live(i)}
<1>1. /\ kip' = [i \in DOMAIN kip |-> IF i \in S THEN [kip[i] EXCEPT !.name = n] ELSE kip[i]]
      /\ disk' = [d \in Seconds |-> IF \E i \in S : kip[i].dir = d
                                    THEN [disk[d] EXCEPT !.name = n] ELSE disk[d]]
      /\ cpx' = [i \in DOMAIN cpx |-> IF i \in S THEN n ELSE cpx[i]]
      /\ ~ ContactExists(n)
  BY DEF RenameContact, Change
<1>2. S \subseteq DOMAIN kip /\ (\A i \in S : Live(i)) /\ \A i, j \in S : i = j
  BY NamedAre
<1> HIDE DEF S
<1>3. ASSUME NEW i \in S
      PROVE  kip'[i].dir = kip[i].dir /\ kip'[i].name = n /\ Goes(kip[i], kip'[i], disk'[kip[i].dir])
  <2>1. /\ kip[i] \in Entry /\ kip[i].dir \in Seconds /\ disk[kip[i].dir] \in File
        /\ Saved(kip[i], disk[kip[i].dir]) /\ ~ kip[i].deleted
    BY <1>2, LiveSaved DEF Live
  <2>2. kip'[i] = [kip[i] EXCEPT !.name = n] /\ disk'[kip[i].dir] = [disk[kip[i].dir] EXCEPT !.name = n]
    BY <1>1, <1>2, <2>1
  <2>3. Saved([kip[i] EXCEPT !.name = n], [disk[kip[i].dir] EXCEPT !.name = n])
    BY <2>1, FieldSaved
  <2>4. /\ [kip[i] EXCEPT !.name = n].dir = kip[i].dir /\ [kip[i] EXCEPT !.name = n].name = n
        /\ [kip[i] EXCEPT !.name = n].deleted = kip[i].deleted
    BY <2>1, FieldKept
  <2> QED BY <2>1, <2>2, <2>3, <2>4 DEF Goes
<1>4. ChangedOnly(S)
  BY <1>1, <1>2, <1>3 DEF ChangedOnly
<1>5. NamesListed'
  <2>1. /\ \A i \in DOMAIN kip : kip[i].dir # None /\ kip[i].name # None
        /\ \A i, j \in DOMAIN kip : i # j => kip[i].name # kip[j].name
        /\ cpx = [i \in DOMAIN kip |-> kip[i].name]
    BY DEF SavedInv, NamesListed
  <2>2. /\ DOMAIN kip' = DOMAIN kip /\ \A i \in DOMAIN kip : kip'[i].dir = kip[i].dir
        /\ \A i \in DOMAIN kip : kip'[i].name = IF i \in S THEN n ELSE kip[i].name
    BY <1>1, <1>3
  <2>3. n # None /\ \A i \in DOMAIN kip : kip[i].name # n
    <3>1. n # None
      BY ContactsAssumption DEF Names
    <3> QED BY <1>1, <2>1, <3>1 DEF ContactExists
  <2>4. cpx' = [i \in DOMAIN kip |-> kip'[i].name]
    BY <1>1, <2>1, <2>2
  <2> QED BY <1>2, <2>1, <2>2, <2>3, <2>4 DEF NamesListed
<1> QED BY <1>4, <1>5, ChangeSaved

LEMMA HideSaved ==
  ASSUME KeysInv, SavedInv, NEW v \in BOOLEAN, NEW S \in SUBSET DOMAIN kip,
         \A i \in S : Live(i), cpx' = cpx,
         kip' = [i \in DOMAIN kip |-> IF i \in S THEN [kip[i] EXCEPT !.visible = v] ELSE kip[i]],
         disk' = [d \in Seconds |-> IF \E i \in S : kip[i].dir = d
                                    THEN [disk[d] EXCEPT !.hidden = ~ v] ELSE disk[d]]
  PROVE  SavedInv'
<1>1. ASSUME NEW i \in S
      PROVE  /\ kip'[i].dir = kip[i].dir /\ kip'[i].name = kip[i].name
             /\ Goes(kip[i], kip'[i], disk'[kip[i].dir])
  <2>1. /\ kip[i] \in Entry /\ kip[i].dir \in Seconds /\ disk[kip[i].dir] \in File
        /\ Saved(kip[i], disk[kip[i].dir]) /\ ~ kip[i].deleted
    BY LiveSaved DEF Live
  <2>2. /\ kip'[i] = [kip[i] EXCEPT !.visible = v]
        /\ disk'[kip[i].dir] = [disk[kip[i].dir] EXCEPT !.hidden = ~ v]
    BY <2>1
  <2>3. Saved(kip'[i], disk'[kip[i].dir])
    <3>1. CASE v = TRUE
      BY <2>1, <2>2, <3>1, FieldSaved
    <3>2. CASE v = FALSE
      BY <2>1, <2>2, <3>2, FieldSaved
    <3> QED BY <3>1, <3>2
  <2> QED BY <2>1, <2>2, <2>3, FieldKept DEF Goes
<1>2. ChangedOnly(S)
  BY <1>1 DEF ChangedOnly
<1>3. NamesListed'
  BY <1>1, NamesStay
<1> QED BY <1>2, <1>3, ChangeSaved

LEMMA VisibilitySaved ==
  ASSUME KeysInv, SavedInv, NEW c \in Touched, MakeInvisible(c) \/ MakeVisible(c)
  PROVE  SavedInv'
<1>1. CASE MakeInvisible(c)
  <2> DEFINE S == {i \in Named(c) : Live(i) /\ kip[i].visible}
  <2>1. /\ cpx' = cpx
        /\ kip' = [i \in DOMAIN kip |-> IF i \in S THEN [kip[i] EXCEPT !.visible = FALSE] ELSE kip[i]]
        /\ disk' = [d \in Seconds |-> IF \E i \in S : kip[i].dir = d
                                      THEN [disk[d] EXCEPT !.hidden = ~ FALSE] ELSE disk[d]]
    BY <1>1 DEF MakeInvisible, Change, HideFile
  <2>2. S \in SUBSET DOMAIN kip /\ \A i \in S : Live(i)
    BY NamedAre
  <2> HIDE DEF S
  <2> QED BY <2>1, <2>2, HideSaved
<1>2. CASE MakeVisible(c)
  <2> DEFINE S == {i \in Named(c) : Live(i) /\ ~ kip[i].visible}
  <2>1. /\ cpx' = cpx
        /\ kip' = [i \in DOMAIN kip |-> IF i \in S THEN [kip[i] EXCEPT !.visible = TRUE] ELSE kip[i]]
        /\ disk' = [d \in Seconds |-> IF \E i \in S : kip[i].dir = d
                                      THEN [disk[d] EXCEPT !.hidden = ~ TRUE] ELSE disk[d]]
    BY <1>2 DEF MakeVisible, Change
  <2>2. S \in SUBSET DOMAIN kip /\ \A i \in S : Live(i)
    BY NamedAre
  <2> HIDE DEF S
  <2> QED BY <2>1, <2>2, HideSaved
<1> QED BY <1>1, <1>2

LEMMA DeleteSaved ==
  ASSUME KeysInv, SavedInv, NEW c \in Touched, DeleteContact(c) PROVE SavedInv'
<1> DEFINE S == Deletable(c)
<1>1. /\ cpx' = cpx
      /\ kip' = [i \in DOMAIN kip |-> IF i \in S THEN [kip[i] EXCEPT !.deleted = TRUE] ELSE kip[i]]
      /\ disk' = [d \in Seconds |-> IF \E i \in S : kip[i].dir = d THEN NoDir ELSE disk[d]]
  BY DEF DeleteContact, Change
<1>2. S \subseteq DOMAIN kip
  BY NamedAre DEF Deletable
<1> HIDE DEF S
<1>3. ASSUME NEW i \in S
      PROVE  /\ kip'[i].dir = kip[i].dir /\ kip'[i].name = kip[i].name
             /\ Goes(kip[i], kip'[i], disk'[kip[i].dir])
  <2>1. kip[i] \in Entry /\ kip[i].dir \in Seconds
    BY <1>2, LiveSaved
  <2>2. kip'[i] = [kip[i] EXCEPT !.deleted = TRUE] /\ disk'[kip[i].dir] = NoDir
    BY <1>1, <1>2, <2>1
  <2> QED BY <2>1, <2>2, FieldKept DEF Goes
<1>4. ChangedOnly(S)
  BY <1>1, <1>2, <1>3 DEF ChangedOnly
<1>5. NamesListed'
  BY <1>1, <1>3, NamesStay
<1> QED BY <1>4, <1>5, ChangeSaved

-----------------------------------------------------------------------------
\* The entry that the first place of a name in cpx means.
LEMMA IndexIs ==
  ASSUME KeysInv, SavedInv, NEW c, NEW i \in Named(c)
  PROVE  IndexOf(c) = i /\ i \in DOMAIN kip /\ kip[i].name = c
<1>1. i \in DOMAIN kip /\ kip[i].name = c
  BY NamedAre
<1>2. i \in DOMAIN cpx /\ cpx[i] = c /\ \A j \in DOMAIN cpx : cpx[j] = c => j = i
  BY NamedAre DEF Named
<1>3. Len(kip) \in Nat /\ DOMAIN cpx = 1 .. Len(kip)
  BY DEF KeysInv, ContactsTypes, SavedInv, NamesListed
<1>4. \A j \in 1 .. i - 1 : cpx[j] # c
  <2>1. \A j \in 1 .. i - 1 : j \in 1 .. Len(kip) /\ j # i
    BY <1>2, <1>3
  <2> QED BY <1>2, <1>3, <2>1
<1>5. \E k \in DOMAIN cpx : cpx[k] = c /\ \A j \in 1 .. k - 1 : cpx[j] # c
  BY <1>2, <1>4
<1>6. IndexOf(c) \in DOMAIN cpx /\ cpx[IndexOf(c)] = c
  BY <1>5, Zenon DEF IndexOf
<1> QED BY <1>1, <1>2, <1>6

\* get_members after a change of the file: the entry and the file have the same list.
LEMMA MembersSaved ==
  ASSUME KeysInv, SavedInv, NEW g \in GroupNames, NEW c \in People \cup GroupNames,
         AddToGroup(g, c) \/ RemoveFromGroup(g, c)
  PROVE  SavedInv'
<1>1. PICK i \in DOMAIN kip : Live(i) /\ kip[i].group /\ kip[i].name = g
  BY DEF AddToGroup, RemoveFromGroup, IsGroup
<1>2. IndexOf(g) = i
  BY <1>1, NamedAre, IndexIs
<1>3. PICK m : ReloadMembers(i, m)
  BY <1>2 DEF AddToGroup, RemoveFromGroup
<1> DEFINE d0 == kip[i].dir
<1>4. /\ kip[i] \in Entry /\ d0 \in Seconds /\ disk[d0] \in File
      /\ Saved(kip[i], disk[d0]) /\ ~ kip[i].deleted
  BY <1>1, LiveSaved DEF Live
<1>5. /\ cpx' = cpx /\ kip' = [kip EXCEPT ![i].members = m]
      /\ disk' = [disk EXCEPT ![d0].members = m, ![d0].group = TRUE]
  BY <1>3 DEF ReloadMembers
<1>6. /\ DOMAIN kip' = DOMAIN kip /\ kip'[i] = [kip[i] EXCEPT !.members = m]
      /\ \A j \in DOMAIN kip : j # i => kip'[j] = kip[j]
  BY <1>1, <1>5
<1>7. /\ disk'[d0] = [disk[d0] EXCEPT !.members = m, !.group = TRUE]
      /\ \A d \in Seconds : d # d0 => disk'[d] = disk[d]
  <2>1. DOMAIN disk = Seconds
    BY DEF KeysInv, ContactsTypes
  <2> HIDE DEF d0
  <2> QED BY <1>4, <1>5, <2>1
<1>8. Saved([kip[i] EXCEPT !.members = m], [disk[d0] EXCEPT !.members = m, !.group = TRUE])
  <2> DEFINE f == disk[d0]  e == kip[i]
             h == [f EXCEPT !.members = m]
  <2>0. e.group
    BY <1>1
  <2> HIDE DEF f, e
  <2>1. f \in File /\ e \in Entry /\ Saved(e, f)
    BY <1>4 DEF f, e
  <2>2. [f EXCEPT !.members = m, !.group = TRUE] = [h EXCEPT !.group = TRUE]
    BY <2>1 DEF File
  <2>3. /\ h.there = f.there /\ h.name = f.name /\ h.members = m /\ h.hidden = f.hidden
        /\ h.sym = f.sym /\ h.priv = f.priv /\ h.pub = f.pub /\ h.addr = f.addr
        /\ DOMAIN h = DOMAIN f
    BY <2>1 DEF File
  <2> HIDE DEF h
  <2> DEFINE k == [h EXCEPT !.group = TRUE]
  <2>4. /\ k.there = f.there /\ k.name = f.name /\ k.members = m /\ k.hidden = f.hidden
        /\ k.sym = f.sym /\ k.priv = f.priv /\ k.pub = f.pub /\ k.addr = f.addr
        /\ k.group = TRUE
    BY <2>1, <2>3 DEF File
  <2> HIDE DEF k
  <2> DEFINE e2 == [e EXCEPT !.members = m]
  <2>5. /\ e2.name = e.name /\ e2.members = m /\ e2.visible = e.visible /\ e2.sym = e.sym
        /\ e2.priv = e.priv /\ e2.pub = e.pub /\ e2.addr = e.addr /\ e2.group = e.group
    BY <2>1 DEF Entry
  <2> HIDE DEF e2
  <2>6. Saved(e2, k)
    BY <2>0, <2>1, <2>4, <2>5 DEF Saved
  <2> QED BY <2>2, <2>6 DEF k, e2, f, e
<1>9. /\ kip'[i].dir = d0 /\ kip'[i].name = kip[i].name /\ kip'[i].deleted = kip[i].deleted
  BY <1>4, <1>6, FieldKept
<1>10. ChangedOnly({i})
  <2>1. Goes(kip[i], kip'[i], disk'[d0])
    <3>1. Saved(kip'[i], disk'[d0])
      BY <1>6, <1>7, <1>8
    <3> QED BY <1>4, <1>9, <3>1 DEF Goes
  <2>2. {i} \subseteq DOMAIN kip /\ DOMAIN kip' = DOMAIN kip
        /\ \A j \in DOMAIN kip : j \notin {i} => kip'[j] = kip[j]
    BY <1>1, <1>6
  <2>3. \A d \in Seconds : (\A j \in {i} : kip[j].dir # d) => disk'[d] = disk[d]
    BY <1>7
  <2>4. \A j \in {i} : kip'[j].dir = kip[j].dir /\ Goes(kip[j], kip'[j], disk'[kip[j].dir])
    BY <1>9, <2>1
  <2> QED BY <2>2, <2>3, <2>4 DEF ChangedOnly
<1>11. NamesListed'
  BY <1>5, <1>6, <1>9, NamesStay
<1> QED BY <1>10, <1>11, ChangeSaved

\* save_contact, after a public key or an address was set.
LEMMA WrittenSaved ==
  ASSUME NEW e0 \in Entry, NEW f \in File, Saved(e0, f), NEW e \in Entry,
         e.name = e0.name, e.group = e0.group, e.visible = e0.visible, e.members = e0.members,
         e.priv = e0.priv, e.sym = e0.sym
  PROVE  Saved(e, Written(f, e, NumWrites))
<1> DEFINE g == Written(f, e, NumWrites)
<1>1. /\ g.there = TRUE /\ g.name = e.name /\ g.hidden = ~ e.visible
      /\ g.group = (f.group \/ e.group)
      /\ g.members = IF e.group THEN e.members ELSE f.members
      /\ g.sym = IF e.sym # None THEN e.sym ELSE f.sym
      /\ g.priv = IF e.priv # None THEN e.priv ELSE f.priv
      /\ e.pub # None => g.pub = e.pub
      /\ g.addr = f.addr \cup e.addr
  BY DEF Written, NumWrites, Entry, File
<1> HIDE DEF g
<1>2. e.group \in BOOLEAN /\ f.group \in BOOLEAN
  BY DEF Entry, File
<1> QED BY <1>1, <1>2 DEF Saved, g

LEMMA UpdateSaved ==
  ASSUME KeysInv, SavedInv, NEW k, ValidKeyset(k), NEW e \in Entry, UpdateAndSave(k, e),
         e.dir = kip[k].dir, e.deleted = kip[k].deleted, e.name = kip[k].name,
         e.group = kip[k].group, e.visible = kip[k].visible, e.members = kip[k].members,
         e.priv = kip[k].priv, e.sym = kip[k].sym
  PROVE  SavedInv'
<1>1. /\ cpx' = cpx /\ kip' = [kip EXCEPT ![k] = e]
      /\ disk' = [disk EXCEPT ![e.dir] = Written(disk[e.dir], e, NumWrites)]
      /\ k \in DOMAIN kip /\ Live(k)
  BY DEF UpdateAndSave, SaveContact, ValidKeyset, Live
<1> DEFINE d0 == e.dir
           g == Written(disk[d0], e, NumWrites)
<1>2. /\ kip[k] \in Entry /\ d0 \in Seconds /\ disk[d0] \in File /\ Saved(kip[k], disk[d0])
      /\ ~ kip[k].deleted
  BY <1>1, LiveSaved DEF Live
<1>3. Saved(e, g)
  BY <1>2, WrittenSaved
<1> HIDE DEF g
<1>4. /\ disk'[d0] = g /\ \A d \in Seconds : d # d0 => disk'[d] = disk[d]
  <2>1. DOMAIN disk = Seconds
    BY DEF KeysInv, ContactsTypes
  <2>2. disk' = [disk EXCEPT ![d0] = g]
    BY <1>1 DEF g
  <2> HIDE DEF d0
  <2> QED BY <1>2, <2>1, <2>2
<1>5. DOMAIN kip' = DOMAIN kip /\ kip'[k] = e /\ \A j \in DOMAIN kip : j # k => kip'[j] = kip[j]
  BY <1>1
<1>6. ChangedOnly({k})
  BY <1>1, <1>2, <1>3, <1>4, <1>5 DEF ChangedOnly, Goes
<1>7. NamesListed'
  BY <1>1, <1>5, NamesStay
<1> QED BY <1>6, <1>7, ChangeSaved

LEMMA SetSaved ==
  ASSUME KeysInv, SavedInv, NEW k,
         (\E p \in PubKeys : SetContactPubkey(k, p)) \/ (\E side \in {"local", "remote"} : SetAddr(k, side))
  PROVE  SavedInv'
<1>1. ASSUME NEW p \in PubKeys, SetContactPubkey(k, p) PROVE SavedInv'
  <2> DEFINE e == [kip[k] EXCEPT !.pub = p]
  <2>1. ValidKeyset(k) /\ UpdateAndSave(k, e)
    BY <1>1 DEF SetContactPubkey, MaySetPubkey
  <2>2. kip[k] \in Entry
    BY <2>1, Kinds DEF ValidKeyset
  <2>3. /\ e \in Entry /\ e.dir = kip[k].dir /\ e.deleted = kip[k].deleted /\ e.name = kip[k].name
        /\ e.group = kip[k].group /\ e.visible = kip[k].visible /\ e.members = kip[k].members
        /\ e.priv = kip[k].priv /\ e.sym = kip[k].sym
    BY <2>2 DEF Entry
  <2> HIDE DEF e
  <2> QED BY <2>1, <2>3, UpdateSaved
<1>2. ASSUME NEW side \in {"local", "remote"}, SetAddr(k, side) PROVE SavedInv'
  <2> DEFINE e == [kip[k] EXCEPT !.addr = @ \cup {side}]
  <2>1. ValidKeyset(k) /\ UpdateAndSave(k, e)
    BY <1>2 DEF SetAddr
  <2>2. kip[k] \in Entry
    BY <2>1, Kinds DEF ValidKeyset
  <2>3. /\ e \in Entry /\ e.dir = kip[k].dir /\ e.deleted = kip[k].deleted /\ e.name = kip[k].name
        /\ e.group = kip[k].group /\ e.visible = kip[k].visible /\ e.members = kip[k].members
        /\ e.priv = kip[k].priv /\ e.sym = kip[k].sym
    BY <2>2 DEF Entry
  <2> HIDE DEF e
  <2> QED BY <2>1, <2>3, UpdateSaved
<1> QED BY <1>1, <1>2

\* The private key is moved between two files, or back.
LEMMA KeyMoved ==
  ASSUME NEW e \in Entry, NEW f \in File, Saved(e, f), NEW x, NEW y
  PROVE  Saved([e EXCEPT !.priv = x], [f EXCEPT !.priv = x, !.privInv = y])
<1> DEFINE h == [f EXCEPT !.priv = x]
<1>1. [f EXCEPT !.priv = x, !.privInv = y] = [h EXCEPT !.privInv = y]
  BY DEF File
<1>2. Saved([e EXCEPT !.priv = x], h) /\ DOMAIN h = DOMAIN f
  BY DEF Saved, Entry, File
<1> HIDE DEF h
<1> DEFINE k == [h EXCEPT !.privInv = y]
<1>3. /\ k.there = h.there /\ k.name = h.name /\ k.group = h.group /\ k.members = h.members
      /\ k.hidden = h.hidden /\ k.sym = h.sym /\ k.priv = h.priv /\ k.pub = h.pub /\ k.addr = h.addr
  BY <1>2 DEF File
<1> HIDE DEF k
<1>4. Saved([e EXCEPT !.priv = x], k)
  BY <1>2, <1>3 DEF Saved
<1> QED BY <1>1, <1>4 DEF k

LEMMA MarkSaved ==
  ASSUME KeysInv, SavedInv, NEW k, MarkInvalid(k) \/ MarkValid(k) PROVE SavedInv'
<1> DEFINE d0 == kip[k].dir
<1>1. k \in DOMAIN kip /\ Live(k) /\ cpx' = cpx
  BY DEF MarkInvalid, MarkValid, ValidKeyset, Live
<1>2. /\ kip[k] \in Entry /\ d0 \in Seconds /\ disk[d0] \in File /\ Saved(kip[k], disk[d0])
      /\ ~ kip[k].deleted
  BY <1>1, LiveSaved DEF Live
<1>3. \E x, y :
        /\ kip' = [i \in DOMAIN kip |-> IF i \in {k} THEN [kip[i] EXCEPT !.priv = x] ELSE kip[i]]
        /\ disk'[d0] = [disk[d0] EXCEPT !.priv = x, !.privInv = y]
        /\ \A d \in Seconds : d # d0 => disk'[d] = disk[d]
  <2>1. CASE MarkInvalid(k)
    <3>1. /\ kip' = [i \in DOMAIN kip |-> IF i \in {k} THEN [kip[i] EXCEPT !.priv = None] ELSE kip[i]]
          /\ disk' = [d \in Seconds |-> IF \E i \in {k} : kip[i].dir = d
                      THEN [disk[d] EXCEPT !.priv = None, !.privInv = disk[d].priv] ELSE disk[d]]
      BY <2>1 DEF MarkInvalid, Change
    <3>2. /\ disk'[d0] = [disk[d0] EXCEPT !.priv = None, !.privInv = disk[d0].priv]
          /\ \A d \in Seconds : d # d0 => disk'[d] = disk[d]
      BY <1>2, <3>1
    <3> QED BY <3>1, <3>2, Zenon
  <2>2. CASE MarkValid(k)
    <3>1. /\ kip' = [i \in DOMAIN kip |-> IF i \in {k} THEN [kip[i] EXCEPT !.priv = disk[d0].privInv]
                                          ELSE kip[i]]
          /\ disk' = [d \in Seconds |-> IF \E i \in {k} : kip[i].dir = d
                      THEN [disk[d] EXCEPT !.priv = disk[d0].privInv, !.privInv = None] ELSE disk[d]]
      BY <2>2 DEF MarkValid, Change
    <3>2. /\ disk'[d0] = [disk[d0] EXCEPT !.priv = disk[d0].privInv, !.privInv = None]
          /\ \A d \in Seconds : d # d0 => disk'[d] = disk[d]
      BY <1>2, <3>1
    <3> QED BY <3>1, <3>2, Zenon
  <2> QED BY <2>1, <2>2
<1>4. PICK x, y :
        /\ kip' = [i \in DOMAIN kip |-> IF i \in {k} THEN [kip[i] EXCEPT !.priv = x] ELSE kip[i]]
        /\ disk'[d0] = [disk[d0] EXCEPT !.priv = x, !.privInv = y]
        /\ \A d \in Seconds : d # d0 => disk'[d] = disk[d]
  BY <1>3
<1>5. Saved([kip[k] EXCEPT !.priv = x], [disk[d0] EXCEPT !.priv = x, !.privInv = y])
  BY <1>2, KeyMoved
<1>6. /\ DOMAIN kip' = DOMAIN kip /\ kip'[k] = [kip[k] EXCEPT !.priv = x]
      /\ \A j \in DOMAIN kip : j # k => kip'[j] = kip[j]
  BY <1>1, <1>4
<1>7. kip'[k].dir = d0 /\ kip'[k].name = kip[k].name /\ kip'[k].deleted = kip[k].deleted
  BY <1>2, <1>6, FieldKept
<1>8. ChangedOnly({k})
  BY <1>1, <1>2, <1>4, <1>5, <1>6, <1>7 DEF ChangedOnly, Goes
<1>9. NamesListed'
  BY <1>1, <1>6, <1>7, NamesStay
<1> QED BY <1>8, <1>9, ChangeSaved

-----------------------------------------------------------------------------
\* One entry gets, or loses, a symmetric key or a state, deleted or not.
OneGoes(n) ==
  /\ n \in DOMAIN kip /\ cpx' = cpx /\ DOMAIN kip' = DOMAIN kip
  /\ \A i \in DOMAIN kip : i # n => kip'[i] = kip[i]
  /\ \A d \in Seconds : d # kip[n].dir => disk'[d] = disk[d]
  /\ kip'[n].dir = kip[n].dir /\ kip'[n].name = kip[n].name /\ kip'[n].deleted = kip[n].deleted
  /\ Live(n) => Saved(kip'[n], disk'[kip[n].dir])
  /\ ~ Live(n) => disk'[kip[n].dir] = NoDir

LEMMA OneSaved == ASSUME KeysInv, SavedInv, NEW n, OneGoes(n) PROVE SavedInv'
<1>1. Goes(kip[n], kip'[n], disk'[kip[n].dir])
  BY DEF OneGoes, Goes, Live
<1>2. ChangedOnly({n})
  BY <1>1 DEF OneGoes, ChangedOnly
<1>3. NamesListed'
  BY NamesStay DEF OneGoes
<1> QED BY <1>2, <1>3, ChangeSaved

LEMMA SetSymmetricSaved ==
  ASSUME KeysInv, SavedInv, NEW c \in People, SetSymmetricKey(c) \/ SaveKeyState(c) PROVE SavedInv'
<1>1. CASE SetSymmetricKey(c)
  <2> DEFINE n == Find(c, WithSymmetric(c))
  <2>1. /\ cpx' = cpx /\ n \in DOMAIN kip
        /\ kip' = [i \in DOMAIN kip |-> IF i \in {n} THEN [kip[i] EXCEPT !.sym = c] ELSE kip[i]]
        /\ disk' = [d \in Seconds |-> IF \E i \in {n} : kip[i].dir = d
                      THEN IF disk[d].there THEN [disk[d] EXCEPT !.sym = c] ELSE disk[d]
                      ELSE disk[d]]
    BY <1>1 DEF SetSymmetricKey, Change, Storable
  <2> HIDE DEF n
  <2> DEFINE d0 == kip[n].dir
  <2>2. /\ kip[n] \in Entry /\ d0 \in Seconds /\ disk[d0] \in File
        /\ Live(n) => Saved(kip[n], disk[d0])
        /\ ~ Live(n) => disk[d0] = NoDir
    BY <2>1, LiveSaved
  <2>3. /\ kip'[n] = [kip[n] EXCEPT !.sym = c] /\ DOMAIN kip' = DOMAIN kip
        /\ \A i \in DOMAIN kip : i # n => kip'[i] = kip[i]
        /\ disk'[d0] = IF disk[d0].there THEN [disk[d0] EXCEPT !.sym = c] ELSE disk[d0]
        /\ \A d \in Seconds : d # d0 => disk'[d] = disk[d]
    BY <2>1, <2>2
  <2>4. ASSUME Live(n) PROVE Saved(kip'[n], disk'[d0])
    <3>1. Saved([kip[n] EXCEPT !.sym = c], [disk[d0] EXCEPT !.sym = c])
      BY <2>2, <2>4, FieldSaved
    <3>2. disk[d0].there
      BY <2>2, <2>4 DEF Saved
    <3> QED BY <2>3, <3>1, <3>2
  <2>5. ~ Live(n) => disk'[d0] = NoDir
    BY <2>2, <2>3, NoDirIsEmpty
  <2>6. kip'[n].dir = d0 /\ kip'[n].name = kip[n].name /\ kip'[n].deleted = kip[n].deleted
    BY <2>2, <2>3, FieldKept
  <2>7. OneGoes(n)
    BY <2>1, <2>3, <2>4, <2>5, <2>6 DEF OneGoes
  <2> QED BY <2>7, OneSaved
<1>2. CASE SaveKeyState(c)
  <2> DEFINE n == Find(c, WithState(c))
  <2>1. /\ cpx' = cpx /\ n \in DOMAIN kip
        /\ kip' = [i \in DOMAIN kip |-> IF i \in {n} THEN [kip[i] EXCEPT !.state = c] ELSE kip[i]]
        /\ disk' = [d \in Seconds |-> IF \E i \in {n} : kip[i].dir = d
                      THEN IF disk[d].there THEN [disk[d] EXCEPT !.state = c] ELSE disk[d]
                      ELSE disk[d]]
    BY <1>2 DEF SaveKeyState, Change, Storable
  <2> HIDE DEF n
  <2> DEFINE d0 == kip[n].dir
  <2>2. /\ kip[n] \in Entry /\ d0 \in Seconds /\ disk[d0] \in File
        /\ Live(n) => Saved(kip[n], disk[d0])
        /\ ~ Live(n) => disk[d0] = NoDir
    BY <2>1, LiveSaved
  <2>3. /\ kip'[n] = [kip[n] EXCEPT !.state = c] /\ DOMAIN kip' = DOMAIN kip
        /\ \A i \in DOMAIN kip : i # n => kip'[i] = kip[i]
        /\ disk'[d0] = IF disk[d0].there THEN [disk[d0] EXCEPT !.state = c] ELSE disk[d0]
        /\ \A d \in Seconds : d # d0 => disk'[d] = disk[d]
    BY <2>1, <2>2
  <2>4. ASSUME Live(n) PROVE Saved(kip'[n], disk'[d0])
    <3>1. Saved([kip[n] EXCEPT !.state = c], [disk[d0] EXCEPT !.state = c])
      BY <2>2, <2>4, FieldSaved
    <3>2. disk[d0].there
      BY <2>2, <2>4 DEF Saved
    <3> QED BY <2>3, <3>1, <3>2
  <2>5. ~ Live(n) => disk'[d0] = NoDir
    BY <2>2, <2>3, NoDirIsEmpty
  <2>6. kip'[n].dir = d0 /\ kip'[n].name = kip[n].name /\ kip'[n].deleted = kip[n].deleted
    BY <2>2, <2>3, FieldKept
  <2>7. OneGoes(n)
    BY <2>1, <2>3, <2>4, <2>5, <2>6 DEF OneGoes
  <2> QED BY <2>7, OneSaved
<1> QED BY <1>1, <1>2

\* A key that is moved to, or from, the file of invalidated keys.
SymmetricKeys(f, x, y) == [f EXCEPT !.sym = x, !.symInv = y]
LEMMA SymmetricMoved ==
  ASSUME NEW e \in Entry, NEW f \in File, NEW x, NEW y
  PROVE  /\ Saved(e, f) => Saved([e EXCEPT !.sym = x], SymmetricKeys(f, x, y))
         /\ f = NoDir /\ x = None /\ y = None => SymmetricKeys(f, x, y) = NoDir
<1> DEFINE h == [f EXCEPT !.sym = x]
<1>1. [f EXCEPT !.sym = x, !.symInv = y] = [h EXCEPT !.symInv = y]
  BY DEF File
<1>2. (Saved(e, f) => Saved([e EXCEPT !.sym = x], h)) /\ DOMAIN h = DOMAIN f
  BY DEF Saved, Entry, File
<1>3. f = NoDir /\ x = None => h = f
  BY NoDirIsEmpty DEF File
<1>4. f = NoDir /\ y = None => [f EXCEPT !.symInv = y] = f
  BY NoDirIsEmpty DEF File
<1> HIDE DEF h
<1> DEFINE k == [h EXCEPT !.symInv = y]
<1>5. /\ k.there = h.there /\ k.name = h.name /\ k.group = h.group /\ k.members = h.members
      /\ k.hidden = h.hidden /\ k.sym = h.sym /\ k.priv = h.priv /\ k.pub = h.pub /\ k.addr = h.addr
  BY <1>2 DEF File
<1>6. f = NoDir /\ x = None /\ y = None => k = NoDir
  BY <1>3, <1>4
<1> HIDE DEF k
<1>7. Saved(e, f) => Saved([e EXCEPT !.sym = x], k)
  BY <1>2, <1>5 DEF Saved
<1> QED BY <1>1, <1>6, <1>7 DEF k, SymmetricKeys

LEMMA FirstIsOne ==
  ASSUME KeysInv, NEW S \in SUBSET DOMAIN kip, S # {} PROVE FirstOf(S) \in S
<1>1. S \in SUBSET Nat
  BY DEF KeysInv, ContactsTypes
<1>2. \E i \in S : \A j \in S : i <= j
  BY <1>1, Least
<1> QED BY <1>2 DEF FirstOf

\* Entry n gets the key x, and its files the key x and the invalidated key y.
MovesSymmetric(n, x, y) ==
  /\ n \in DOMAIN kip /\ cpx' = cpx
  /\ ~ Live(n) => x = None /\ y = None
  /\ kip' = [i \in DOMAIN kip |-> IF i \in {n} THEN [kip[i] EXCEPT !.sym = x] ELSE kip[i]]
  /\ disk'[kip[n].dir] = SymmetricKeys(disk[kip[n].dir], x, y)
  /\ \A d \in Seconds : d # kip[n].dir => disk'[d] = disk[d]

LEMMA MoveSymmetricSaved ==
  ASSUME KeysInv, SavedInv, NEW n, NEW x, NEW y, MovesSymmetric(n, x, y) PROVE SavedInv'
<1>0. /\ n \in DOMAIN kip /\ cpx' = cpx /\ (~ Live(n) => x = None /\ y = None)
      /\ kip' = [i \in DOMAIN kip |-> IF i \in {n} THEN [kip[i] EXCEPT !.sym = x] ELSE kip[i]]
      /\ disk'[kip[n].dir] = SymmetricKeys(disk[kip[n].dir], x, y)
      /\ \A d \in Seconds : d # kip[n].dir => disk'[d] = disk[d]
  BY DEF MovesSymmetric
<1> DEFINE d0 == kip[n].dir
<1>1. /\ kip[n] \in Entry /\ d0 \in Seconds /\ disk[d0] \in File
      /\ Live(n) => Saved(kip[n], disk[d0])
      /\ ~ Live(n) => disk[d0] = NoDir
  BY <1>0, LiveSaved
<1>2. /\ kip'[n] = [kip[n] EXCEPT !.sym = x] /\ DOMAIN kip' = DOMAIN kip
      /\ \A i \in DOMAIN kip : i # n => kip'[i] = kip[i]
  BY <1>0
<1>3. /\ Saved(kip[n], disk[d0]) => Saved([kip[n] EXCEPT !.sym = x], SymmetricKeys(disk[d0], x, y))
      /\ disk[d0] = NoDir /\ x = None /\ y = None => SymmetricKeys(disk[d0], x, y) = NoDir
  BY <1>1, SymmetricMoved
<1>4. kip'[n].dir = d0 /\ kip'[n].name = kip[n].name /\ kip'[n].deleted = kip[n].deleted
  BY <1>1, <1>2, FieldKept
<1>5. OneGoes(n)
  BY <1>0, <1>1, <1>2, <1>3, <1>4 DEF OneGoes
<1> QED BY <1>5, OneSaved

LEMMA SymmetricSaved ==
  ASSUME KeysInv, SavedInv, NEW c \in People, InvalidateSymmetricKey(c) \/ RevalidateSymmetricKey(c)
  PROVE  SavedInv'
<1>1. CASE InvalidateSymmetricKey(c)
  <2> DEFINE n == FirstOf(WithSymmetric(c))
  <2>1. /\ cpx' = cpx
        /\ kip' = [i \in DOMAIN kip |-> IF i \in {n} THEN [kip[i] EXCEPT !.sym = None] ELSE kip[i]]
        /\ disk' = [d \in Seconds |-> IF \E i \in {n} : kip[i].dir = d
                      THEN [disk[d] EXCEPT !.sym = None, !.symInv = disk[d].sym] ELSE disk[d]]
    BY <1>1 DEF InvalidateSymmetricKey, Change
  <2>2. n \in DOMAIN kip
    <3>1. WithSymmetric(c) \in SUBSET DOMAIN kip /\ WithSymmetric(c) # {}
      BY <1>1 DEF InvalidateSymmetricKey, WithSymmetric, OfName
    <3> QED BY <3>1, FirstIsOne
  <2> HIDE DEF n
  <2>3. kip[n].dir \in Seconds /\ (~ Live(n) => disk[kip[n].dir] = NoDir)
    BY <2>2, LiveSaved
  <2>4. PICK y : y = disk[kip[n].dir].sym
    OBVIOUS
  <2>5. ~ Live(n) => y = None
    BY <2>3, <2>4, NoDirIsEmpty
  <2>6. /\ disk'[kip[n].dir] = SymmetricKeys(disk[kip[n].dir], None, y)
        /\ \A d \in Seconds : d # kip[n].dir => disk'[d] = disk[d]
    BY <2>1, <2>3, <2>4 DEF SymmetricKeys
  <2>7. MovesSymmetric(n, None, y)
    BY <2>1, <2>2, <2>5, <2>6 DEF MovesSymmetric
  <2> QED BY <2>7, MoveSymmetricSaved
<1>2. CASE RevalidateSymmetricKey(c)
  <2> DEFINE n == Negated(c)
  <2>1. /\ cpx' = cpx
        /\ kip' = [i \in DOMAIN kip |-> IF i \in {n}
                      THEN [kip[i] EXCEPT !.sym = disk[kip[i].dir].symInv] ELSE kip[i]]
        /\ disk' = [d \in Seconds |-> IF \E i \in {n} : kip[i].dir = d
                      THEN [disk[d] EXCEPT !.sym = disk[d].symInv, !.symInv = None] ELSE disk[d]]
        /\ n \in DOMAIN kip /\ disk[kip[n].dir].symInv # None
    BY <1>2 DEF RevalidateSymmetricKey, Change, Storable
  <2> HIDE DEF n
  <2>2. kip[n].dir \in Seconds /\ (~ Live(n) => disk[kip[n].dir] = NoDir)
    BY <2>1, LiveSaved
  <2>3. Live(n)
    BY <2>1, <2>2, NoDirIsEmpty
  <2>4. PICK x : x = disk[kip[n].dir].symInv
    OBVIOUS
  <2>5. kip' = [i \in DOMAIN kip |-> IF i \in {n} THEN [kip[i] EXCEPT !.sym = x] ELSE kip[i]]
    BY <2>1, <2>4
  <2>6. /\ disk'[kip[n].dir] = SymmetricKeys(disk[kip[n].dir], x, None)
        /\ \A d \in Seconds : d # kip[n].dir => disk'[d] = disk[d]
    BY <2>1, <2>2, <2>4 DEF SymmetricKeys
  <2>7. MovesSymmetric(n, x, None)
    BY <2>1, <2>3, <2>5, <2>6 DEF MovesSymmetric
  <2> QED BY <2>7, MoveSymmetricSaved
<1> QED BY <1>1, <1>2

-----------------------------------------------------------------------------
\* An entry that create_contact or create_group makes now, of which n files are written.
Fresh(e) ==
  /\ e \in Entry /\ e.dir = now /\ e.deleted = FALSE /\ e.members = <<>> /\ e.sym = None
  /\ e.name # None /\ ~ ContactExists(e.name) /\ RoomFor(e)

LEMMA FreshFacts ==
  ASSUME KeysInv, SavedInv, ~ Hurried, NEW e, Fresh(e)
  PROVE  /\ e \in Entry /\ e.dir = now /\ now \in Seconds /\ disk[now] = NoDir
         /\ \A i \in DOMAIN kip : kip[i].dir # now /\ kip[i].name # e.name
         /\ \A d \in Seconds : disk[d].there => disk[d].name # e.name
<1>1. e \in Entry /\ e.dir = now /\ now \in Seconds
  BY Kinds DEF Fresh
<1>2. ~ disk[now].there /\ \A i \in DOMAIN kip : kip[i].dir # now
  BY <1>1 DEF Fresh, RoomFor
<1>3. disk[now] = NoDir
  BY <1>1, <1>2 DEF SavedInv
<1>4. \A i \in DOMAIN kip : kip[i].name # e.name
  BY NamedAre DEF Fresh
<1>5. ASSUME NEW d \in Seconds, disk[d].there PROVE disk[d].name # e.name
  <2>1. disk[d] # NoDir
    BY <1>5, NoDirIsEmpty
  <2>2. PICK i \in DOMAIN kip : Saved(kip[i], disk[d])
    BY <2>1 DEF SavedInv
  <2> QED BY <1>4, <2>2 DEF Saved
<1> QED BY <1>1, <1>2, <1>3, <1>4, <1>5

LEMMA FreshWritten ==
  ASSUME NEW e \in Entry, e.members = <<>>, NEW n \in Nat, n > 0
  PROVE  LET g == Written(NoDir, e, n) IN
         /\ g.there /\ g.name = e.name /\ g.members = <<>>
         /\ n = NumWrites /\ e.sym = None => Saved(e, g)
<1> DEFINE g == Written(NoDir, e, n)
<1>1. /\ g.there = TRUE /\ g.name = e.name
      /\ g.group = (NoDir.group \/ (n >= 5 /\ e.group))
      /\ g.members = IF n >= 5 /\ e.group THEN e.members ELSE NoDir.members
      /\ g.sym = IF n >= 6 /\ e.sym # None THEN e.sym ELSE NoDir.sym
      /\ g.hidden = IF n >= 7 THEN ~ e.visible ELSE NoDir.hidden
      /\ g.priv = IF n >= 2 /\ e.priv # None THEN e.priv ELSE NoDir.priv
      /\ g.pub = IF n >= 3 /\ e.pub # None THEN e.pub ELSE NoDir.pub
      /\ g.addr = IF n >= 4 THEN NoDir.addr \cup e.addr ELSE NoDir.addr
  BY DEF Written
<1> HIDE DEF g
<1>2. g.members = <<>>
  BY <1>1, NoDirIsEmpty
<1>3. ASSUME n = NumWrites, e.sym = None PROVE Saved(e, g)
  <2>1. n = 7
    BY <1>3 DEF NumWrites
  <2>2. e.group \in BOOLEAN
    BY DEF Entry
  <2> QED BY <1>1, <1>2, <1>3, <2>1, <2>2, NoDirIsEmpty DEF Saved
<1> QED BY <1>1, <1>2, <1>3 DEF g

LEMMA AddEntrySaved ==
  ASSUME KeysInv, SavedInv, ~ Hurried, NEW e, Fresh(e), AddEntry(e) PROVE SavedInv'
<1> DEFINE m == Len(kip) + 1
           g == Written(NoDir, e, NumWrites)
<1>1. /\ e \in Entry /\ e.dir = now /\ now \in Seconds /\ disk[now] = NoDir
      /\ \A i \in DOMAIN kip : kip[i].dir # now /\ kip[i].name # e.name
  BY FreshFacts
<1>2. e.deleted = FALSE /\ e.members = <<>> /\ e.sym = None /\ e.name # None
  BY DEF Fresh
<1>3. /\ kip' = Append(kip, e) /\ cpx' = GenerateContacts(kip')
      /\ disk' = [disk EXCEPT ![now] = g]
  BY <1>1, <1>2 DEF AddEntry, SaveContact
<1>4. Saved(e, g)
  <2>1. NumWrites \in Nat /\ NumWrites > 0
    BY DEF NumWrites
  <2> QED BY <1>1, <1>2, <2>1, FreshWritten
<1> HIDE DEF g
<1>5. /\ disk'[now] = g /\ \A d \in Seconds : d # now => disk'[d] = disk[d]
  <2>1. DOMAIN disk = Seconds
    BY DEF KeysInv, ContactsTypes
  <2> QED BY <1>1, <1>3, <2>1
<1>6. /\ kip \in Seq(Entry) /\ Len(kip) \in Nat /\ DOMAIN kip = 1 .. Len(kip)
  BY DEF KeysInv, ContactsTypes
<1>7. /\ Len(kip') = m /\ DOMAIN kip' = 1 .. m /\ kip'[m] = e /\ m \in Nat
      /\ \A i \in DOMAIN kip : kip'[i] = kip[i]
  BY <1>1, <1>3, <1>6
<1>8. 1 .. m = DOMAIN kip \cup {m} /\ m \notin DOMAIN kip
  BY <1>6
<1> HIDE DEF m
<1>9. /\ \A i \in DOMAIN kip : kip[i].dir # None /\ kip[i].name # None
      /\ \A i, j \in DOMAIN kip : i # j => kip[i].name # kip[j].name
  BY DEF SavedInv, NamesListed
<1>10. now # None
  BY <1>1, ContactsAssumption
<1>11. /\ \A i \in 1 .. m : kip'[i].dir # None /\ kip'[i].name # None
       /\ \A i, j \in 1 .. m : i # j => kip'[i].name # kip'[j].name
  BY <1>1, <1>2, <1>7, <1>8, <1>9, <1>10
<1>12. cpx' = [i \in 1 .. m |-> kip'[i].name]
  <2>1. PICK es : es = kip'
    OBVIOUS
  <2>2. Len(es) = m /\ \A i \in 1 .. m : es[i].name # None
    BY <1>7, <1>11, <2>1
  <2>3. \A i, j \in 1 .. m : i # j => es[i].name # es[j].name
    BY <1>11, <2>1
  <2>4. GenerateContacts(es) = [i \in 1 .. m |-> es[i].name]
    BY <1>7, <2>2, <2>3, Generate
  <2> QED BY <1>3, <2>1, <2>4
<1>13. NamesListed'
  BY <1>7, <1>11, <1>12 DEF NamesListed
<1>14. ASSUME NEW i \in DOMAIN kip', Live(i)' PROVE Saved(kip'[i], disk'[kip'[i].dir])
  <2>1. CASE i = m
    BY <1>1, <1>4, <1>5, <1>7, <2>1
  <2>2. CASE i \in DOMAIN kip
    <3>1. kip'[i] = kip[i] /\ Live(i)
      BY <1>7, <1>14, <2>2 DEF Live
    <3>2. kip[i].dir \in Seconds /\ kip[i].dir # now /\ Saved(kip[i], disk[kip[i].dir])
      BY <1>1, <2>2, <3>1, LiveSaved
    <3> QED BY <1>5, <3>1, <3>2
  <2> QED BY <1>7, <1>8, <2>1, <2>2
<1>15. ASSUME NEW d \in Seconds, \A i \in DOMAIN kip' : Live(i)' => kip'[i].dir # d
       PROVE  disk'[d] = NoDir
  <2>1. d # now
    BY <1>1, <1>2, <1>7, <1>8, <1>15 DEF Live
  <2>2. \A i \in DOMAIN kip : Live(i) => kip[i].dir # d
    BY <1>7, <1>8, <1>15 DEF Live
  <2> QED BY <1>5, <2>1, <2>2 DEF SavedInv
<1> QED BY <1>13, <1>14, <1>15 DEF SavedInv

-----------------------------------------------------------------------------
\* The program stops, and starts from what has been written so far.
LEMMA AddHalfSaved ==
  ASSUME KeysInv, KeysInv', SavedInv, ~ Hurried, ~ Nameless, NEW e, Fresh(e), AddHalf(e)
  PROVE  SavedInv'
<1>1. /\ e \in Entry /\ e.dir = now /\ now \in Seconds /\ disk[now] = NoDir
      /\ \A d \in Seconds : disk[d].there => disk[d].name # e.name
  BY FreshFacts
<1>2. e.members = <<>> /\ e.name # None
  BY DEF Fresh
<1>3. PICK n \in Nat : n > 0 /\ disk' = [disk EXCEPT ![now] = Written(NoDir, e, n)]
  <2>1. PICK n \in 1 .. NumWrites - 1 : disk' = [disk EXCEPT ![e.dir] = Written(disk[e.dir], e, n)]
    BY DEF AddHalf
  <2>2. n \in Nat /\ n > 0
    BY DEF NumWrites
  <2> QED BY <1>1, <2>1, <2>2
<1> DEFINE g == Written(NoDir, e, n)
<1>4. g.there /\ g.name = e.name /\ g.members = <<>>
  BY <1>1, <1>2, <1>3, FreshWritten
<1> HIDE DEF g
<1>5. /\ disk'[now] = g /\ \A d \in Seconds : d # now => disk'[d] = disk[d]
  <2>1. DOMAIN disk = Seconds
    BY DEF KeysInv, ContactsTypes
  <2> QED BY <1>1, <1>3, <2>1 DEF g
<1>6. FilesNamed
  BY SavedFiles
<1>7. FilesNamed'
  BY <1>1, <1>2, <1>4, <1>5, <1>6 DEF FilesNamed
<1>8. disk' \in [Seconds -> File] /\ InitFromFile
  BY DEF KeysInv, ContactsTypes, AddHalf
<1> QED BY <1>7, <1>8, ReloadSaved

LEMMA DeleteHalfSaved ==
  ASSUME KeysInv, KeysInv', SavedInv, ~ Nameless, NEW c \in Touched, DeleteContactHalf(c)
  PROVE  SavedInv'
<1> DEFINE x == kip[IndexOf(c)].dir
           g(gone) == [y \in DOMAIN disk[x] |-> IF y \in gone THEN NoDir[y] ELSE disk[x][y]]
<1>1. PICK gone \in SUBSET {"priv", "pub", "addr", "hidden"} :
        disk' = [disk EXCEPT ![x] = g(gone)]
  <2>1. PICK gone \in SUBSET {"name", "priv", "pub", "addr", "hidden"} :
          "name" \notin gone /\ disk' = [disk EXCEPT ![x] = g(gone)]
    BY DEF DeleteContactHalf
  <2>2. gone \in SUBSET {"priv", "pub", "addr", "hidden"}
    BY <2>1
  <2> QED BY <2>1, <2>2
<1>2. Deletable(c) # {}
  BY DEF DeleteContactHalf
<1>3. PICK i \in Named(c) : Live(i)
  BY <1>2 DEF Deletable
<1>4. x \in Seconds /\ disk[x] \in File /\ Saved(kip[i], disk[x])
  BY <1>3, IndexIs, LiveSaved
<1>5. /\ g(gone).there = disk[x].there /\ g(gone).name = disk[x].name
      /\ g(gone).group = disk[x].group /\ g(gone).members = disk[x].members
  <2>1. {"there", "name", "group", "members"} \subseteq DOMAIN disk[x]
    BY <1>4 DEF File
  <2> QED BY <2>1
<1>6. disk[x].there
  BY <1>4 DEF Saved
<1> HIDE DEF x, g
<1>7. /\ disk'[x] = g(gone) /\ \A d \in Seconds : d # x => disk'[d] = disk[d]
  <2>1. DOMAIN disk = Seconds
    BY DEF KeysInv, ContactsTypes
  <2> QED BY <1>1, <1>4, <2>1
<1>8. FilesNamed
  BY SavedFiles
<1>9. FilesNamed'
  <2>1. \A d \in Seconds : /\ disk'[d].there = disk[d].there /\ disk'[d].name = disk[d].name
                           /\ disk'[d].group = disk[d].group /\ disk'[d].members = disk[d].members
    BY <1>5, <1>7
  <2>2. \A d \in Seconds : ~ disk[d].there => disk'[d] = NoDir
    BY <1>6, <1>7, <1>8 DEF FilesNamed
  <2> QED BY <1>8, <2>1, <2>2 DEF FilesNamed
<1>10. disk' \in [Seconds -> File] /\ InitFromFile
  BY DEF KeysInv, ContactsTypes, DeleteContactHalf
<1> QED BY <1>9, <1>10, ReloadSaved

LEMMA RestartSaved ==
  ASSUME KeysInv, KeysInv', SavedInv, RestartProgram PROVE SavedInv'
<1>1. FilesNamed'
  BY SavedFiles DEF RestartProgram, FilesNamed
<1> QED BY <1>1, ReloadSaved DEF RestartProgram, KeysInv, ContactsTypes

LEMMA CreateSaved ==
  ASSUME KeysInv, KeysInv', SavedInv, ~ Hurried, ~ Nameless, ~ MayReuse,
         NEW c \in People, NEW p \in PubKeys \cup {None},
         CreateContact(c, p) \/ CreateContactHalf(c, p)
  PROVE  SavedInv'
<1>1. PICK key \in Keys :
        /\ ~ ContactExists(c) /\ RoomFor(NewContact(c, key, p))
        /\ AddEntry(NewContact(c, key, p)) \/ AddHalf(NewContact(c, key, p))
  <2>1. CASE CreateContact(c, p)
    <3>1. PICK key \in Keys :
            /\ Free(c) /\ RoomFor(NewContact(c, key, p))
            /\ ~ ContactExists(c) => AddEntry(NewContact(c, key, p))
      BY <2>1, Zenon DEF CreateContact
    <3>2. ~ ContactExists(c)
      BY <3>1 DEF Free
    <3> QED BY <3>1, <3>2
  <2>2. CASE CreateContactHalf(c, p)
    <3>1. PICK key \in Keys : Free(c) /\ RoomFor(NewContact(c, key, p)) /\ AddHalf(NewContact(c, key, p))
      BY <2>2, Zenon DEF CreateContactHalf
    <3>2. ~ ContactExists(c)
      BY <3>1 DEF Free
    <3> QED BY <3>1, <3>2
  <2> QED BY <2>1, <2>2
<1> DEFINE e == NewContact(c, key, p)
<1>2. e \in Entry /\ e.dir = now /\ e.deleted = FALSE
  <2>1. NewEntryOf(e, key, p)
    BY NewContactType, Zenon
  <2> HIDE DEF e
  <2> QED BY <2>1 DEF NewEntryOf
<1>3. e.name = c /\ e.members = <<>> /\ e.sym = None
  BY DEF NewContact, Individual
<1>4. c # None
  BY ContactsAssumption DEF Names
<1>5. RoomFor(e) /\ (AddEntry(e) \/ AddHalf(e))
  BY <1>1
<1> HIDE DEF e
<1>6. Fresh(e)
  BY <1>1, <1>2, <1>3, <1>4, <1>5 DEF Fresh
<1> QED BY <1>5, <1>6, AddEntrySaved, AddHalfSaved

LEMMA CreateGroupSaved ==
  ASSUME KeysInv, KeysInv', SavedInv, ~ Hurried, ~ Nameless, NEW g \in GroupNames,
         CreateGroup(g) \/ CreateGroupHalf(g)
  PROVE  SavedInv'
<1> DEFINE e == NewGroup(g)
<1>1. e \in Entry /\ e.dir = now /\ e.deleted = FALSE
  BY NewGroupType
<1>2. e.name = g /\ e.members = <<>> /\ e.sym = None
  BY DEF NewGroup, Individual
<1>3. g # None
  BY ContactsAssumption DEF Names
<1>4. ~ ContactExists(g) /\ RoomFor(e) /\ (AddEntry(e) \/ AddHalf(e))
  BY DEF CreateGroup, CreateGroupHalf
<1> HIDE DEF e
<1>5. Fresh(e)
  BY <1>1, <1>2, <1>3, <1>4 DEF Fresh
<1> QED BY <1>4, <1>5, AddEntrySaved, AddHalfSaved

LEMMA SavedStep ==
  ASSUME KeysInv, KeysInv', SavedInv, ~ Hurried, ~ Nameless, ~ MayReuse, [ContactsNext]_contacts
  PROVE  SavedInv'
<1>1. ASSUME NEW c \in People, NEW p \in PubKeys \cup {None},
             CreateContact(c, p) \/ CreateContactHalf(c, p)
      PROVE  SavedInv'
  BY <1>1, CreateSaved
<1>2. ASSUME NEW g \in GroupNames, CreateGroup(g) \/ CreateGroupHalf(g) PROVE SavedInv'
  BY <1>2, CreateGroupSaved
<1>3. ASSUME NEW c \in Touched, NEW n \in NewNames, RenameContact(c, n) PROVE SavedInv'
  BY <1>3, RenameSaved
<1>4. ASSUME NEW c \in Touched,
             MakeInvisible(c) \/ MakeVisible(c) \/ DeleteContact(c) \/ DeleteContactHalf(c)
      PROVE  SavedInv'
  BY <1>4, VisibilitySaved, DeleteSaved, DeleteHalfSaved
<1>5. ASSUME NEW g \in GroupNames, NEW c \in People \cup GroupNames,
             AddToGroup(g, c) \/ RemoveFromGroup(g, c)
      PROVE  SavedInv'
  BY <1>5, MembersSaved
<1>6. ASSUME NEW k \in DOMAIN kip,
             \/ \E p \in PubKeys : SetContactPubkey(k, p)
             \/ \E side \in {"local", "remote"} : SetAddr(k, side)
             \/ MarkInvalid(k) \/ MarkValid(k)
      PROVE  SavedInv'
  BY <1>6, SetSaved, MarkSaved
<1>7. ASSUME NEW c \in People,
             \/ SetSymmetricKey(c) \/ SaveKeyState(c)
             \/ InvalidateSymmetricKey(c) \/ RevalidateSymmetricKey(c)
      PROVE  SavedInv'
  BY <1>7, SetSymmetricSaved, SymmetricSaved
<1>8. CASE CreateSpareKey \/ Tick \/ UNCHANGED contacts
  <2>1. UNCHANGED <<kip, cpx, disk>>
    BY <1>8 DEF CreateSpareKey, Tick, contacts
  <2> QED BY <2>1 DEF SavedInv, NamesListed, Live
<1>9. CASE RestartProgram
  BY <1>9, RestartSaved
<1> QED BY <1>1, <1>2, <1>3, <1>4, <1>5, <1>6, <1>7, <1>8, <1>9 DEF ContactsNext

(* (save_contact, read_key_info, init_from_file, generate_contacts) With no two *)
(* entries created in one second, no name of a hidden or deleted contact taken  *)
(* again and no stop before the name of a directory is written: for any number  *)
(* of contacts and groups, whatever is called and wherever else the program     *)
(* stops, every contact is what its files say, and the names searched are those *)
(* of the entries at the same places.                                           *)
THEOREM ContactsAsSaved ==
  ASSUME ~ Hurried, ~ Nameless, ~ MayReuse PROVE ContactsSpec => []AsSaved
<1>1. ContactsInit => SavedInv
  BY DEF ContactsInit, SavedInv, NamesListed, Live
<1>2. KeysInv /\ [ContactsNext]_contacts => KeysInv'
  BY ContactsStep
<1>3. KeysInv /\ KeysInv' /\ SavedInv /\ [ContactsNext]_contacts => SavedInv'
  BY SavedStep
<1> QED BY <1>1, <1>2, <1>3, ContactsStart, SavedIsAsSaved, PTL DEF ContactsSpec
-----------------------------------------------------------------------------
(***************************************************************************)
(* The saved messages.  What the cache must have is a function of the      *)
(* records in the files: one message for every record of a message, acked  *)
(* if the file of its keyset has the ack, and with the gap before it among *)
(* the received numbers.                                                   *)
(***************************************************************************)
RecordType == [type : {"sent", "rcvd", "ack"}, seq : Nat, time : Nat]
MessageType == [k : Keysets, type : {"sent", "rcvd"}, seq : Nat, time : Nat,
                missing : Int, acked : BOOLEAN]
FilesType == [Keysets -> Seq(RecordType)]

\* The messages in the files of some keysets, and the received numbers among them.
Pairs(files, K) ==
  {p \in K \X RecordType : p[2].type # "ack" /\ \E i \in 1 .. Len(files[p[1]]) : files[p[1]][i] = p[2]}
Numbers(R, k) == {x \in Nat : \E p \in R : p[1] = k /\ p[2].type = "rcvd" /\ p[2].seq = x}
Before(S, x) == Max({0} \cup {y \in S : y < x})
AckedIn(f, x) == \E i \in 1 .. Len(f) : f[i].type = "ack" /\ f[i].seq = x

\* e is the message of the pair p.
OfPair(e, p) == e.k = p[1] /\ e.type = p[2].type /\ e.seq = p[2].seq /\ e.time = p[2].time
Same(e, d) == e.k = d.k /\ e.type = d.type /\ e.seq = d.seq

\* m has one message for each pair of R.
Holding(m, R) ==
  /\ m \in Seq(MessageType)
  /\ \A i \in 1 .. Len(m) : \E p \in R : OfPair(m[i], p)
  /\ \A p \in R : \E i \in 1 .. Len(m) : OfPair(m[i], p)
  /\ \A i, j \in 1 .. Len(m) : Same(m[i], m[j]) => i = j

AckIs(e, files) == e.acked = (e.type = "sent" /\ AckedIn(files[e.k], e.seq))
GapIs(e, R) ==
  e.missing = IF e.type = "rcvd" THEN e.seq - (Before(Numbers(R, e.k), e.seq) + 1) ELSE 0

Full(m, R, files) ==
  Holding(m, R) /\ \A i \in 1 .. Len(m) : AckIs(m[i], files) /\ GapIs(m[i], R)

\* No two records of a file are of one message.
OnePerMessage(f) ==
  \A i, j \in 1 .. Len(f) :
    f[i].type # "ack" /\ f[i].type = f[j].type /\ f[i].seq = f[j].seq => i = j

LEMMA GreatestIs ==
  ASSUME NEW S \in SUBSET Nat, S # {}, NEW b \in Nat, \A x \in S : x <= b
  PROVE  Max(S) \in S /\ \A x \in S : x <= Max(S)
<1> DEFINE U == {u \in Nat : \A x \in S : x <= u}
<1>1. U \in SUBSET Nat /\ U # {}
  OBVIOUS
<1> HIDE DEF U
<1>2. PICK u \in U : \A v \in U : u <= v
  BY <1>1, Least
<1>3. u \in Nat /\ \A x \in S : x <= u
  BY <1>2 DEF U
<1>4. u \in S
  <2> SUFFICES ASSUME u \notin S PROVE FALSE
    OBVIOUS
  <2>1. \A x \in S : x <= u - 1
    BY <1>3
  <2>2. PICK x \in S : TRUE
    OBVIOUS
  <2>3. u - 1 \in Nat
    BY <1>3, <2>1, <2>2
  <2>4. u - 1 \in U
    BY <2>1, <2>3 DEF U
  <2>5. u <= u - 1
    BY <1>2, <2>4
  <2> QED BY <1>3, <2>5
<1>5. \E x \in S : \A y \in S : x >= y
  BY <1>3, <1>4
<1>6. Max(S) \in S /\ \A y \in S : Max(S) >= y
  BY <1>5 DEF Max
<1> QED BY <1>6

LEMMA BeforeIs ==
  ASSUME NEW S \in SUBSET Nat, NEW x \in Nat
  PROVE  Before(S, x) \in Nat
<1> DEFINE T == {0} \cup {y \in S : y < x}
<1>1. T \in SUBSET Nat /\ 0 \in T
  <2>1. \A y \in S : y \in Nat
    OBVIOUS
  <2>2. 0 \in Nat /\ 0 \in T
    OBVIOUS
  <2>3. \A y \in T : y = 0 \/ y \in S
    OBVIOUS
  <2> HIDE DEF T
  <2> QED BY <2>1, <2>2, <2>3
<1>2. \A y \in T : y <= x
  <2> TAKE y \in T
  <2>1. y = 0 \/ (y \in S /\ y < x)
    OBVIOUS
  <2> QED BY <2>1
<1> HIDE DEF T
<1>3. Max(T) \in T
  BY <1>1, <1>2, GreatestIs
<1> QED BY <1>1, <1>3 DEF T, Before

LEMMA NumbersAre == ASSUME NEW R, NEW k PROVE Numbers(R, k) \in SUBSET Nat
BY DEF Numbers

LEMMA HeldTypes ==
  ASSUME NEW R, NEW m, Holding(m, R)
  PROVE  /\ m \in Seq(MessageType) /\ Len(m) \in Nat /\ DOMAIN m = 1 .. Len(m)
         /\ \A j \in 1 .. Len(m) :
              /\ m[j] \in MessageType /\ m[j].k \in Keysets /\ m[j].type \in {"sent", "rcvd"}
              /\ m[j].seq \in Nat /\ m[j].time \in Nat
<1>1. m \in Seq(MessageType)
  BY DEF Holding
<1>2. \A j \in 1 .. Len(m) : m[j] \in MessageType
  BY <1>1
<1> QED BY <1>1, <1>2 DEF MessageType

(* set_missing looks among the received messages for what the records say.   *)
LEMMA PrevSeqIs ==
  ASSUME NEW R, NEW m, Holding(m, R), NEW k, NEW i \in 1 .. Len(m)
  PROVE  PrevSeq(m, k, i) = Before(Numbers(R, k), m[i].seq)
<1> DEFINE S == {m[j].seq : j \in {h \in Received(m, k) : m[h].seq < m[i].seq}}
           T == {y \in Numbers(R, k) : y < m[i].seq}
<1>1. DOMAIN m = 1 .. Len(m) /\ \A j \in 1 .. Len(m) : m[j].seq \in Nat
  BY HeldTypes
<1>2. ASSUME NEW y \in S PROVE y \in T
  <2>1. PICK j \in 1 .. Len(m) : m[j].k = k /\ m[j].type = "rcvd" /\ y = m[j].seq /\ y < m[i].seq
    BY <1>1 DEF Received
  <2>2. PICK p \in R : OfPair(m[j], p)
    BY <2>1 DEF Holding
  <2>3. p[1] = k /\ p[2].type = "rcvd" /\ p[2].seq = y /\ y \in Nat
    BY <1>1, <2>1, <2>2 DEF OfPair
  <2> QED BY <2>1, <2>3 DEF Numbers
<1>3. ASSUME NEW y \in T PROVE y \in S
  <2>1. PICK p \in R : p[1] = k /\ p[2].type = "rcvd" /\ p[2].seq = y
    BY DEF Numbers
  <2>2. PICK j \in 1 .. Len(m) : OfPair(m[j], p)
    BY <2>1 DEF Holding
  <2>3. m[j].k = k /\ m[j].type = "rcvd" /\ m[j].seq = y /\ y < m[i].seq
    BY <2>1, <2>2 DEF OfPair
  <2>4. j \in {h \in Received(m, k) : m[h].seq < m[i].seq}
    BY <1>1, <2>3 DEF Received
  <2> QED BY <2>3, <2>4
<1>4. S = T
  BY <1>2, <1>3
<1> QED BY <1>4 DEF PrevSeq, Before

(***************************************************************************)
(* The loops over the messages change only whether a message is acked and  *)
(* the gap before it.                                                      *)
(***************************************************************************)
\* d is m but for what is said of acks and gaps.
Alike(m, d) ==
  /\ d \in Seq(MessageType) /\ Len(d) = Len(m)
  /\ \A i \in 1 .. Len(m) : Same(d[i], m[i]) /\ d[i].time = m[i].time

LEMMA AlikeHolds ==
  ASSUME NEW R, NEW m, Holding(m, R), NEW d, Alike(m, d)
  PROVE  Holding(d, R)
<1>1. \A i \in 1 .. Len(m) : \A p : OfPair(m[i], p) <=> OfPair(d[i], p)
  BY DEF Alike, Same, OfPair
<1>2. \A i, j \in 1 .. Len(m) : Same(d[i], d[j]) => Same(m[i], m[j])
  BY DEF Alike, Same
<1>3. \A i \in 1 .. Len(m) : \E p \in R : OfPair(d[i], p)
  BY <1>1 DEF Holding
<1>4. \A p \in R : \E i \in 1 .. Len(m) : OfPair(d[i], p)
  BY <1>1 DEF Holding
<1> QED BY <1>2, <1>3, <1>4 DEF Holding, Alike

LEMMA AckedMessage ==
  ASSUME NEW e \in MessageType
  PROVE  LET d == [e EXCEPT !.acked = TRUE]
         IN  d \in MessageType /\ Same(d, e) /\ d.time = e.time /\ d.missing = e.missing /\ d.acked = TRUE
BY DEF MessageType, Same

LEMMA GapMessage ==
  ASSUME NEW e \in MessageType, NEW x \in Int
  PROVE  LET d == [e EXCEPT !.missing = x]
         IN  d \in MessageType /\ Same(d, e) /\ d.time = e.time /\ d.acked = e.acked /\ d.missing = x
BY DEF MessageType, Same

\* d is m with some messages acked.
AckSome(m, d, A) ==
  d = [i \in 1 .. Len(m) |-> IF i \in A THEN [m[i] EXCEPT !.acked = TRUE] ELSE m[i]]

SomeAcked(m, d, A) ==
  /\ Alike(m, d)
  /\ \A i \in 1 .. Len(m) : /\ d[i].missing = m[i].missing
                           /\ d[i].acked = IF i \in A THEN TRUE ELSE m[i].acked

LEMMA AckSomeIs ==
  ASSUME NEW m \in Seq(MessageType), NEW A, NEW d, AckSome(m, d, A)
  PROVE  SomeAcked(m, d, A)
<1> DEFINE n == Len(m)
           New(i) == IF i \in A THEN [m[i] EXCEPT !.acked = TRUE] ELSE m[i]
<1>1. n \in Nat /\ \A i \in 1 .. n : m[i] \in MessageType
  OBVIOUS
<1>2. d = [i \in 1 .. n |-> New(i)]
  BY Zenon DEF AckSome
<1> HIDE DEF n
<1>3. \A i \in 1 .. n : /\ New(i) \in MessageType /\ Same(New(i), m[i]) /\ New(i).time = m[i].time
                       /\ New(i).missing = m[i].missing
                       /\ New(i).acked = IF i \in A THEN TRUE ELSE m[i].acked
  <2> TAKE i \in 1 .. n
  <2>1. CASE i \in A
    <3>1. New(i) = [m[i] EXCEPT !.acked = TRUE]
      BY <2>1
    <3> HIDE DEF New
    <3> QED BY <1>1, <2>1, <3>1, AckedMessage
  <2>2. CASE i \notin A
    <3>1. New(i) = m[i]
      BY <2>2
    <3> HIDE DEF New
    <3> QED BY <1>1, <2>2, <3>1 DEF Same
  <2> QED BY <2>1, <2>2
<1>4. d \in Seq(MessageType) /\ Len(d) = n /\ \A i \in 1 .. n : d[i] = New(i)
  <2>1. \A i \in 1 .. n : New(i) \in MessageType
    BY <1>3, Zenon
  <2> HIDE DEF New
  <2> QED BY <1>1, <1>2, <2>1, IsASeq
<1> HIDE DEF New
<1> QED BY <1>3, <1>4 DEF SomeAcked, Alike, n

(* ack_all_messages sets what is true of the file, if nothing else was set.  *)
LEMMA AckAllIs ==
  ASSUME NEW R, NEW m, Holding(m, R), NEW files \in FilesType, NEW k \in Keysets,
         \A i \in 1 .. Len(m) :
           IF m[i].k = k THEN m[i].acked => AckIs(m[i], files) ELSE AckIs(m[i], files)
  PROVE  LET d == AckAllMessages(m, k, files[k])
         IN  /\ Alike(m, d) /\ Holding(d, R)
             /\ \A i \in 1 .. Len(m) : AckIs(d[i], files) /\ d[i].missing = m[i].missing
<1> DEFINE f == files[k]
           n == Len(m)
           acks == {f[j].seq : j \in {h \in DOMAIN f : f[h].type = "ack"}}
           d == AckAllMessages(m, k, f)
           A == {i \in 1 .. n : m[i].type = "sent" /\ m[i].k = k /\ m[i].seq \in acks}
<1>1. n \in Nat /\ DOMAIN m = 1 .. n /\ m \in Seq(MessageType) /\ \A i \in 1 .. n : m[i] \in MessageType
  BY HeldTypes
<1>2. \A x : x \in acks <=> AckedIn(f, x)
  <2>1. DOMAIN f = 1 .. Len(f)
    BY DEF FilesType
  <2> QED BY <2>1 DEF AckedIn
<1>3. d = [i \in 1 .. n |-> IF m[i].type = "sent" /\ m[i].k = k /\ m[i].seq \in acks
                           THEN [m[i] EXCEPT !.acked = TRUE] ELSE m[i]]
  BY <1>1, Zenon DEF AckAllMessages
<1> HIDE DEF acks, d, n, f
<1>4. AckSome(m, d, A)
  <2>1. \A i \in 1 .. n : i \in A <=> m[i].type = "sent" /\ m[i].k = k /\ m[i].seq \in acks
    OBVIOUS
  <2> HIDE DEF A
  <2> QED BY <1>3, <2>1 DEF AckSome, n
<1>5. /\ Alike(m, d)
      /\ \A i \in 1 .. n : /\ d[i].missing = m[i].missing
                           /\ d[i].acked = IF i \in A THEN TRUE ELSE m[i].acked
  <2> HIDE DEF A
  <2>1. SomeAcked(m, d, A)
    BY <1>1, <1>4, AckSomeIs, Zenon
  <2> QED BY <2>1 DEF SomeAcked, n
<1>6. ASSUME NEW i \in 1 .. n PROVE AckIs(d[i], files)
  <2>1. d[i].k = m[i].k /\ d[i].type = m[i].type /\ d[i].seq = m[i].seq
    BY <1>5 DEF Alike, Same, n
  <2>2. d[i].acked = IF i \in A THEN TRUE ELSE m[i].acked
    BY <1>5
  <2>3. m[i].acked \in BOOLEAN
    BY <1>1 DEF MessageType
  <2>4. CASE m[i].k = k
    <3>1. m[i].acked => AckIs(m[i], files)
      BY <2>4 DEF n
    <3>2. i \in A <=> m[i].type = "sent" /\ AckedIn(f, m[i].seq)
      BY <1>2, <2>4
    <3> HIDE DEF A
    <3> QED BY <2>1, <2>2, <2>3, <2>4, <3>1, <3>2 DEF AckIs, f
  <2>5. CASE m[i].k # k
    <3>1. AckIs(m[i], files)
      BY <2>5 DEF n
    <3> QED BY <2>1, <2>2, <2>5, <3>1 DEF AckIs
  <2> QED BY <2>4, <2>5
<1> QED BY <1>5, <1>6, AlikeHolds DEF d, n, f

(* set_missing sets the gaps of one keyset.                                  *)
LEMMA SetMissingIs ==
  ASSUME NEW R, NEW m, Holding(m, R), NEW k \in Keysets,
         \A i \in 1 .. Len(m) : m[i].k # k \/ m[i].type # "rcvd" => GapIs(m[i], R)
  PROVE  LET d == SetMissing(m, k)
         IN  /\ Holding(d, R)
             /\ Alike(m, d)
             /\ \A i \in 1 .. Len(m) : GapIs(d[i], R) /\ d[i].acked = m[i].acked
<1> DEFINE n == Len(m)
           d == SetMissing(m, k)
           G(i) == m[i].k = k /\ m[i].type = "rcvd"
           x(i) == m[i].seq - (PrevSeq(m, k, i) + 1)
           New(i) == IF G(i) THEN [m[i] EXCEPT !.missing = x(i)] ELSE m[i]
<1>1. n \in Nat /\ DOMAIN m = 1 .. n /\ \A i \in 1 .. n : m[i] \in MessageType /\ m[i].seq \in Nat
  BY HeldTypes
<1>2. \A i \in 1 .. n : x(i) = m[i].seq - (Before(Numbers(R, k), m[i].seq) + 1) /\ x(i) \in Int
  BY <1>1, PrevSeqIs, BeforeIs, NumbersAre
<1>3. d = [i \in 1 .. n |-> New(i)]
  <2>1. \A i \in 1 .. n : i \in Received(m, k) <=> G(i)
    BY <1>1 DEF Received
  <2>2. d = [i \in 1 .. n |-> IF i \in Received(m, k) THEN [m[i] EXCEPT !.missing = x(i)] ELSE m[i]]
    BY <1>1, Zenon DEF SetMissing
  <2> HIDE DEF G, x, d
  <2> QED BY <2>1, <2>2
<1> HIDE DEF d, n, x
<1>4. \A i \in 1 .. n : /\ New(i) \in MessageType /\ Same(New(i), m[i]) /\ New(i).time = m[i].time
                       /\ New(i).acked = m[i].acked
                       /\ New(i).missing = IF G(i) THEN x(i) ELSE m[i].missing
  <2> TAKE i \in 1 .. n
  <2>1. CASE G(i)
    <3>1. New(i) = [m[i] EXCEPT !.missing = x(i)]
      BY <2>1
    <3> HIDE DEF New, G
    <3> QED BY <1>1, <1>2, <2>1, <3>1, GapMessage
  <2>2. CASE ~ G(i)
    <3>1. New(i) = m[i]
      BY <2>2
    <3> HIDE DEF New, G
    <3> QED BY <1>1, <2>2, <3>1 DEF Same
  <2> QED BY <2>1, <2>2
<1>5. d \in Seq(MessageType) /\ Len(d) = n /\ \A i \in 1 .. n : d[i] = New(i)
  <2> HIDE DEF New
  <2> QED BY <1>1, <1>3, <1>4, IsASeq
<1>6. Alike(m, d)
  <2> HIDE DEF New
  <2> QED BY <1>4, <1>5 DEF Alike, n
<1>7. ASSUME NEW i \in 1 .. n PROVE GapIs(d[i], R) /\ d[i].acked = m[i].acked
  <2>1. /\ d[i].k = m[i].k /\ d[i].type = m[i].type /\ d[i].seq = m[i].seq
        /\ d[i].acked = m[i].acked /\ d[i].missing = IF G(i) THEN x(i) ELSE m[i].missing
    <3> HIDE DEF New, G
    <3> QED BY <1>4, <1>5 DEF Same
  <2>2. CASE G(i)
    BY <1>2, <2>1, <2>2 DEF GapIs
  <2>3. CASE ~ G(i)
    <3>1. GapIs(m[i], R)
      BY <2>3 DEF n
    <3> QED BY <2>1, <2>3, <3>1 DEF GapIs
  <2> QED BY <2>1, <2>2, <2>3
<1> QED BY <1>6, <1>7, AlikeHolds DEF d, n

(***************************************************************************)
(* add_all_messages puts one message more between the ones it has.         *)
(***************************************************************************)
\* d is m with e put in after the first messages.
Put(m, d, e, at) ==
  /\ d \in Seq(MessageType) /\ Len(d) = Len(m) + 1 /\ at \in 0 .. Len(m) /\ d[at + 1] = e
  /\ \A i \in 1 .. Len(m) : IF i <= at THEN d[i] = m[i] ELSE d[i + 1] = m[i]

LEMMA PutIs ==
  ASSUME NEW m, Len(m) \in Nat, NEW d, NEW e, NEW at, Put(m, d, e, at)
  PROVE  /\ \A j \in 1 .. Len(d) : j # at + 1 =>
              \E i \in 1 .. Len(m) : d[j] = m[i] /\ j = IF i <= at THEN i ELSE i + 1
         /\ \A i \in 1 .. Len(m) : \E j \in 1 .. Len(d) : d[j] = m[i]
         /\ at + 1 \in 1 .. Len(d)
<1>1. Len(m) \in Nat /\ Len(d) = Len(m) + 1 /\ at \in 0 .. Len(m)
  BY DEF Put
<1>2. ASSUME NEW j \in 1 .. Len(d), j # at + 1
      PROVE  \E i \in 1 .. Len(m) : d[j] = m[i] /\ j = IF i <= at THEN i ELSE i + 1
  <2>1. CASE j <= at
    <3>1. j \in 1 .. Len(m)
      BY <1>1, <2>1
    <3> QED BY <2>1, <3>1 DEF Put
  <2>2. CASE ~ j <= at
    <3> DEFINE i == j - 1
    <3>1. i \in 1 .. Len(m) /\ ~ i <= at /\ j = i + 1
      BY <1>1, <1>2, <2>2
    <3> HIDE DEF i
    <3> QED BY <3>1 DEF Put
  <2> QED BY <2>1, <2>2
<1>3. at + 1 \in 1 .. Len(d)
  BY <1>1
<1>4. ASSUME NEW i \in 1 .. Len(m) PROVE \E j \in 1 .. Len(d) : d[j] = m[i]
  <2>1. CASE i <= at
    <3>1. i \in 1 .. Len(d)
      BY <1>1
    <3> QED BY <2>1, <3>1 DEF Put
  <2>2. CASE ~ i <= at
    <3>1. i + 1 \in 1 .. Len(d)
      BY <1>1
    <3> QED BY <2>2, <3>1 DEF Put
  <2> QED BY <2>1, <2>2
<1> QED BY <1>2, <1>3, <1>4

\* No pair of R is of the message of p.
NewIn(p, R) ==
  \A q \in R : ~ (q[1] = p[1] /\ q[2].type = p[2].type /\ q[2].seq = p[2].seq)

LEMMA PutHolds ==
  ASSUME NEW R, NEW m, Holding(m, R), NEW d, NEW e, NEW at, Put(m, d, e, at),
         NEW p, OfPair(e, p), NewIn(p, R)
  PROVE  Holding(d, R \cup {p})
<1>1. Len(m) \in Nat
  BY HeldTypes
<1>2. \A j \in 1 .. Len(d) : j # at + 1 =>
        \E i \in 1 .. Len(m) : d[j] = m[i] /\ j = IF i <= at THEN i ELSE i + 1
  BY <1>1, PutIs
<1>3. \A i \in 1 .. Len(m) : \E j \in 1 .. Len(d) : d[j] = m[i]
  BY <1>1, PutIs
<1>4. at + 1 \in 1 .. Len(d) /\ d[at + 1] = e /\ d \in Seq(MessageType)
  BY <1>1, PutIs DEF Put
<1>5. \A j \in 1 .. Len(d) : \E q \in R \cup {p} : OfPair(d[j], q)
  <2> TAKE j \in 1 .. Len(d)
  <2>1. CASE j = at + 1
    BY <1>4, <2>1
  <2>2. CASE j # at + 1
    <3>1. PICK i \in 1 .. Len(m) : d[j] = m[i]
      BY <1>2, <2>2
    <3>2. PICK q \in R : OfPair(m[i], q)
      BY DEF Holding
    <3> QED BY <3>1, <3>2
  <2> QED BY <2>1, <2>2
<1>6. \A q \in R \cup {p} : \E j \in 1 .. Len(d) : OfPair(d[j], q)
  <2> TAKE q \in R \cup {p}
  <2>1. CASE q = p
    BY <1>4, <2>1
  <2>2. CASE q \in R
    <3>1. PICK i \in 1 .. Len(m) : OfPair(m[i], q)
      BY <2>2 DEF Holding
    <3>2. PICK j \in 1 .. Len(d) : d[j] = m[i]
      BY <1>3
    <3> QED BY <3>1, <3>2
  <2> QED BY <2>1, <2>2
<1>7. \A i \in 1 .. Len(m) : ~ Same(m[i], e)
  <2> TAKE i \in 1 .. Len(m)
  <2>1. PICK q \in R : OfPair(m[i], q)
    BY DEF Holding
  <2> QED BY <2>1 DEF NewIn, OfPair, Same
<1>8. \A j, l \in 1 .. Len(d) : Same(d[j], d[l]) => j = l
  <2> SUFFICES ASSUME NEW j \in 1 .. Len(d), NEW l \in 1 .. Len(d), Same(d[j], d[l])
               PROVE  j = l
    OBVIOUS
  <2>1. Same(d[l], d[j])
    BY DEF Same
  <2>2. CASE j = at + 1
    <3> SUFFICES ASSUME l # at + 1 PROVE FALSE
      BY <2>2
    <3>1. PICK i \in 1 .. Len(m) : d[l] = m[i]
      BY <1>2
    <3> QED BY <1>4, <1>7, <2>1, <2>2, <3>1
  <2>3. CASE j # at + 1 /\ l = at + 1
    <3>1. PICK i \in 1 .. Len(m) : d[j] = m[i]
      BY <1>2, <2>3
    <3> QED BY <1>4, <1>7, <2>3, <3>1
  <2>4. CASE j # at + 1 /\ l # at + 1
    <3>1. PICK i \in 1 .. Len(m) : d[j] = m[i] /\ j = IF i <= at THEN i ELSE i + 1
      BY <1>2, <2>4
    <3>2. PICK h \in 1 .. Len(m) : d[l] = m[h] /\ l = IF h <= at THEN h ELSE h + 1
      BY <1>2, <2>4
    <3>3. i = h
      BY <3>1, <3>2 DEF Holding
    <3> QED BY <3>1, <3>2, <3>3
  <2> QED BY <2>2, <2>3, <2>4
<1> QED BY <1>4, <1>5, <1>6, <1>8 DEF Holding

LEMMA MessageIs ==
  ASSUME NEW k \in Keysets, NEW r \in RecordType, r.type # "ack"
  PROVE  LET e == Message(k, r)
         IN  /\ e \in MessageType /\ e.k = k /\ e.type = r.type /\ e.acked = FALSE /\ e.missing = 0
             /\ OfPair(e, <<k, r>>)
BY DEF Message, MessageType, RecordType, OfPair

LEMMA AppendPuts ==
  ASSUME NEW m \in Seq(MessageType), NEW e \in MessageType
  PROVE  Put(m, Append(m, e), e, Len(m))
BY DEF Put

LEMMA InsertPuts ==
  ASSUME NEW m \in Seq(MessageType), NEW k \in Keysets, NEW r \in RecordType, r.type # "ack"
  PROVE  \E at : Put(m, InsertByTime(m, r, k), Message(k, r), at)
<1> DEFINE S == {0} \cup {i \in DOMAIN m : r.time <= m[i].time}
           at == Max(S)
           e == Message(k, r)
           n == Len(m)
           s == SubSeq(m, 1, at)
           t == SubSeq(m, at + 1, n)
           d == (s \o <<e>>) \o t
<1>1. DOMAIN m = 1 .. n /\ n \in Nat /\ e \in MessageType
  <2>1. e \in MessageType
    BY MessageIs
  <2> HIDE DEF e
  <2> QED BY <2>1
<1>2. at \in 0 .. n
  <2>1. S \in SUBSET (0 .. n) /\ 0 \in S
    <3>1. \A i \in S : i = 0 \/ i \in DOMAIN m
      OBVIOUS
    <3>2. 0 \in S
      OBVIOUS
    <3> HIDE DEF S, n
    <3> QED BY <1>1, <3>1, <3>2
  <2> HIDE DEF S, n
  <2>2. S \in SUBSET Nat /\ S # {} /\ \A x \in S : x <= n
    BY <1>1, <2>1
  <2>3. at \in S
    BY <1>1, <2>2, GreatestIs
  <2> QED BY <2>1, <2>3
<1>3. InsertByTime(m, r, k) = s \o <<e>> \o t
  BY Zenon DEF InsertByTime
<1> HIDE DEF at, e
<1>4. s \in Seq(MessageType) /\ Len(s) = at /\ \A i \in 1 .. at : s[i] = m[i]
  <2>1. \A i \in 1 .. at : m[i] \in MessageType
    BY <1>1, <1>2
  <2>2. at \in Int /\ 1 \in Int /\ at - 1 + 1 = at
    BY <1>1, <1>2
  <2>3. /\ s \in Seq(MessageType) /\ Len(s) = IF 1 <= at THEN at - 1 + 1 ELSE 0
        /\ \A i \in 1 .. at - 1 + 1 : s[i] = m[1 + i - 1]
    BY <2>1, <2>2, SubSeqProperties DEF s
  <2> HIDE DEF s, n
  <2> QED BY <1>1, <1>2, <2>2, <2>3
<1>5. t \in Seq(MessageType) /\ Len(t) = n - at /\ \A i \in 1 .. n - at : t[i] = m[at + i]
  <2>1. \A i \in at + 1 .. n : m[i] \in MessageType
    BY <1>1, <1>2
  <2>2. at + 1 \in Int /\ n \in Int
    BY <1>1, <1>2
  <2>3. /\ t \in Seq(MessageType) /\ Len(t) = IF at + 1 <= n THEN n - (at + 1) + 1 ELSE 0
        /\ \A i \in 1 .. n - (at + 1) + 1 : t[i] = m[at + 1 + i - 1]
    BY <2>1, <2>2, SubSeqProperties DEF t
  <2> HIDE DEF t, n
  <2>4. \A i \in 1 .. n - at : i \in 1 .. n - (at + 1) + 1 /\ at + 1 + i - 1 = at + i
    BY <1>1, <1>2
  <2> QED BY <1>1, <1>2, <2>3, <2>4
<1>6. n \in Nat
  BY <1>1
<1> DEFINE u == s \o <<e>>
<1> HIDE DEF s, t, n
<1>7. u \in Seq(MessageType) /\ Len(u) = at + 1 /\ u[at + 1] = e /\ \A i \in 1 .. at : u[i] = s[i]
  <2>1. <<e>> \in Seq(MessageType) /\ Len(<<e>>) = 1 /\ <<e>>[1] = e
    BY <1>1
  <2> QED BY <1>2, <1>4, <2>1, ConcatProperties
<1> HIDE DEF u
<1>8. /\ d \in Seq(MessageType) /\ Len(d) = n + 1 /\ d[at + 1] = e
      /\ \A i \in 1 .. at : d[i] = s[i]
      /\ \A i \in 1 .. n - at : d[at + 1 + i] = t[i]
  <2>1. d = u \o t
    BY DEF d, u
  <2> HIDE DEF d
  <2>2. /\ d \in Seq(MessageType) /\ Len(d) = at + 1 + (n - at)
        /\ \A i \in 1 .. at + 1 + (n - at) : d[i] = IF i <= at + 1 THEN u[i] ELSE t[i - (at + 1)]
    <3>1. u \in Seq(MessageType) /\ t \in Seq(MessageType)
      BY <1>5, <1>7
    <3>2. /\ u \o t \in Seq(MessageType) /\ Len(u \o t) = Len(u) + Len(t)
          /\ \A i \in 1 .. Len(u) + Len(t) : (u \o t)[i] = IF i <= Len(u) THEN u[i] ELSE t[i - Len(u)]
      BY <3>1, ConcatProperties
    <3> QED BY <1>5, <1>7, <2>1, <3>2
  <2>3. \A i \in 1 .. n - at : /\ at + 1 + i \in 1 .. at + 1 + (n - at)
                              /\ ~ at + 1 + i <= at + 1 /\ at + 1 + i - (at + 1) = i
    BY <1>2, <1>6
  <2>4. \A i \in 1 .. at + 1 : i \in 1 .. at + 1 + (n - at) /\ i <= at + 1
    BY <1>2, <1>6
  <2>5. at + 1 \in 1 .. at + 1 /\ at + 1 + (n - at) = n + 1 /\ \A i \in 1 .. at : i \in 1 .. at + 1
    BY <1>2, <1>6
  <2> QED BY <1>7, <2>2, <2>3, <2>4, <2>5
<1> HIDE DEF d
<1>9. \A i \in 1 .. n : IF i <= at THEN d[i] = m[i] ELSE d[i + 1] = m[i]
  <2> TAKE i \in 1 .. n
  <2>1. CASE i <= at
    BY <1>2, <1>4, <1>8, <2>1
  <2>2. CASE ~ i <= at
    <3> DEFINE j == i - at
    <3>1. j \in 1 .. n - at /\ at + 1 + j = i + 1 /\ at + j = i
      BY <1>2, <1>6, <2>2
    <3> HIDE DEF j
    <3>2. d[at + 1 + j] = m[at + j]
      BY <1>5, <1>8, <3>1
    <3> QED BY <2>2, <3>1, <3>2
  <2> QED BY <2>1, <2>2
<1>10. Put(m, d, e, at)
  BY <1>2, <1>6, <1>8, <1>9 DEF Put, n
<1> QED BY <1>3, <1>10 DEF d, e

(***************************************************************************)
(* list_all_messages: the loop over a file, and the loop over the keysets. *)
(***************************************************************************)
\* The messages among the last n records of the file of k.
Read(f, k, n) ==
  {p \in {k} \X RecordType : p[2].type # "ack" /\ \E i \in Len(f) + 1 - n .. Len(f) : f[i] = p[2]}

\* m has these and those of R, of which only those of R are complete.
Reading(m, R, k, f, n, files) ==
  /\ Holding(m, R \cup Read(f, k, n))
  /\ \A i \in 1 .. Len(m) : IF m[i].k = k THEN m[i].acked = FALSE /\ m[i].missing = 0
                            ELSE AckIs(m[i], files) /\ GapIs(m[i], R)

FromEnd(f, n) == f[Len(f) + 1 - n]
AddOne(m, k, r) == IF r.type = "ack" THEN m ELSE InsertByTime(m, r, k)

LEMMA FromEndIs ==
  ASSUME NEW f \in Seq(RecordType), NEW n \in 1 .. Len(f)
  PROVE  FromEnd(f, n) \in RecordType /\ Len(f) + 1 - n \in 1 .. Len(f)
BY DEF FromEnd

\* Read after one record more.
OneMore(T, U, k, r) == U = IF r.type = "ack" THEN T ELSE T \cup {<<k, r>>}

LEMMA ReadOneMore ==
  ASSUME NEW k, NEW f \in Seq(RecordType), NEW n \in 1 .. Len(f)
  PROVE  OneMore(Read(f, k, n - 1), Read(f, k, n), k, FromEnd(f, n))
<1> DEFINE l == Len(f)
           j == l + 1 - n
           r == f[j]
<1>1. l \in Nat /\ n \in Nat /\ j \in 1 .. l /\ r \in RecordType /\ r = FromEnd(f, n)
  BY FromEndIs DEF FromEnd
<1>2. \A i : i \in j .. l <=> i = j \/ i \in l + 1 - (n - 1) .. l
  BY <1>1
<1> HIDE DEF r
<1>3. ASSUME NEW p \in {k} \X RecordType, p[2].type # "ack"
      PROVE  p \in Read(f, k, n) <=> p \in Read(f, k, n - 1) \/ p[2] = r
  <2>1. p \in Read(f, k, n) <=> \E i \in j .. l : f[i] = p[2]
    BY <1>3 DEF Read
  <2>2. p \in Read(f, k, n - 1) <=> \E i \in l + 1 - (n - 1) .. l : f[i] = p[2]
    BY <1>3 DEF Read
  <2>3. f[j] = r
    BY DEF r
  <2> HIDE DEF j, l
  <2> QED BY <1>2, <2>1, <2>2, <2>3
<1>4. \A x : \A p \in Read(f, k, x) : p \in {k} \X RecordType /\ p[2].type # "ack"
  BY DEF Read
<1>5. CASE r.type = "ack"
  <2>1. \A p : p \in Read(f, k, n) <=> p \in Read(f, k, n - 1)
    BY <1>3, <1>4, <1>5
  <2> QED BY <1>1, <1>5, <2>1 DEF OneMore
<1>6. CASE r.type # "ack"
  <2>1. \A p \in {k} \X RecordType : p[2] = r <=> p = <<k, r>>
    BY <1>1
  <2>2. <<k, r>> \in {k} \X RecordType /\ <<k, r>>[2] = r
    BY <1>1
  <2>3. \A p : p \in Read(f, k, n) <=> p \in Read(f, k, n - 1) \/ p = <<k, r>>
    BY <1>3, <1>4, <1>6, <2>1, <2>2
  <2>4. Read(f, k, n) = Read(f, k, n - 1) \cup {<<k, r>>}
    BY <2>3
  <2> QED BY <1>1, <1>6, <2>4 DEF OneMore
<1> QED BY <1>5, <1>6

LEMMA AddOneReads ==
  ASSUME NEW files \in FilesType, NEW k \in Keysets, NEW f, f = files[k], OnePerMessage(f),
         NEW R, \A q \in R : q[1] # k,
         NEW n \in 1 .. Len(f), NEW m, Reading(m, R, k, f, n - 1, files)
  PROVE  Reading(AddOne(m, k, FromEnd(f, n)), R, k, f, n, files)
<1> DEFINE r == FromEnd(f, n)
           Q == R \cup Read(f, k, n - 1)
<1>1. f \in Seq(RecordType)
  BY DEF FilesType
<1>2. r \in RecordType /\ Len(f) + 1 - n \in 1 .. Len(f) /\ r = f[Len(f) + 1 - n]
  BY <1>1, FromEndIs DEF FromEnd
<1>3. Holding(m, Q)
  BY DEF Reading
<1> HIDE DEF r
<1>4. Read(f, k, n) = IF r.type = "ack" THEN Read(f, k, n - 1) ELSE Read(f, k, n - 1) \cup {<<k, r>>}
  <2>1. OneMore(Read(f, k, n - 1), Read(f, k, n), k, FromEnd(f, n))
    BY <1>1, ReadOneMore, Zenon
  <2> QED BY <2>1 DEF r, OneMore
<1>5. CASE r.type = "ack"
  BY <1>4, <1>5 DEF Reading, AddOne, r
<1>6. CASE r.type # "ack"
  <2> DEFINE d == InsertByTime(m, r, k)
             e == Message(k, r)
             p == <<k, r>>
  <2>1. m \in Seq(MessageType) /\ Len(m) \in Nat
    BY <1>3, HeldTypes
  <2>2. PICK at : Put(m, d, e, at)
    BY <1>2, <1>6, <2>1, InsertPuts
  <2>3. e.k = k /\ e.acked = FALSE /\ e.missing = 0 /\ OfPair(e, p)
    BY <1>2, <1>6, MessageIs
  <2>4. NewIn(p, Q)
    <3> SUFFICES ASSUME NEW q \in Q, q[1] = p[1] /\ q[2].type = p[2].type /\ q[2].seq = p[2].seq
                 PROVE  FALSE
      BY DEF NewIn
    <3>1. q \in Read(f, k, n - 1)
      OBVIOUS
    <3>2. PICK i \in Len(f) + 1 - (n - 1) .. Len(f) : f[i] = q[2]
      BY <3>1 DEF Read
    <3>3. i \in 1 .. Len(f) /\ i # Len(f) + 1 - n
      BY <1>1, <1>2
    <3>4. f[i].type = r.type /\ f[i].seq = r.seq
      BY <3>2
    <3> QED BY <1>2, <1>6, <3>3, <3>4 DEF OnePerMessage
  <2>5. AddOne(m, k, r) = d
    BY <1>6 DEF AddOne
  <2>6. \A i \in 1 .. Len(d) : i # at + 1 => \E j \in 1 .. Len(m) : d[i] = m[j]
    BY <2>1, <2>2, PutIs
  <2>7. d[at + 1] = e
    BY <2>2 DEF Put
  <2> HIDE DEF d, e, p, Q
  <2>8. Holding(d, Q \cup {p})
    BY <1>3, <2>2, <2>3, <2>4, PutHolds
  <2>9. \A i \in 1 .. Len(d) : IF d[i].k = k THEN d[i].acked = FALSE /\ d[i].missing = 0
                              ELSE AckIs(d[i], files) /\ GapIs(d[i], R)
    <3> TAKE i \in 1 .. Len(d)
    <3>1. CASE i = at + 1
      BY <2>3, <2>7, <3>1
    <3>2. CASE i # at + 1
      <4>1. PICK j \in 1 .. Len(m) : d[i] = m[j]
        BY <2>6, <3>2
      <4> QED BY <4>1 DEF Reading
    <3> QED BY <3>1, <3>2
  <2>10. Q \cup {p} = R \cup Read(f, k, n)
    BY <1>4, <1>6 DEF Q, p
  <2> QED BY <2>5, <2>8, <2>9, <2>10 DEF Reading, r
<1> QED BY <1>5, <1>6

AddLoop(t, m, k, f) ==
  t = [n \in 0 .. Len(f) |->
         IF n = 0 THEN m
         ELSE LET r == f[Len(f) + 1 - n]
              IN  IF r.type = "ack" THEN t[n - 1] ELSE InsertByTime(t[n - 1], r, k)]

LEMMA AddAllReads ==
  ASSUME NEW files \in FilesType, NEW k \in Keysets, NEW f, f = files[k], OnePerMessage(f),
         NEW R, \A q \in R : q[1] # k, NEW m, Full(m, R, files)
  PROVE  Reading(AddAllMessages(m, k, f), R, k, f, Len(f), files)
<1> DEFINE l == Len(f)
           S == Seq(MessageType)
           Step(t, n) == IF n = 0 THEN m
                         ELSE LET r == f[Len(f) + 1 - n]
                              IN  IF r.type = "ack" THEN t[n - 1] ELSE InsertByTime(t[n - 1], r, k)
           c == CHOOSE t : AddLoop(t, m, k, f)
<1>1. f \in Seq(RecordType) /\ l \in Nat
  <2>1. f \in Seq(RecordType)
    BY DEF FilesType
  <2> QED BY <2>1
<1>2. m \in S
  BY HeldTypes DEF Full
<1>3. AddAllMessages(m, k, f) = c[l]
  BY Zenon DEF AddAllMessages, AddLoop
<1>4. \A t : AddLoop(t, m, k, f) <=> t = [n \in 0 .. l |-> Step(t, n)]
  BY Zenon DEF AddLoop
<1>5. \A t : Step(t, 0) = m
  OBVIOUS
<1>6. \A t : \A n \in 1 .. l : Step(t, n) = AddOne(t[n - 1], k, FromEnd(f, n))
  <2>1. \A n \in 1 .. l : n # 0
    BY <1>1
  <2> HIDE DEF l
  <2> QED BY <2>1 DEF AddOne, FromEnd
<1> HIDE DEF Step
<1>7. \E t : AddLoop(t, m, k, f)
  <2> DEFINE g == [x \in S \X (1 .. l) |-> AddOne(x[1], k, FromEnd(f, x[2]))]
  <2>1. g \in [S \X (1 .. l) -> S]
    <3>1. \A x \in S, n \in 1 .. l : AddOne(x, k, FromEnd(f, n)) \in S
      <4> TAKE x \in S, n \in 1 .. l
      <4>1. FromEnd(f, n) \in RecordType
        BY <1>1, FromEndIs
      <4>2. CASE FromEnd(f, n).type = "ack"
        BY <4>2 DEF AddOne
      <4>3. CASE FromEnd(f, n).type # "ack"
        <5>1. \E at : Put(x, InsertByTime(x, FromEnd(f, n), k), Message(k, FromEnd(f, n)), at)
          BY <4>1, <4>3, InsertPuts
        <5> QED BY <4>3, <5>1 DEF AddOne, Put
      <4> QED BY <4>2, <4>3
    <3> HIDE DEF l, S
    <3> QED BY <3>1
  <2>2. \A x \in S, n \in 1 .. l : g[<<x, n>>] = AddOne(x, k, FromEnd(f, n))
    OBVIOUS
  <2> HIDE DEF g, l, S
  <2>3. PICK t : Iterates(t, S, m, g, l)
    BY <1>1, <1>2, <2>1, Iteration, Zenon
  <2>4. ASSUME NEW n \in 0 .. l PROVE t[n] = Step(t, n)
    <3>1. CASE n = 0
      BY <1>5, <2>3, <3>1 DEF Iterates
    <3>2. CASE n # 0
      <4>1. n \in 1 .. l /\ n - 1 \in 0 .. l
        BY <1>1, <3>2
      <4>2. t[n - 1] \in S /\ t[n] = g[<<t[n - 1], n>>]
        BY <2>3, <4>1 DEF Iterates
      <4>3. g[<<t[n - 1], n>>] = Step(t, n)
        BY <1>6, <2>2, <4>1, <4>2, Zenon
      <4> QED BY <4>2, <4>3
    <3> QED BY <3>1, <3>2
  <2>5. t = [n \in 0 .. l |-> Step(t, n)]
    BY <2>3, <2>4 DEF Iterates
  <2> QED BY <1>4, <2>5
<1>8. AddLoop(c, m, k, f)
  BY <1>7
<1> HIDE DEF c, l
<1>9. c[0] = m /\ \A n \in 1 .. l : c[n] = AddOne(c[n - 1], k, FromEnd(f, n))
  <2>1. c = [n \in 0 .. l |-> Step(c, n)]
    BY <1>4, <1>8
  <2>2. \A n \in 0 .. l : c[n] = Step(c, n)
    BY <2>1
  <2>3. 0 \in 0 .. l /\ \A n \in 1 .. l : n \in 0 .. l
    BY <1>1
  <2> QED BY <1>5, <1>6, <2>2, <2>3
<1> DEFINE D == {n \in Nat : n <= l => Reading(c[n], R, k, f, n, files)}
<1>10. Reading(c[0], R, k, f, 0, files)
  <2>1. Read(f, k, 0) = {}
    <3>1. Len(f) + 1 - 0 .. Len(f) = {}
      BY <1>1 DEF l
    <3> QED BY <3>1 DEF Read
  <2>2. Holding(m, R \cup Read(f, k, 0))
    <3>1. R \cup Read(f, k, 0) = R
      BY <2>1
    <3> QED BY <3>1 DEF Full
  <2>3. \A i \in 1 .. Len(m) : m[i].k # k
    <3> TAKE i \in 1 .. Len(m)
    <3>1. PICK p \in R : OfPair(m[i], p)
      BY DEF Full, Holding
    <3> QED BY <3>1 DEF OfPair
  <2>4. \A i \in 1 .. Len(m) : AckIs(m[i], files) /\ GapIs(m[i], R)
    BY DEF Full
  <2> QED BY <1>9, <2>2, <2>3, <2>4 DEF Reading
<1>11. ASSUME NEW n \in D PROVE n + 1 \in D
  <2> SUFFICES ASSUME n + 1 <= l PROVE Reading(c[n + 1], R, k, f, n + 1, files)
    OBVIOUS
  <2>1. n \in Nat /\ Reading(c[n], R, k, f, n, files) /\ n + 1 \in 1 .. l /\ (n + 1) - 1 = n
    BY <1>1
  <2> HIDE DEF D
  <2>2. n + 1 \in 1 .. Len(f) /\ Reading(c[n], R, k, f, (n + 1) - 1, files)
    BY <2>1 DEF l
  <2>3. Reading(AddOne(c[n], k, FromEnd(f, n + 1)), R, k, f, n + 1, files)
    BY <2>2, AddOneReads
  <2> QED BY <1>9, <2>1, <2>3
<1>12. l \in D
  <2>1. D \in SUBSET Nat /\ 0 \in D
    BY <1>10
  <2> HIDE DEF D
  <2> QED BY <1>1, <1>11, <2>1, Induction
<1> QED BY <1>1, <1>3, <1>12 DEF l

LEMMA NumbersOther ==
  ASSUME NEW R, NEW T, NEW k, \A q \in T : q[1] # k \/ q[2].type # "rcvd"
  PROVE  Numbers(R \cup T, k) = Numbers(R, k)
<1>1. \A x : (\E p \in R \cup T : p[1] = k /\ p[2].type = "rcvd" /\ p[2].seq = x)
               <=> \E p \in R : p[1] = k /\ p[2].type = "rcvd" /\ p[2].seq = x
  OBVIOUS
<1> QED BY <1>1 DEF Numbers

(* The loops over one file complete the messages of its keyset.              *)
LEMMA ListsOne ==
  ASSUME NEW files \in FilesType, NEW k \in Keysets, OnePerMessage(files[k]),
         NEW K, k \notin K, NEW m, Full(m, Pairs(files, K), files)
  PROVE  Full(ListMessages(m, k, files[k]), Pairs(files, K \cup {k}), files)
<1> DEFINE f == files[k]
           R == Pairs(files, K)
           T == Read(f, k, Len(f))
           Q == Pairs(files, K \cup {k})
           m1 == AddAllMessages(m, k, f)
           m2 == AckAllMessages(m1, k, f)
           m3 == SetMissing(m2, k)
<1>1. ListMessages(m, k, f) = m3
  BY Zenon DEF ListMessages
<1>2. \A q \in R : q[1] # k
  BY DEF Pairs
<1>3. f \in Seq(RecordType)
  BY DEF FilesType
<1>4. Q = R \cup T
  <2>1. ASSUME NEW p \in Q PROVE p \in R \cup T
    <3>1. CASE p[1] = k
      <4>1. p \in {k} \X RecordType /\ p[2].type # "ack" /\ \E i \in 1 .. Len(f) : f[i] = p[2]
        BY <3>1 DEF Pairs
      <4>2. Len(f) + 1 - Len(f) = 1
        BY <1>3
      <4>3. p \in T
        BY <4>1, <4>2 DEF Read
      <4> QED BY <4>3
    <3>2. CASE p[1] # k
      BY <3>2 DEF Pairs
    <3> QED BY <3>1, <3>2
  <2>2. ASSUME NEW p \in T PROVE p \in Q
    <3>1. Len(f) + 1 - Len(f) = 1
      BY <1>3
    <3>2. /\ p \in {k} \X RecordType /\ p[2].type # "ack"
          /\ \E i \in Len(f) + 1 - Len(f) .. Len(f) : f[i] = p[2]
      BY DEF Read
    <3>3. p[1] = k /\ p \in (K \cup {k}) \X RecordType
      BY <3>2
    <3>4. \E i \in 1 .. Len(f) : f[i] = p[2]
      BY <3>1, <3>2
    <3> QED BY <3>2, <3>3, <3>4 DEF Pairs
  <2>3. ASSUME NEW p \in R PROVE p \in Q
    BY DEF Pairs
  <2> HIDE DEF Q, R, T
  <2> QED BY <2>1, <2>2, <2>3
<1>5. \A q \in T : q[1] = k
  BY DEF Read
<1> HIDE DEF R, T, Q
<1>6. Reading(m1, R, k, f, Len(f), files)
  BY <1>2, AddAllReads DEF R
<1> HIDE DEF m1
<1>7. Holding(m1, Q)
  BY <1>4, <1>6 DEF Reading, T
<1>8. /\ Alike(m1, m2) /\ Holding(m2, Q)
      /\ \A i \in 1 .. Len(m1) : AckIs(m2[i], files) /\ m2[i].missing = m1[i].missing
  <2>1. \A i \in 1 .. Len(m1) :
          IF m1[i].k = k THEN m1[i].acked => AckIs(m1[i], files) ELSE AckIs(m1[i], files)
    BY <1>6 DEF Reading
  <2> QED BY <1>7, <2>1, AckAllIs
<1> HIDE DEF m2
<1>9. \A i \in 1 .. Len(m2) : m2[i].k # k \/ m2[i].type # "rcvd" => GapIs(m2[i], Q)
  <2> TAKE i \in 1 .. Len(m2)
  <2>1. i \in 1 .. Len(m1) /\ Same(m2[i], m1[i]) /\ m2[i].missing = m1[i].missing
    BY <1>8 DEF Alike
  <2>2. CASE m2[i].k # k
    <3>1. GapIs(m1[i], R)
      BY <1>6, <2>1, <2>2 DEF Reading, Same
    <3>2. Numbers(Q, m2[i].k) = Numbers(R, m2[i].k)
      <4> DEFINE j == m2[i].k
      <4>1. \A q \in T : q[1] # j \/ q[2].type # "rcvd"
        BY <1>5, <2>2
      <4> HIDE DEF j
      <4>2. Numbers(R \cup T, j) = Numbers(R, j)
        BY <4>1, NumbersOther
      <4> QED BY <1>4, <4>2 DEF j
    <3> QED BY <2>1, <3>1, <3>2 DEF GapIs, Same
  <2>3. CASE m2[i].k = k /\ m2[i].type # "rcvd"
    <3>1. m1[i].missing = 0
      BY <1>6, <2>1, <2>3 DEF Reading, Same
    <3> QED BY <2>1, <2>3, <3>1 DEF GapIs
  <2> QED BY <2>2, <2>3
<1>10. /\ Holding(m3, Q) /\ Alike(m2, m3)
       /\ \A i \in 1 .. Len(m2) : GapIs(m3[i], Q) /\ m3[i].acked = m2[i].acked
  BY <1>8, <1>9, SetMissingIs
<1> HIDE DEF m3
<1>11. \A i \in 1 .. Len(m3) : AckIs(m3[i], files) /\ GapIs(m3[i], Q)
  <2> TAKE i \in 1 .. Len(m3)
  <2>1. i \in 1 .. Len(m2) /\ i \in 1 .. Len(m1) /\ Same(m3[i], m2[i])
    BY <1>8, <1>10 DEF Alike
  <2> QED BY <1>8, <1>10, <2>1 DEF AckIs, Same
<1> QED BY <1>1, <1>10, <1>11 DEF Full, Q, f

Listed(n) == {KeySeq[i] : i \in 1 .. n}
ListLoop(t, files) ==
  t = [n \in 0 .. Len(KeySeq) |->
         IF n = 0 THEN <<>> ELSE ListMessages(t[n - 1], KeySeq[n], files[KeySeq[n]])]

FilesOk(files) == files \in FilesType /\ \A k \in Keysets : OnePerMessage(files[k])

LEMMA KeysListed ==
  /\ Len(KeySeq) \in Nat /\ Listed(0) = {} /\ Listed(Len(KeySeq)) = Keysets
  /\ \A n \in 1 .. Len(KeySeq) :
       KeySeq[n] \in Keysets /\ KeySeq[n] \notin Listed(n - 1) /\ Listed(n) = Listed(n - 1) \cup {KeySeq[n]}
<1> DEFINE l == Len(KeySeq)
<1>1. KeySeq \in Seq(Range(KeySeq)) /\ \A i, j \in DOMAIN KeySeq : KeySeq[i] = KeySeq[j] => i = j
  BY StoreAssumption DEF IsInjective
<1>2. l \in Nat /\ DOMAIN KeySeq = 1 .. l
  BY <1>1
<1>3. Keysets = {KeySeq[i] : i \in 1 .. l}
  BY <1>2 DEF Keysets, Range
<1> HIDE DEF l
<1>4. \A n \in 1 .. l : KeySeq[n] \notin Listed(n - 1)
  <2> SUFFICES ASSUME NEW n \in 1 .. l, NEW i \in 1 .. n - 1, KeySeq[i] = KeySeq[n] PROVE FALSE
    BY DEF Listed
  <2>1. i \in 1 .. l /\ i # n
    BY <1>2
  <2> QED BY <1>1, <1>2, <2>1
<1>5. \A n \in 1 .. l : Listed(n) = Listed(n - 1) \cup {KeySeq[n]}
  <2> TAKE n \in 1 .. l
  <2>1. \A i : i \in 1 .. n <=> i \in 1 .. n - 1 \/ i = n
    BY <1>2
  <2> QED BY <2>1 DEF Listed
<1>6. Listed(0) = {}
  <2>1. 1 .. 0 = {}
    OBVIOUS
  <2> QED BY <2>1 DEF Listed
<1>7. Listed(l) = Keysets
  BY <1>3 DEF Listed
<1>8. \A n \in 1 .. l : KeySeq[n] \in Keysets
  BY <1>3
<1> QED BY <1>2, <1>4, <1>5, <1>6, <1>7, <1>8 DEF l

\* What the loop over the keysets has after n of them.
ListedFull(m, n, files) == Full(m, Pairs(files, Listed(n)), files)

LEMMA LoopLists ==
  ASSUME NEW files, FilesOk(files), NEW t, t[0] = <<>>,
         \A n \in 1 .. Len(KeySeq) : ListedFull(t[n - 1], n - 1, files) =>
           t[n] = ListMessages(t[n - 1], KeySeq[n], files[KeySeq[n]])
  PROVE  \A n \in 0 .. Len(KeySeq) : ListedFull(t[n], n, files)
<1> DEFINE l == Len(KeySeq)
           D == {n \in Nat : n <= l => ListedFull(t[n], n, files)}
<1>1. l \in Nat
  BY KeysListed
<1>2. ListedFull(t[0], 0, files)
  <2>1. Pairs(files, {}) = {}
    BY DEF Pairs
  <2>2. <<>> \in Seq(MessageType) /\ Len(<<>>) = 0
    OBVIOUS
  <2>3. Full(<<>>, {}, files)
    BY <2>2 DEF Full, Holding
  <2> QED BY <2>1, <2>3, KeysListed DEF ListedFull
<1>3. ASSUME NEW n \in D PROVE n + 1 \in D
  <2> SUFFICES ASSUME n + 1 <= l PROVE ListedFull(t[n + 1], n + 1, files)
    OBVIOUS
  <2>1. n \in Nat /\ ListedFull(t[n], n, files) /\ n + 1 \in 1 .. l /\ (n + 1) - 1 = n
    BY <1>1
  <2> HIDE DEF D
  <2> DEFINE k == KeySeq[n + 1]
  <2>2. k \in Keysets /\ k \notin Listed(n) /\ Listed(n + 1) = Listed(n) \cup {k}
    BY <2>1, KeysListed
  <2>3. t[n + 1] = ListMessages(t[n], k, files[k])
    BY <2>1
  <2> HIDE DEF k
  <2>4. files \in FilesType /\ OnePerMessage(files[k])
    BY <2>2 DEF FilesOk
  <2>5. Full(t[n], Pairs(files, Listed(n)), files)
    BY <2>1 DEF ListedFull
  <2>6. Full(ListMessages(t[n], k, files[k]), Pairs(files, Listed(n) \cup {k}), files)
    BY <2>2, <2>4, <2>5, ListsOne
  <2> QED BY <2>2, <2>3, <2>6 DEF ListedFull
<1>4. D = Nat
  <2>1. D \in SUBSET Nat /\ 0 \in D
    BY <1>2
  <2> HIDE DEF D
  <2> QED BY <1>3, <2>1, Induction
<1> QED BY <1>1, <1>4

(* (list_all_messages) Whatever the files hold, each message once, the list  *)
(* has all messages of all keysets, their acks and their gaps.               *)
LEMMA ListsAll ==
  ASSUME NEW files, FilesOk(files)
  PROVE  Full(ListAllMessages(files), Pairs(files, Keysets), files)
<1> DEFINE l == Len(KeySeq)
           S == Seq(MessageType)
           Next1(x, n) == ListMessages(x, KeySeq[n], files[KeySeq[n]])
           Step(t, n) == IF n = 0 THEN <<>> ELSE Next1(t[n - 1], n)
           c == CHOOSE t : ListLoop(t, files)
<1>1. l \in Nat
  BY KeysListed
<1>2. ListAllMessages(files) = c[l]
  BY Zenon DEF ListAllMessages, ListLoop
<1>3. \A t : ListLoop(t, files) <=> t = [n \in 0 .. l |-> Step(t, n)]
  BY Zenon DEF ListLoop
<1>4. \A t : Step(t, 0) = <<>>
  OBVIOUS
<1>5. \A t : \A n \in 1 .. l : Step(t, n) = Next1(t[n - 1], n)
  <2>1. \A n \in 1 .. l : n # 0
    BY <1>1
  <2> HIDE DEF Next1, l
  <2> QED BY <2>1
<1> HIDE DEF Step
<1>6. \E t : ListLoop(t, files)
  <2> DEFINE g == [x \in S \X (1 .. l) |-> IF ListedFull(x[1], x[2] - 1, files) THEN Next1(x[1], x[2]) ELSE <<>>]
  <2>1. \A x \in S, n \in 1 .. l : ListedFull(x, n - 1, files) => Next1(x, n) \in S
    <3> SUFFICES ASSUME NEW x \in S, NEW n \in 1 .. l, ListedFull(x, n - 1, files)
                 PROVE  Next1(x, n) \in S
      OBVIOUS
    <3> DEFINE k == KeySeq[n]
    <3>1. k \in Keysets /\ k \notin Listed(n - 1)
      BY KeysListed
    <3> HIDE DEF k
    <3>2. files \in FilesType /\ OnePerMessage(files[k]) /\ Full(x, Pairs(files, Listed(n - 1)), files)
      BY <3>1 DEF FilesOk, ListedFull
    <3>3. Full(ListMessages(x, k, files[k]), Pairs(files, Listed(n - 1) \cup {k}), files)
      BY <3>1, <3>2, ListsOne
    <3> QED BY <3>3 DEF Full, Holding, k
  <2>2. <<>> \in S
    OBVIOUS
  <2> HIDE DEF Next1
  <2>3. g \in [S \X (1 .. l) -> S]
    <3> HIDE DEF S, l
    <3> QED BY <2>1, <2>2
  <2>4. \A x \in S, n \in 1 .. l : ListedFull(x, n - 1, files) => g[<<x, n>>] = Next1(x, n)
    OBVIOUS
  <2> HIDE DEF g, l, S
  <2>5. PICK t : Iterates(t, S, <<>>, g, l)
    BY <1>1, <2>2, <2>3, Iteration, Zenon
  <2>6. t[0] = <<>> /\ t \in [0 .. l -> S] /\ \A n \in 1 .. l : t[n] = g[<<t[n - 1], n>>]
    BY <2>5 DEF Iterates
  <2>7. \A n \in 1 .. l : ListedFull(t[n - 1], n - 1, files) => t[n] = Next1(t[n - 1], n)
    <3> SUFFICES ASSUME NEW n \in 1 .. l, ListedFull(t[n - 1], n - 1, files)
                 PROVE  t[n] = Next1(t[n - 1], n)
      OBVIOUS
    <3>1. n - 1 \in 0 .. l
      BY <1>1
    <3>2. t[n - 1] \in S
      BY <2>6, <3>1
    <3> QED BY <2>4, <2>6, <3>2
  <2>8. \A n \in 0 .. l : ListedFull(t[n], n, files)
    BY <2>6, <2>7, LoopLists DEF l, Next1
  <2>9. ASSUME NEW n \in 0 .. l PROVE t[n] = Step(t, n)
    <3>1. CASE n = 0
      BY <1>4, <2>6, <3>1
    <3>2. CASE n # 0
      <4>1. n \in 1 .. l /\ n - 1 \in 0 .. l
        BY <1>1, <3>2
      <4> QED BY <1>5, <2>7, <2>8, <4>1
    <3> QED BY <3>1, <3>2
  <2>10. t = [n \in 0 .. l |-> Step(t, n)]
    BY <2>6, <2>9
  <2> QED BY <1>3, <2>10
<1>7. ListLoop(c, files)
  BY <1>6
<1> HIDE DEF c, l, Next1
<1>8. c[0] = <<>> /\ \A n \in 1 .. l : c[n] = Next1(c[n - 1], n)
  <2>1. c = [n \in 0 .. l |-> Step(c, n)]
    BY <1>3, <1>7
  <2>2. \A n \in 0 .. l : c[n] = Step(c, n)
    BY <2>1
  <2>3. 0 \in 0 .. l /\ \A n \in 1 .. l : n \in 0 .. l
    BY <1>1
  <2> QED BY <1>4, <1>5, <2>2, <2>3
<1>9. \A n \in 0 .. l : ListedFull(c[n], n, files)
  BY <1>8, LoopLists DEF l, Next1
<1>10. ListedFull(c[l], l, files)
  BY <1>1, <1>9
<1> QED BY <1>2, <1>10, KeysListed DEF ListedFull, l

-----------------------------------------------------------------------------
(***************************************************************************)
(* Two lists that are full have the same messages, in whatever order.      *)
(***************************************************************************)
LEMMA FullIn ==
  ASSUME NEW R, NEW files, NEW m, Full(m, R, files), NEW d, Full(d, R, files)
  PROVE  Elements(m) \subseteq Elements(d)
<1> SUFFICES ASSUME NEW i \in 1 .. Len(m) PROVE \E j \in 1 .. Len(d) : m[i] = d[j]
  BY DEF Elements
<1>1. Holding(m, R) /\ Holding(d, R)
  BY DEF Full
<1>2. PICK p \in R : OfPair(m[i], p)
  BY <1>1 DEF Holding
<1>3. PICK j \in 1 .. Len(d) : OfPair(d[j], p)
  BY <1>1 DEF Holding
<1> DEFINE x == m[i]
           y == d[j]
<1>4. x \in MessageType /\ y \in MessageType
  BY <1>1, HeldTypes
<1>5. AckIs(x, files) /\ GapIs(x, R) /\ AckIs(y, files) /\ GapIs(y, R)
  BY DEF Full
<1> HIDE DEF x, y
<1>6. x.k = y.k /\ x.type = y.type /\ x.seq = y.seq /\ x.time = y.time
  BY <1>2, <1>3 DEF OfPair, x, y
<1>7. x.acked = y.acked /\ x.missing = y.missing
  BY <1>5, <1>6 DEF AckIs, GapIs
<1>8. x = y
  BY <1>4, <1>6, <1>7 DEF MessageType
<1> QED BY <1>8 DEF x, y

LEMMA FullDistinct ==
  ASSUME NEW R, NEW files, NEW m, Full(m, R, files)
  PROVE  Distinct(m) /\ m \in Seq(MessageType)
BY DEF Full, Holding, Distinct, Same

LEMMA DistinctLength ==
  ASSUME NEW S, NEW s \in Seq(S), Distinct(s)
  PROVE  Cardinality(Elements(s)) = Len(s)
<1> DEFINE n == Len(s)
           f == [i \in 1 .. n |-> s[i]]
<1>1. n \in Nat
  OBVIOUS
<1>2. f \in Bijection(1 .. n, Elements(s))
  <2>1. f \in [1 .. n -> Elements(s)]
    BY DEF Elements
  <2>2. \A x, y \in 1 .. n : f[x] = f[y] => x = y
    BY DEF Distinct
  <2>3. \A y \in Elements(s) : \E x \in 1 .. n : f[x] = y
    BY DEF Elements
  <2> HIDE DEF f, n
  <2> QED BY <2>1, <2>2, <2>3 DEF Bijection, Injection, Surjection, IsInjective
<1>3. ExistsBijection(1 .. n, Elements(s))
  BY <1>2 DEF ExistsBijection
<1> HIDE DEF n
<1>4. Cardinality(Elements(s)) = n
  BY <1>1, <1>3, FS_CountingElements
<1> QED BY <1>4 DEF n

LEMMA FullIsOne ==
  ASSUME NEW R, NEW files, NEW m, Full(m, R, files), NEW d, Full(d, R, files)
  PROVE  Range(m) = Range(d) /\ Len(m) = Len(d)
<1>1. Elements(m) = Elements(d)
  BY FullIn
<1>2. m \in Seq(MessageType) /\ Distinct(m) /\ d \in Seq(MessageType) /\ Distinct(d)
  BY FullDistinct
<1>3. Range(m) = Elements(m) /\ Range(d) = Elements(d)
  BY <1>2 DEF Range, Elements
<1>4. Cardinality(Elements(m)) = Len(m) /\ Cardinality(Elements(d)) = Len(d)
  BY <1>2, DistinctLength
<1> QED BY <1>1, <1>3, <1>4

-----------------------------------------------------------------------------
(***************************************************************************)
(* The inductive invariant: no two records of a file are of one message,   *)
(* and a cache that was not left behind is full.                           *)
(***************************************************************************)
LogInv == /\ FilesOk(log)
          /\ \A k \in Keysets : \A i \in 1 .. Len(log[k]) :
               log[k][i].type # "ack" => log[k][i].seq \in 1 .. MaxSeq
StoreInv == LogInv /\ (cached /\ ~ cleared => Full(msgs, Pairs(log, Keysets), log))

LEMMA FullIsFile == ASSUME StoreInv PROVE CacheIsFile
<1> SUFFICES ASSUME cached, ~ cleared
             PROVE  Range(msgs) = Range(ListAllMessages(log)) /\ Len(msgs) = Len(ListAllMessages(log))
  BY DEF CacheIsFile
<1>1. Full(msgs, Pairs(log, Keysets), log)
  BY DEF StoreInv
<1>2. Full(ListAllMessages(log), Pairs(log, Keysets), log)
  BY ListsAll DEF StoreInv, LogInv
<1> QED BY <1>1, <1>2, FullIsOne

\* The files after r is appended to that of k.
Appended(files, k, r) == [files EXCEPT ![k] = Append(@, r)]
NewRecord(files, k, r) ==
  \A i \in 1 .. Len(files[k]) : ~ (files[k][i].type = r.type /\ files[k][i].seq = r.seq)

LEMMA SavedIs ==
  ASSUME NEW files \in FilesType, NEW k \in Keysets, NEW r \in RecordType
  PROVE  LET s == Appended(files, k, r)
         IN  /\ s \in FilesType /\ s[k] = Append(files[k], r)
             /\ Len(s[k]) = Len(files[k]) + 1 /\ Len(files[k]) \in Nat /\ s[k][Len(files[k]) + 1] = r
             /\ \A i \in 1 .. Len(files[k]) : s[k][i] = files[k][i]
             /\ \A j \in Keysets : j # k => s[j] = files[j]
<1> DEFINE s == Appended(files, k, r)
<1>1. files[k] \in Seq(RecordType)
  BY DEF FilesType
<1>2. s[k] = Append(files[k], r) /\ \A j \in Keysets : j # k => s[j] = files[j]
  BY DEF Appended, FilesType
<1>3. Append(files[k], r) \in Seq(RecordType)
  BY <1>1
<1>4. s \in FilesType
  BY <1>3 DEF Appended, FilesType
<1> HIDE DEF s
<1> QED BY <1>1, <1>2, <1>4 DEF s

LEMMA SavedKeeps ==
  ASSUME LogInv, NEW k \in Keysets, NEW r \in RecordType, log' = Appended(log, k, r),
         r.type # "ack" => NewRecord(log, k, r) /\ r.seq \in 1 .. MaxSeq
  PROVE  LogInv'
<1> DEFINE s == Appended(log, k, r)
           n == Len(log[k])
<1>1. /\ log \in FilesType /\ \A j \in Keysets : OnePerMessage(log[j])
      /\ \A j \in Keysets : \A i \in 1 .. Len(log[j]) : log[j][i].type # "ack" => log[j][i].seq \in 1 .. MaxSeq
  BY DEF LogInv, FilesOk
<1>2. /\ s \in FilesType /\ Len(s[k]) = n + 1 /\ n \in Nat /\ s[k][n + 1] = r
      /\ \A i \in 1 .. n : s[k][i] = log[k][i]
      /\ \A j \in Keysets : j # k => s[j] = log[j]
  BY <1>1, SavedIs
<1> HIDE DEF s
<1>3. \A i : i \in 1 .. Len(s[k]) <=> i \in 1 .. n \/ i = n + 1
  BY <1>2
<1>4. ASSUME NEW j \in Keysets PROVE OnePerMessage(s[j])
  <2>1. CASE j = k
    <3> SUFFICES ASSUME NEW a \in 1 .. Len(s[k]), NEW b \in 1 .. Len(s[k]),
                        s[k][a].type # "ack", s[k][a].type = s[k][b].type, s[k][a].seq = s[k][b].seq
                 PROVE  a = b
      BY <2>1 DEF OnePerMessage
    <3>1. CASE a \in 1 .. n /\ b \in 1 .. n
      <4>1. s[k][a] = log[k][a] /\ s[k][b] = log[k][b] /\ OnePerMessage(log[k])
        BY <1>1, <1>2, <3>1
      <4> QED BY <3>1, <4>1 DEF OnePerMessage
    <3>2. CASE a = n + 1 /\ b \in 1 .. n
      BY <1>2, <3>2 DEF NewRecord
    <3>3. CASE b = n + 1 /\ a \in 1 .. n
      BY <1>2, <3>3 DEF NewRecord
    <3> QED BY <1>3, <3>1, <3>2, <3>3
  <2>2. CASE j # k
    BY <1>1, <1>2, <2>2
  <2> QED BY <2>1, <2>2
<1>5. ASSUME NEW j \in Keysets, NEW i \in 1 .. Len(s[j]), s[j][i].type # "ack"
      PROVE  s[j][i].seq \in 1 .. MaxSeq
  <2>1. CASE j = k /\ i = n + 1
    BY <1>2, <1>5, <2>1
  <2>2. CASE j = k /\ i # n + 1
    BY <1>1, <1>2, <1>3, <1>5, <2>2
  <2>3. CASE j # k
    BY <1>1, <1>2, <1>5, <2>3
  <2> QED BY <2>1, <2>2, <2>3
<1>6. log' = s
  BY DEF s
<1> HIDE DEF n
<1> QED BY <1>2, <1>4, <1>5, <1>6 DEF LogInv, FilesOk

(* What the files say after r is appended to that of k.                      *)
LEMMA SavedPairs ==
  ASSUME NEW files \in FilesType, NEW k \in Keysets, NEW r \in RecordType
  PROVE  LET s == Appended(files, k, r)
             R == Pairs(files, Keysets)
         IN  /\ Pairs(s, Keysets) = IF r.type = "ack" THEN R ELSE R \cup {<<k, r>>}
             /\ \A j \in Keysets : \A x : AckedIn(s[j], x) <=>
                  AckedIn(files[j], x) \/ (j = k /\ r.type = "ack" /\ r.seq = x)
             /\ r.type # "ack" /\ NewRecord(files, k, r) => NewIn(<<k, r>>, R)
<1> DEFINE s == Appended(files, k, r)
           n == Len(files[k])
           R == Pairs(files, Keysets)
           Q == Pairs(s, Keysets)
<1>1. /\ Len(s[k]) = n + 1 /\ n \in Nat /\ s[k][n + 1] = r
      /\ \A i \in 1 .. n : s[k][i] = files[k][i]
      /\ \A j \in Keysets : j # k => s[j] = files[j]
  BY SavedIs
<1> HIDE DEF s
<1>2. \A i : i \in 1 .. Len(s[k]) <=> i \in 1 .. n \/ i = n + 1
  BY <1>1
<1>3. \A x : (\E i \in 1 .. Len(s[k]) : s[k][i] = x) <=> (\E i \in 1 .. n : files[k][i] = x) \/ x = r
  BY <1>1, <1>2
<1>4. ASSUME NEW p \in Keysets \X RecordType, p[2].type # "ack"
      PROVE  p \in Q <=> p \in R \/ (p[1] = k /\ p[2] = r)
  <2>1. /\ p \in Q <=> \E i \in 1 .. Len(s[p[1]]) : s[p[1]][i] = p[2]
        /\ p \in R <=> \E i \in 1 .. Len(files[p[1]]) : files[p[1]][i] = p[2]
    BY <1>4 DEF Pairs
  <2> HIDE DEF Q, R
  <2>2. CASE p[1] = k
    <3>1. (\E i \in 1 .. Len(s[k]) : s[k][i] = p[2])
            <=> (\E i \in 1 .. n : files[k][i] = p[2]) \/ p[2] = r
      BY <1>3
    <3> QED BY <2>1, <2>2, <3>1
  <2>3. CASE p[1] # k
    <3>1. p[1] \in Keysets
      OBVIOUS
    <3>2. s[p[1]] = files[p[1]]
      BY <1>1, <2>3, <3>1
    <3> QED BY <2>1, <2>3, <3>2
  <2> QED BY <2>2, <2>3
<1>5. \A p : p \in Q \/ p \in R => p \in Keysets \X RecordType /\ p[2].type # "ack"
  BY DEF Pairs
<1>6. \A p \in Keysets \X RecordType : p[1] = k /\ p[2] = r <=> p = <<k, r>>
  OBVIOUS
<1>7. <<k, r>> \in Keysets \X RecordType /\ <<k, r>>[2] = r
  OBVIOUS
<1> HIDE DEF Q, R
<1>8. Q = IF r.type = "ack" THEN R ELSE R \cup {<<k, r>>}
  <2>1. CASE r.type = "ack"
    <3>1. \A p : p \in Q <=> p \in R
      BY <1>4, <1>5, <2>1
    <3> QED BY <2>1, <3>1
  <2>2. CASE r.type # "ack"
    <3>1. \A p : p \in Q <=> p \in R \/ p = <<k, r>>
      BY <1>4, <1>5, <1>6, <1>7, <2>2
    <3> QED BY <2>2, <3>1
  <2> QED BY <2>1, <2>2
<1>9. ASSUME NEW j \in Keysets, NEW x
      PROVE  AckedIn(s[j], x) <=> AckedIn(files[j], x) \/ (j = k /\ r.type = "ack" /\ r.seq = x)
  <2>1. CASE j = k
    <3>1. (\E i \in 1 .. Len(s[k]) : s[k][i].type = "ack" /\ s[k][i].seq = x)
            <=> (\E i \in 1 .. n : files[k][i].type = "ack" /\ files[k][i].seq = x)
                \/ (r.type = "ack" /\ r.seq = x)
      BY <1>1, <1>2
    <3> QED BY <2>1, <3>1 DEF AckedIn
  <2>2. CASE j # k
    BY <1>1, <2>2
  <2> QED BY <2>1, <2>2
<1>10. ASSUME NewRecord(files, k, r), NEW q \in R, q[1] = k, q[2].type = r.type, q[2].seq = r.seq
       PROVE  FALSE
  <2>1. PICK i \in 1 .. n : files[k][i] = q[2]
    BY <1>10 DEF R, Pairs
  <2> QED BY <1>10, <2>1 DEF NewRecord
<1> QED BY <1>8, <1>9, <1>10 DEF Q, R, s, NewIn

(***************************************************************************)
(* save_record keeps the cache full.                                       *)
(***************************************************************************)
LEMMA AckSaved ==
  ASSUME NEW files \in FilesType, NEW k \in Keysets, NEW r \in RecordType, r.type = "ack",
         NEW m, Full(m, Pairs(files, Keysets), files)
  PROVE  Full(AckOneMessage(m, k, r.seq), Pairs(Appended(files, k, r), Keysets), Appended(files, k, r))
<1> DEFINE R == Pairs(files, Keysets)
           s == Appended(files, k, r)
           d == AckOneMessage(m, k, r.seq)
           n == Len(m)
           A == {i \in 1 .. n : m[i].type = "sent" /\ m[i].k = k /\ m[i].seq = r.seq}
<1>1. Pairs(s, Keysets) = R
  BY SavedPairs
<1>2. \A j \in Keysets : \A x : AckedIn(s[j], x) <=> AckedIn(files[j], x) \/ (j = k /\ r.seq = x)
  BY SavedPairs
<1> HIDE DEF R, s
<1>3. Holding(m, R) /\ \A i \in 1 .. n : AckIs(m[i], files) /\ GapIs(m[i], R)
  BY DEF Full, R
<1>4. /\ m \in Seq(MessageType) /\ n \in Nat /\ DOMAIN m = 1 .. n
      /\ \A i \in 1 .. n : m[i].k \in Keysets
  BY <1>3, HeldTypes
<1>5. d = [i \in 1 .. n |-> IF m[i].type = "sent" /\ m[i].k = k /\ m[i].seq = r.seq
                           THEN [m[i] EXCEPT !.acked = TRUE] ELSE m[i]]
  BY <1>4, Zenon DEF AckOneMessage
<1> HIDE DEF d
<1>6. AckSome(m, d, A)
  <2>1. \A i \in 1 .. n : i \in A <=> m[i].type = "sent" /\ m[i].k = k /\ m[i].seq = r.seq
    OBVIOUS
  <2> HIDE DEF A
  <2> QED BY <1>5, <2>1 DEF AckSome
<1>7. /\ Alike(m, d)
      /\ \A i \in 1 .. n : /\ d[i].missing = m[i].missing
                           /\ d[i].acked = IF i \in A THEN TRUE ELSE m[i].acked
  <2> HIDE DEF A
  <2>1. SomeAcked(m, d, A)
    BY <1>4, <1>6, AckSomeIs, Zenon
  <2> QED BY <2>1 DEF SomeAcked
<1>8. ASSUME NEW i \in 1 .. n PROVE AckIs(d[i], s) /\ GapIs(d[i], R)
  <2>1. d[i].k = m[i].k /\ d[i].type = m[i].type /\ d[i].seq = m[i].seq /\ d[i].missing = m[i].missing
    BY <1>7 DEF Alike, Same
  <2>2. d[i].acked = IF i \in A THEN TRUE ELSE m[i].acked
    BY <1>7
  <2>3. i \in A <=> m[i].type = "sent" /\ m[i].k = k /\ m[i].seq = r.seq
    OBVIOUS
  <2>4. AckedIn(s[m[i].k], m[i].seq)
          <=> AckedIn(files[m[i].k], m[i].seq) \/ (m[i].k = k /\ r.seq = m[i].seq)
    BY <1>2, <1>4
  <2>5. m[i].acked = (m[i].type = "sent" /\ AckedIn(files[m[i].k], m[i].seq))
    BY <1>3 DEF AckIs
  <2> HIDE DEF A
  <2>6. d[i].acked = (m[i].type = "sent" /\ AckedIn(s[m[i].k], m[i].seq))
    BY <2>2, <2>3, <2>4, <2>5
  <2>7. GapIs(m[i], R)
    BY <1>3
  <2> QED BY <2>1, <2>6, <2>7 DEF AckIs, GapIs
<1>9. Holding(d, R) /\ Len(d) = n
  BY <1>3, <1>7, AlikeHolds DEF Alike
<1> QED BY <1>1, <1>8, <1>9 DEF Full, d, s

LEMMA MessageSaved ==
  ASSUME NEW files \in FilesType, NEW k \in Keysets, NEW r \in RecordType, r.type # "ack",
         NewRecord(files, k, r), NEW m, Full(m, Pairs(files, Keysets), files)
  PROVE  LET s == Appended(files, k, r)
         IN  Full(AddMessage(m, k, r, s[k]), Pairs(s, Keysets), s)
<1> DEFINE R == Pairs(files, Keysets)
           s == Appended(files, k, r)
           p == <<k, r>>
           Q == R \cup {p}
           e == Message(k, r)
           a == Append(m, e)
<1>1. Pairs(s, Keysets) = Q /\ NewIn(p, R)
  BY SavedPairs
<1>2. \A j \in Keysets : \A x : AckedIn(s[j], x) <=> AckedIn(files[j], x)
  BY SavedPairs
<1>3. s \in FilesType
  BY SavedIs
<1>4. e \in MessageType /\ e.k = k /\ e.type = r.type /\ e.acked = FALSE /\ e.missing = 0 /\ OfPair(e, p)
  BY MessageIs
<1>5. p[1] = k /\ p[2].type = r.type
  OBVIOUS
<1>6. AddMessage(m, k, r, s[k]) = IF r.type = "rcvd" THEN SetMissing(a, k) ELSE AckAllMessages(a, k, s[k])
  BY Zenon DEF AddMessage
<1> HIDE DEF R, s, p, e
<1>7. Holding(m, R) /\ \A i \in 1 .. Len(m) : AckIs(m[i], files) /\ GapIs(m[i], R)
  BY DEF Full, R
<1>8. m \in Seq(MessageType) /\ Len(m) \in Nat /\ \A i \in 1 .. Len(m) : m[i].k \in Keysets
  BY <1>7, HeldTypes
<1>9. Put(m, a, e, Len(m))
  BY <1>4, <1>8, AppendPuts
<1> HIDE DEF a
<1>10. Holding(a, Q)
  BY <1>1, <1>4, <1>7, <1>9, PutHolds
<1>11. \A i \in 1 .. Len(a) : a[i] = e \/ \E j \in 1 .. Len(m) : a[i] = m[j]
  <2>1. a[Len(m) + 1] = e /\ \A i \in 1 .. Len(a) : i # Len(m) + 1 => \E j \in 1 .. Len(m) : a[i] = m[j]
    BY <1>8, <1>9, PutIs DEF Put
  <2> QED BY <2>1
<1>12. \A j : j # k \/ r.type # "rcvd" => Numbers(Q, j) = Numbers(R, j)
  <2> TAKE j
  <2>1. ASSUME j # k \/ r.type # "rcvd" PROVE Numbers(R \cup {p}, j) = Numbers(R, j)
    <3>1. \A q \in {p} : q[1] # j \/ q[2].type # "rcvd"
      BY <1>5, <2>1
    <3> QED BY <3>1, NumbersOther
  <2> QED BY <2>1
<1> HIDE DEF Q
<1>13. \A i \in 1 .. Len(m) : AckIs(m[i], s)
  BY <1>2, <1>7, <1>8 DEF AckIs
<1>14. \A i \in 1 .. Len(m) : m[i].k # k \/ r.type # "rcvd" => GapIs(m[i], Q)
  BY <1>7, <1>12 DEF GapIs
<1>15. CASE r.type = "rcvd"
  <2> DEFINE d == SetMissing(a, k)
  <2>1. \A i \in 1 .. Len(a) : AckIs(a[i], s)
    <3>1. AckIs(e, s)
      BY <1>4, <1>15 DEF AckIs
    <3> QED BY <1>11, <1>13, <3>1
  <2>2. \A i \in 1 .. Len(a) : a[i].k # k \/ a[i].type # "rcvd" => GapIs(a[i], Q)
    <3> SUFFICES ASSUME NEW i \in 1 .. Len(a), a[i].k # k \/ a[i].type # "rcvd" PROVE GapIs(a[i], Q)
      OBVIOUS
    <3>1. PICK j \in 1 .. Len(m) : a[i] = m[j]
      BY <1>4, <1>11, <1>15
    <3>2. CASE m[j].k # k
      BY <1>14, <3>1, <3>2
    <3>3. CASE m[j].type # "rcvd"
      BY <1>7, <3>1, <3>3 DEF GapIs
    <3> QED BY <3>1, <3>2, <3>3
  <2>3. /\ Holding(d, Q) /\ Alike(a, d)
        /\ \A i \in 1 .. Len(a) : GapIs(d[i], Q) /\ d[i].acked = a[i].acked
    BY <1>10, <2>2, SetMissingIs
  <2> HIDE DEF d
  <2>4. \A i \in 1 .. Len(a) : AckIs(d[i], s)
    BY <2>1, <2>3 DEF AckIs, Alike, Same
  <2>5. Full(d, Q, s)
    BY <2>3, <2>4 DEF Full, Alike
  <2> QED BY <1>1, <1>6, <1>15, <2>5 DEF s, d
<1>16. CASE r.type # "rcvd"
  <2> DEFINE d == AckAllMessages(a, k, s[k])
  <2>1. \A i \in 1 .. Len(a) : IF a[i].k = k THEN a[i].acked => AckIs(a[i], s) ELSE AckIs(a[i], s)
    BY <1>4, <1>11, <1>13
  <2>2. \A i \in 1 .. Len(a) : GapIs(a[i], Q)
    <3>1. GapIs(e, Q)
      BY <1>4, <1>16 DEF GapIs
    <3> QED BY <1>11, <1>14, <1>16, <3>1
  <2>3. /\ Alike(a, d) /\ Holding(d, Q)
        /\ \A i \in 1 .. Len(a) : AckIs(d[i], s) /\ d[i].missing = a[i].missing
    BY <1>3, <1>10, <2>1, AckAllIs
  <2> HIDE DEF d
  <2>4. \A i \in 1 .. Len(a) : GapIs(d[i], Q)
    BY <2>2, <2>3 DEF GapIs, Alike, Same
  <2>5. Full(d, Q, s)
    BY <2>3, <2>4 DEF Full, Alike
  <2> QED BY <1>1, <1>6, <1>16, <2>5 DEF s, d
<1> QED BY <1>15, <1>16

LEMMA SaveKeeps ==
  ASSUME StoreInv, NEW k \in Keysets, NEW r \in RecordType, SaveRecord(k, r),
         r.type # "ack" => NewRecord(log, k, r) /\ r.seq \in 1 .. MaxSeq
  PROVE  StoreInv'
<1>1. /\ log' = Appended(log, k, r) /\ cached' = cached /\ cleared' = cleared
      /\ msgs' = IF ~ cached THEN msgs
                 ELSE IF r.type = "ack" THEN AckOneMessage(msgs, k, r.seq)
                 ELSE AddMessage(msgs, k, r, log'[k])
  BY DEF SaveRecord, Appended
<1>2. LogInv'
  BY <1>1, SavedKeeps DEF StoreInv
<1>3. log \in FilesType
  BY DEF StoreInv, LogInv, FilesOk
<1>4. ASSUME cached, ~ cleared PROVE Full(msgs', Pairs(log', Keysets), log')
  <2>1. Full(msgs, Pairs(log, Keysets), log)
    BY <1>4 DEF StoreInv
  <2>2. CASE r.type = "ack"
    BY <1>1, <1>3, <1>4, <2>1, <2>2, AckSaved
  <2>3. CASE r.type # "ack"
    <3>1. msgs' = AddMessage(msgs, k, r, log'[k])
      BY <1>1, <1>4, <2>3
    <3> QED BY <1>1, <1>3, <2>1, <2>3, <3>1, MessageSaved
  <2> QED BY <2>2, <2>3
<1> QED BY <1>1, <1>2, <1>4 DEF StoreInv

LEMMA SentIsNew ==
  ASSUME StoreInv, NEW k \in Keysets, NEW time
  PROVE  LET next == Max({0} \cup Seqs(k, "sent")) + 1
         IN  next \in Nat \ {0} /\ NewRecord(log, k, Record("sent", next, time))
<1> DEFINE f == log[k]
           S == {0} \cup Seqs(k, "sent")
           next == Max(S) + 1
<1>1. f \in Seq(RecordType) /\ \A i \in 1 .. Len(f) : f[i].type = "sent" => f[i].seq \in 1 .. MaxSeq
  BY DEF StoreInv, LogInv, FilesOk, FilesType
<1>2. DOMAIN f = 1 .. Len(f) /\ \A i \in 1 .. Len(f) : f[i].seq \in Nat
  <2>1. \A i \in 1 .. Len(f) : f[i] \in RecordType
    BY <1>1
  <2> QED BY <1>1, <2>1 DEF RecordType
<1>3. \A x : x \in Seqs(k, "sent") <=> \E i \in 1 .. Len(f) : f[i].type = "sent" /\ f[i].seq = x
  BY <1>2 DEF Seqs, Records
<1>4. \A x \in S : x = 0 \/ x \in Seqs(k, "sent")
  OBVIOUS
<1>5. 0 \in S /\ \A i \in 1 .. Len(f) : f[i].type = "sent" => f[i].seq \in S
  BY <1>3
<1> HIDE DEF f, S
<1>6. S \in SUBSET Nat /\ S # {} /\ MaxSeq \in Nat /\ \A x \in S : x <= MaxSeq
  <2>1. MaxSeq \in Nat
    BY StoreAssumption
  <2> QED BY <1>1, <1>2, <1>3, <1>4, <1>5, <2>1
<1>7. Max(S) \in S /\ \A x \in S : x <= Max(S)
  BY <1>6, GreatestIs
<1>8. next \in Nat \ {0}
  <2>1. Max(S) \in Nat
    BY <1>6, <1>7
  <2> HIDE DEF S
  <2> QED BY <2>1
<1>9. \A i \in 1 .. Len(f) : ~ (f[i].type = "sent" /\ f[i].seq = next)
  <2> SUFFICES ASSUME NEW i \in 1 .. Len(f), f[i].type = "sent", f[i].seq = next PROVE FALSE
    OBVIOUS
  <2>1. f[i].seq <= Max(S) /\ Max(S) \in Nat
    BY <1>5, <1>6, <1>7
  <2> QED BY <2>1
<1> HIDE DEF next
<1>10. Record("sent", next, time).type = "sent" /\ Record("sent", next, time).seq = next
  BY DEF Record
<1>11. NewRecord(log, k, Record("sent", next, time))
  BY <1>9, <1>10 DEF NewRecord, f
<1> QED BY <1>8, <1>11 DEF next, S

-----------------------------------------------------------------------------
(***************************************************************************)
(* The gaps: between a number and the one before it there is nothing       *)
(* received, and all that was not received is in one gap.                  *)
(***************************************************************************)
LEMMA BeforeFacts ==
  ASSUME NEW N \in SUBSET Nat, NEW x \in Nat, x # 0
  PROVE  /\ Before(N, x) \in Nat /\ Before(N, x) < x /\ (Before(N, x) = 0 \/ Before(N, x) \in N)
         /\ \A y \in N : y < x => y <= Before(N, x)
<1> DEFINE T == {0} \cup {y \in N : y < x}
<1>1. \A y : y \in T <=> y = 0 \/ (y \in N /\ y < x)
  OBVIOUS
<1> HIDE DEF T
<1>2. T \in SUBSET Nat /\ T # {} /\ \A y \in T : y <= x
  <2>1. ASSUME NEW y \in T PROVE y \in Nat /\ y <= x
    <3>1. CASE y = 0
      BY <3>1
    <3>2. CASE y \in N /\ y < x
      BY <3>2
    <3> QED BY <1>1, <3>1, <3>2
  <2> QED BY <1>1, <2>1
<1>3. Max(T) \in T /\ \A y \in T : y <= Max(T)
  BY <1>2, GreatestIs
<1>4. Max(T) = Before(N, x)
  BY DEF T, Before
<1> DEFINE b == Before(N, x)
<1>5. b \in T /\ b \in Nat /\ \A y \in T : y <= b
  BY <1>2, <1>3, <1>4
<1> HIDE DEF b
<1>6. b < x /\ (b = 0 \/ b \in N)
  BY <1>1, <1>5
<1>7. \A y \in N : y < x => y <= b
  BY <1>1, <1>5
<1> QED BY <1>5, <1>6, <1>7 DEF b

Gap(N, x) == Before(N, x) + 1 .. x - 1

LEMMA GapCounts ==
  ASSUME NEW N \in SUBSET Nat, NEW x \in Nat, x # 0
  PROVE  IsFiniteSet(Gap(N, x)) /\ Cardinality(Gap(N, x)) = x - (Before(N, x) + 1)
<1>1. Before(N, x) \in Nat /\ Before(N, x) < x
  BY BeforeFacts
<1> DEFINE a == Before(N, x) + 1
           b == x - 1
<1>2. a \in Int /\ b \in Int /\ (a > b => x - a = 0) /\ b - a + 1 = x - a
  BY <1>1
<1>3. IsFiniteSet(a .. b) /\ Cardinality(a .. b) = IF a > b THEN 0 ELSE b - a + 1
  <2> HIDE DEF a, b
  <2> QED BY <1>2, FS_Interval
<1>4. Cardinality(a .. b) = x - a
  <2> HIDE DEF a, b
  <2> QED BY <1>2, <1>3
<1> QED BY <1>3, <1>4 DEF Gap

LEMMA GapsApart ==
  ASSUME NEW N \in SUBSET Nat, NEW x \in N, NEW y \in N, x # 0, y # 0, x # y
  PROVE  Gap(N, x) \cap Gap(N, y) = {}
<1>1. /\ Before(N, x) \in Nat /\ Before(N, y) \in Nat
      /\ y < x => y <= Before(N, x)
      /\ x < y => x <= Before(N, y)
  BY BeforeFacts
<1>2. x \in Nat /\ y \in Nat
  OBVIOUS
<1> QED BY <1>1, <1>2 DEF Gap

\* N has the numbers of the received messages of k in m, each once.
Numbered(m, k, N) ==
  /\ m \in Seq(MessageType) /\ N \in SUBSET Nat /\ 0 \notin N /\ \A x \in N : x <= MaxSeq
  /\ \A i \in Received(m, k) : m[i].seq \in N /\ m[i].missing = m[i].seq - (Before(N, m[i].seq) + 1)
  /\ \A x \in N : \E i \in Received(m, k) : m[i].seq = x
  /\ \A i, j \in Received(m, k) : m[i].seq = m[j].seq => i = j

LEMMA FullNumbered ==
  ASSUME StoreInv, cached, ~ cleared, NEW k \in Keysets
  PROVE  Numbered(msgs, k, Numbers(Pairs(log, Keysets), k))
<1> DEFINE R == Pairs(log, Keysets)
           N == Numbers(R, k)
<1>1. Full(msgs, R, log)
  BY DEF StoreInv
<1>2. \A p \in R : p[1] \in Keysets /\ p[2].seq \in Nat \ {0} /\ p[2].seq <= MaxSeq
  <2> TAKE p \in R
  <2>1. /\ p[1] \in Keysets /\ p[2] \in RecordType /\ p[2].type # "ack"
        /\ \E i \in 1 .. Len(log[p[1]]) : log[p[1]][i] = p[2]
    BY DEF Pairs
  <2>2. PICK i \in 1 .. Len(log[p[1]]) : log[p[1]][i] = p[2]
    BY <2>1
  <2>3. p[2].seq \in 1 .. MaxSeq
    BY <2>1, <2>2 DEF StoreInv, LogInv
  <2> QED BY <2>1, <2>3, StoreAssumption DEF RecordType
<1> HIDE DEF R
<1>3. Holding(msgs, R) /\ \A i \in 1 .. Len(msgs) : GapIs(msgs[i], R)
  BY <1>1 DEF Full
<1>4. /\ msgs \in Seq(MessageType) /\ DOMAIN msgs = 1 .. Len(msgs)
      /\ \A i \in 1 .. Len(msgs) : msgs[i].seq \in Nat
  BY <1>3, HeldTypes
<1>5. \A i : i \in Received(msgs, k) <=> i \in 1 .. Len(msgs) /\ msgs[i].k = k /\ msgs[i].type = "rcvd"
  BY <1>4 DEF Received
<1>6. N \in SUBSET Nat /\ 0 \notin N /\ \A x \in N : x <= MaxSeq
  BY <1>2 DEF Numbers
<1>7. ASSUME NEW i \in Received(msgs, k)
      PROVE  msgs[i].seq \in N /\ msgs[i].missing = msgs[i].seq - (Before(N, msgs[i].seq) + 1)
  <2>1. i \in 1 .. Len(msgs) /\ msgs[i].k = k /\ msgs[i].type = "rcvd"
    BY <1>5
  <2>2. PICK p \in R : OfPair(msgs[i], p)
    BY <1>3, <2>1 DEF Holding
  <2>3. msgs[i].seq \in N
    BY <1>4, <2>1, <2>2 DEF OfPair, Numbers
  <2>4. GapIs(msgs[i], R)
    BY <1>3, <2>1
  <2> QED BY <2>1, <2>3, <2>4 DEF GapIs
<1>8. ASSUME NEW x \in N PROVE \E i \in Received(msgs, k) : msgs[i].seq = x
  <2>1. PICK p \in R : p[1] = k /\ p[2].type = "rcvd" /\ p[2].seq = x
    BY DEF Numbers
  <2>2. PICK i \in 1 .. Len(msgs) : OfPair(msgs[i], p)
    BY <1>3 DEF Holding
  <2> QED BY <1>5, <2>1, <2>2 DEF OfPair
<1>9. \A i, j \in Received(msgs, k) : msgs[i].seq = msgs[j].seq => i = j
  BY <1>3, <1>5 DEF Holding, Same
<1> QED BY <1>4, <1>6, <1>7, <1>8, <1>9 DEF Numbered, R

\* The gaps before the first n messages.
Gaps(m, k, N, n) == {y \in Nat : \E i \in Received(m, k) : i <= n /\ y \in Gap(N, m[i].seq)}

LEMMA GapsGrow ==
  ASSUME NEW m, NEW k, NEW N, Numbered(m, k, N), NEW n \in 1 .. Len(m),
         IsFiniteSet(Gaps(m, k, N, n - 1))
  PROVE  /\ IsFiniteSet(Gaps(m, k, N, n))
         /\ Cardinality(Gaps(m, k, N, n)) = Cardinality(Gaps(m, k, N, n - 1))
              + IF n \in Received(m, k) THEN m[n].missing ELSE 0
<1> DEFINE G == Gaps(m, k, N, n - 1)
           H == Gaps(m, k, N, n)
           rec == Received(m, k)
<1>1. m \in Seq(MessageType) /\ n \in Nat /\ \A i \in rec : i \in 1 .. Len(m) /\ i \in Nat
  BY DEF Numbered, Received
<1>2. \A i \in rec : m[i].seq \in Nat /\ m[i].seq # 0 /\ m[i].seq \in N
  <2>1. N \in SUBSET Nat /\ 0 \notin N /\ \A i \in rec : m[i].seq \in N
    BY DEF Numbered
  <2> HIDE DEF rec
  <2> QED BY <2>1
<1>3. Cardinality(G) \in Nat
  BY FS_CardinalityType
<1> HIDE DEF rec
<1>4. \A i \in rec : i <= n <=> i <= n - 1 \/ i = n
  BY <1>1
<1>5. CASE n \notin rec
  <2>1. \A i \in rec : i <= n <=> i <= n - 1
    BY <1>4, <1>5
  <2>2. H = G
    BY <2>1 DEF Gaps, rec
  <2> HIDE DEF G, H
  <2>3. Cardinality(H) = Cardinality(G) + 0 /\ IsFiniteSet(H)
    BY <1>3, <2>2 DEF G
  <2> QED BY <1>5, <2>3 DEF G, H, rec
<1>6. CASE n \in rec
  <2> DEFINE x == m[n].seq
             T == Gap(N, x)
  <2>1. N \in SUBSET Nat /\ x \in Nat /\ x # 0 /\ x \in N /\ m[n].missing = x - (Before(N, x) + 1)
    BY <1>2, <1>6 DEF Numbered, rec
  <2>2. IsFiniteSet(T) /\ Cardinality(T) = m[n].missing
    BY <2>1, GapCounts
  <2>3. T \in SUBSET Nat
    BY <2>1, BeforeFacts DEF Gap
  <2>4. \A y : y \in H <=> y \in G \/ y \in T
    <3>1. \A y \in Nat : y \in H <=> \E i \in rec : i <= n /\ y \in Gap(N, m[i].seq)
      BY DEF Gaps, rec
    <3>2. \A y \in Nat : y \in G <=> \E i \in rec : i <= n - 1 /\ y \in Gap(N, m[i].seq)
      BY DEF Gaps, rec
    <3>3. \A y : y \in G \/ y \in H => y \in Nat
      BY DEF Gaps
    <3> HIDE DEF G, H
    <3>4. \A y \in Nat : y \in H <=> y \in G \/ y \in T
      <4> TAKE y \in Nat
      <4>1. y \in T <=> y \in Gap(N, m[n].seq)
        OBVIOUS
      <4> HIDE DEF T
      <4>2. ASSUME y \in H PROVE y \in G \/ y \in T
        <5>1. PICK i \in rec : i <= n /\ y \in Gap(N, m[i].seq)
          BY <3>1, <4>2
        <5>2. CASE i = n
          BY <4>1, <5>1, <5>2
        <5>3. CASE i # n
          <6>1. i <= n - 1
            BY <1>4, <5>1, <5>3
          <6> QED BY <3>2, <5>1, <6>1
        <5> QED BY <5>2, <5>3
      <4>3. ASSUME y \in G PROVE y \in H
        <5>1. PICK i \in rec : i <= n - 1 /\ y \in Gap(N, m[i].seq)
          BY <3>2, <4>3
        <5>2. i <= n
          BY <1>4, <5>1
        <5> QED BY <3>1, <5>1, <5>2
      <4>4. ASSUME y \in T PROVE y \in H
        <5>1. n <= n
          BY <1>1
        <5> QED BY <1>6, <3>1, <4>1, <4>4, <5>1
      <4> QED BY <4>2, <4>3, <4>4
    <3> QED BY <2>3, <3>3, <3>4
  <2>5. G \cap T = {}
    <3> SUFFICES ASSUME NEW y \in G, y \in T PROVE FALSE
      OBVIOUS
    <3>1. PICK i \in rec : i <= n - 1 /\ y \in Gap(N, m[i].seq)
      BY DEF Gaps, rec
    <3>2. i # n
      BY <1>1, <3>1
    <3>3. m[i].seq # x
      BY <1>6, <3>2 DEF Numbered, rec
    <3>4. Gap(N, m[i].seq) \cap Gap(N, x) = {}
      BY <1>2, <2>1, <3>3, GapsApart
    <3> QED BY <3>1, <3>4
  <2>6. H = G \cup T
    BY <2>4
  <2> HIDE DEF G, H, T
  <2>7. IsFiniteSet(G)
    BY DEF G
  <2>8. IsFiniteSet(H) /\ Cardinality(H) = Cardinality(G) + Cardinality(T) - Cardinality(G \cap T)
    BY <2>2, <2>6, <2>7, FS_Union
  <2>9. Cardinality(G \cap T) = 0 /\ Cardinality(T) \in Nat
    BY <2>2, <2>5, FS_EmptySet, FS_CardinalityType
  <2>10. Cardinality(H) = Cardinality(G) + m[n].missing
    BY <1>3, <2>2, <2>8, <2>9
  <2> QED BY <1>6, <2>8, <2>10 DEF G, H, rec
<1> QED BY <1>5, <1>6

(* What was not received up to the last number is what the gaps have.        *)
LEMMA GapsAreAll ==
  ASSUME NEW m, NEW k, NEW N, Numbered(m, k, N), NEW x \in N, \A y \in N : y <= x
  PROVE  Gaps(m, k, N, Len(m)) = (1 .. x) \ N
<1>1. /\ N \in SUBSET Nat /\ 0 \notin N /\ \A i \in Received(m, k) : m[i].seq \in N
      /\ \A y \in N : \E i \in Received(m, k) : m[i].seq = y
  BY DEF Numbered
<1>2. \A i \in Received(m, k) : i <= Len(m)
  BY DEF Numbered, Received
<1>3. ASSUME NEW y \in Gaps(m, k, N, Len(m)) PROVE y \in (1 .. x) \ N
  <2>1. PICK i \in Received(m, k) : y \in Gap(N, m[i].seq)
    BY DEF Gaps
  <2> DEFINE z == m[i].seq
  <2>2. z \in N /\ z \in Nat /\ z # 0 /\ z <= x
    BY <1>1
  <2> HIDE DEF z
  <2>3. Before(N, z) \in Nat /\ \A w \in N : w < z => w <= Before(N, z)
    BY <1>1, <2>2, BeforeFacts
  <2>4. y \in Before(N, z) + 1 .. z - 1
    BY <2>1 DEF z, Gap
  <2>5. y \in 1 .. x /\ y < z /\ ~ y <= Before(N, z)
    BY <1>1, <2>2, <2>3, <2>4
  <2> QED BY <2>3, <2>5
<1>4. ASSUME NEW y \in (1 .. x) \ N PROVE y \in Gaps(m, k, N, Len(m))
  <2> DEFINE S == {z \in N : y < z}
  <2>1. S \in SUBSET Nat /\ x \in S
    <3>1. y # x /\ y <= x /\ y \in Nat /\ x \in Nat
      BY <1>1
    <3>2. x \in N /\ y < x
      BY <3>1
    <3>3. \A z \in S : z \in N
      OBVIOUS
    <3>4. x \in S
      BY <3>2
    <3> HIDE DEF S
    <3> QED BY <1>1, <3>3, <3>4
  <2>2. PICK z \in S : \A w \in S : z <= w
    <3> HIDE DEF S
    <3>1. S # {}
      BY <2>1
    <3> QED BY <2>1, <3>1, Least
  <2>3. z \in N /\ z \in Nat /\ z # 0 /\ y < z /\ y \in Nat /\ y # 0
    BY <1>1
  <2> DEFINE b == Before(N, z)
  <2>4. b \in Nat /\ b < z /\ (b = 0 \/ b \in N)
    BY <1>1, <2>3, BeforeFacts
  <2> HIDE DEF b
  <2>5. b < y
    <3> SUFFICES ASSUME ~ b < y PROVE FALSE
      OBVIOUS
    <3>1. b \in N /\ b # y
      BY <2>3, <2>4
    <3>2. b \in S
      BY <2>3, <2>4, <3>1
    <3> QED BY <2>2, <2>3, <2>4, <3>2
  <2>6. y \in Gap(N, z)
    BY <2>3, <2>4, <2>5 DEF Gap, b
  <2>7. PICK i \in Received(m, k) : m[i].seq = z
    BY <1>1, <2>3
  <2> QED BY <1>2, <2>3, <2>6, <2>7 DEF Gaps
<1> QED BY <1>3, <1>4

MissingLoop(t, m, k) ==
  t = [n \in 0 .. Len(m) |->
         IF n = 0 THEN 0
         ELSE IF n \in Received(m, k) THEN t[n - 1] + m[n].missing ELSE t[n - 1]]

LEMMA MissingCounts ==
  ASSUME NEW m, NEW k, NEW N, Numbered(m, k, N)
  PROVE  AllMissing(m, k) = Cardinality(Gaps(m, k, N, Len(m)))
<1> DEFINE l == Len(m)
           rec == Received(m, k)
           Plus(x, n) == IF n \in Received(m, k) THEN x + m[n].missing ELSE x
           Step(t, n) == IF n = 0 THEN 0
                         ELSE IF n \in Received(m, k) THEN t[n - 1] + m[n].missing ELSE t[n - 1]
           c == CHOOSE t : MissingLoop(t, m, k)
           D == {n \in Nat : n <= l =>
                  IsFiniteSet(Gaps(m, k, N, n)) /\ Cardinality(Gaps(m, k, N, n)) = c[n]}
<1>1. l \in Nat /\ \A n \in rec : m[n].missing \in Int /\ n \in 1 .. l
  <2>1. m \in Seq(MessageType)
    BY DEF Numbered
  <2>2. \A n \in 1 .. l : m[n] \in MessageType
    BY <2>1
  <2>3. \A n \in rec : n \in 1 .. l
    BY <2>1 DEF Received
  <2>4. \A n \in 1 .. l : m[n].missing \in Int
    BY <2>2 DEF MessageType
  <2> QED BY <2>1, <2>3, <2>4
<1>2. AllMissing(m, k) = c[l]
  BY Zenon DEF AllMissing, MissingLoop
<1>3. \A t : MissingLoop(t, m, k) <=> t = [n \in 0 .. l |-> Step(t, n)]
  BY Zenon DEF MissingLoop
<1>4. \A t : Step(t, 0) = 0
  OBVIOUS
<1>5. \A t : \A n \in 1 .. l : Step(t, n) = Plus(t[n - 1], n)
  <2>1. \A n \in 1 .. l : n # 0
    BY <1>1
  <2> HIDE DEF l
  <2> QED BY <2>1
<1> HIDE DEF Step
<1>6. \E t : MissingLoop(t, m, k)
  <2> DEFINE g == [x \in Int \X (1 .. l) |-> Plus(x[1], x[2])]
  <2>1. \A x \in Int, n \in 1 .. l : Plus(x, n) \in Int
    BY <1>1
  <2> HIDE DEF Plus, l
  <2>2. g \in [Int \X (1 .. l) -> Int]
    BY <2>1
  <2>3. \A x \in Int, n \in 1 .. l : g[<<x, n>>] = Plus(x, n)
    OBVIOUS
  <2> HIDE DEF g
  <2>4. 0 \in Int
    OBVIOUS
  <2>5. PICK t : Iterates(t, Int, 0, g, l)
    BY <1>1, <2>2, <2>4, Iteration, Zenon
  <2>6. ASSUME NEW n \in 0 .. l PROVE t[n] = Step(t, n)
    <3>1. CASE n = 0
      BY <1>4, <2>5, <3>1 DEF Iterates
    <3>2. CASE n # 0
      <4>1. n \in 1 .. l /\ n - 1 \in 0 .. l
        BY <1>1, <3>2
      <4>2. t[n - 1] \in Int /\ t[n] = g[<<t[n - 1], n>>]
        BY <2>5, <4>1 DEF Iterates
      <4>3. g[<<t[n - 1], n>>] = Step(t, n)
        BY <1>5, <2>3, <4>1, <4>2, Zenon
      <4> QED BY <4>2, <4>3
    <3> QED BY <3>1, <3>2
  <2>7. t = [n \in 0 .. l |-> Step(t, n)]
    BY <2>5, <2>6 DEF Iterates
  <2> QED BY <1>3, <2>7
<1>7. MissingLoop(c, m, k)
  BY <1>6
<1> HIDE DEF c, l, Plus
<1>8. c[0] = 0 /\ \A n \in 1 .. l : c[n] = Plus(c[n - 1], n)
  <2>1. c = [n \in 0 .. l |-> Step(c, n)]
    BY <1>3, <1>7
  <2>2. \A n \in 0 .. l : c[n] = Step(c, n)
    BY <2>1
  <2>3. 0 \in 0 .. l /\ \A n \in 1 .. l : n \in 0 .. l
    BY <1>1
  <2> QED BY <1>4, <1>5, <2>2, <2>3
<1>9. 0 \in D
  <2>1. Gaps(m, k, N, 0) = {}
    <3>1. \A i \in rec : ~ i <= 0
      BY <1>1
    <3> QED BY <3>1 DEF Gaps
  <2> QED BY <1>8, <2>1, FS_EmptySet
<1>10. ASSUME NEW n \in D PROVE n + 1 \in D
  <2> SUFFICES ASSUME n + 1 <= l
               PROVE  IsFiniteSet(Gaps(m, k, N, n + 1)) /\ Cardinality(Gaps(m, k, N, n + 1)) = c[n + 1]
    OBVIOUS
  <2>1. /\ n \in Nat /\ n + 1 \in 1 .. l /\ (n + 1) - 1 = n
        /\ IsFiniteSet(Gaps(m, k, N, n)) /\ Cardinality(Gaps(m, k, N, n)) = c[n]
    BY <1>1
  <2> HIDE DEF D
  <2> DEFINE j == n + 1
  <2>2. j \in 1 .. Len(m) /\ j - 1 = n
    BY <2>1 DEF l
  <2> HIDE DEF j
  <2>3. /\ IsFiniteSet(Gaps(m, k, N, j))
        /\ Cardinality(Gaps(m, k, N, j)) = Cardinality(Gaps(m, k, N, n))
             + IF j \in Received(m, k) THEN m[j].missing ELSE 0
    <3>1. IsFiniteSet(Gaps(m, k, N, j - 1))
      BY <2>1, <2>2
    <3>2. /\ IsFiniteSet(Gaps(m, k, N, j))
          /\ Cardinality(Gaps(m, k, N, j)) = Cardinality(Gaps(m, k, N, j - 1))
               + IF j \in Received(m, k) THEN m[j].missing ELSE 0
      BY <2>2, <3>1, GapsGrow
    <3> QED BY <2>2, <3>2
  <2>4. c[j] = Plus(c[n], j)
    BY <1>8, <2>2 DEF l
  <2>5. c[n] \in Int
    BY <2>1, FS_CardinalityType
  <2>6. c[j] = c[n] + IF j \in Received(m, k) THEN m[j].missing ELSE 0
    BY <2>4, <2>5 DEF Plus
  <2> QED BY <2>1, <2>3, <2>6 DEF j
<1>11. D = Nat
  <2>1. D \in SUBSET Nat
    OBVIOUS
  <2> HIDE DEF D
  <2> QED BY <1>9, <1>10, <2>1, Induction
<1>12. l \in D
  BY <1>1, <1>11
<1>13. Cardinality(Gaps(m, k, N, l)) = c[l]
  BY <1>1, <1>12
<1> QED BY <1>2, <1>13 DEF l

LEMMA NumberedAddsUp ==
  ASSUME NEW m, NEW k, NEW N, Numbered(m, k, N), Received(m, k) # {}
  PROVE  AllMissing(m, k) = Max({m[i].seq : i \in Received(m, k)}) - Cardinality(Received(m, k))
<1> DEFINE rec == Received(m, k)
           x == Max({m[i].seq : i \in rec})
<1>1. /\ m \in Seq(MessageType) /\ N \in SUBSET Nat /\ 0 \notin N
      /\ \A i \in rec : m[i].seq \in N
      /\ \A y \in N : \E i \in rec : m[i].seq = y
      /\ \A i, j \in rec : m[i].seq = m[j].seq => i = j
  BY DEF Numbered
<1>2. {m[i].seq : i \in rec} = N
  <2> HIDE DEF rec
  <2>1. \A y : y \in {m[i].seq : i \in rec} <=> \E i \in rec : m[i].seq = y
    OBVIOUS
  <2>2. \A y : y \in N <=> \E i \in rec : m[i].seq = y
    BY <1>1
  <2> QED BY <2>1, <2>2
<1>3. rec \in SUBSET (1 .. Len(m)) /\ Len(m) \in Nat
  BY <1>1 DEF Received
<1>4. IsFiniteSet(rec)
  <2>1. IsFiniteSet(1 .. Len(m))
    BY <1>3, FS_Interval
  <2> HIDE DEF rec
  <2> QED BY <1>3, <2>1, FS_Subset
<1> HIDE DEF rec
<1>5. IsFiniteSet(N) /\ Cardinality(N) = Cardinality(rec)
  <2> DEFINE f == [i \in rec |-> m[i].seq]
  <2>1. f \in [rec -> N] /\ (\A i, j \in rec : f[i] = f[j] => i = j) /\ \A y \in N : \E i \in rec : f[i] = y
    BY <1>1
  <2> HIDE DEF f
  <2>2. f \in Bijection(rec, N)
    BY <2>1 DEF Bijection, Injection, Surjection, IsInjective
  <2>3. ExistsBijection(rec, N)
    BY <2>2 DEF ExistsBijection
  <2> QED BY <1>4, <2>3, FS_Bijection
<1>6. x \in N /\ \A y \in N : y <= x
  <2>1. N # {}
    BY <1>1 DEF rec
  <2>2. MaxSeq \in Nat /\ \A y \in N : y <= MaxSeq
    BY StoreAssumption DEF Numbered
  <2> QED BY <1>1, <1>2, <2>1, <2>2, GreatestIs
<1> HIDE DEF x
<1>7. x \in Nat /\ x # 0
  BY <1>1, <1>6
<1>8. AllMissing(m, k) = Cardinality((1 .. x) \ N)
  <2>1. Gaps(m, k, N, Len(m)) = (1 .. x) \ N
    BY <1>6, GapsAreAll
  <2> QED BY <2>1, MissingCounts
<1>9. N \subseteq 1 .. x
  <2> SUFFICES ASSUME NEW y \in N PROVE y \in 1 .. x
    OBVIOUS
  <2>1. y \in Nat /\ y # 0 /\ y <= x
    BY <1>1, <1>6
  <2> QED BY <1>7, <2>1
<1>10. Cardinality((1 .. x) \ N) = x - Cardinality(N)
  <2>1. IsFiniteSet(1 .. x) /\ Cardinality(1 .. x) = x
    <3>1. IsFiniteSet(1 .. x) /\ Cardinality(1 .. x) = IF 1 > x THEN 0 ELSE x - 1 + 1
      BY <1>7, FS_Interval
    <3> QED BY <1>7, <3>1
  <2>2. (1 .. x) \cap N = N
    BY <1>9
  <2>3. Cardinality((1 .. x) \ N) = Cardinality(1 .. x) - Cardinality((1 .. x) \cap N)
    BY <2>1, FS_Difference
  <2> QED BY <2>1, <2>2, <2>3
<1> QED BY <1>5, <1>8, <1>10 DEF rec, x

LEMMA GapsAreMissing == ASSUME StoreInv PROVE MissingAddsUp
<1> SUFFICES ASSUME NEW k \in Keysets, cached, ~ cleared, Received(msgs, k) # {}
             PROVE  AllMissing(msgs, k) = Max({msgs[i].seq : i \in Received(msgs, k)})
                                            - Cardinality(Received(msgs, k))
  BY DEF MissingAddsUp
<1>1. Numbered(msgs, k, Numbers(Pairs(log, Keysets), k))
  BY FullNumbered
<1> QED BY <1>1, NumberedAddsUp

LEMMA RecordIs ==
  ASSUME NEW type \in {"sent", "rcvd", "ack"}, NEW seq \in Nat, NEW time \in Nat
  PROVE  LET r == Record(type, seq, time)
         IN  r \in RecordType /\ r.type = type /\ r.seq = seq
BY DEF Record, RecordType

LEMMA SavesKeep ==
  ASSUME StoreInv, NEW k \in Keysets, NEW time \in 1 .. MaxTime, NEW seq \in 1 .. MaxSeq,
         SaveSent(k, time) \/ SaveReceived(k, seq, time) \/ SaveAck(k, seq)
  PROVE  StoreInv'
<1>1. time \in Nat /\ seq \in Nat /\ 0 \in Nat
  BY StoreAssumption
<1>2. CASE SaveSent(k, time)
  <2> DEFINE next == Max({0} \cup Seqs(k, "sent")) + 1
             r == Record("sent", next, time)
  <2>1. next <= MaxSeq /\ SaveRecord(k, r)
    BY <1>2, Zenon DEF SaveSent
  <2>2. next \in Nat \ {0} /\ NewRecord(log, k, r)
    BY SentIsNew
  <2> HIDE DEF next
  <2>3. r \in RecordType /\ r.type = "sent" /\ r.seq = next
    BY <1>1, <2>2, RecordIs
  <2> HIDE DEF r
  <2>4. r.seq \in 1 .. MaxSeq
    BY <2>1, <2>2, <2>3, StoreAssumption
  <2> QED BY <2>1, <2>2, <2>3, <2>4, SaveKeeps
<1>3. CASE SaveReceived(k, seq, time)
  <2> DEFINE r == Record("rcvd", seq, time)
  <2>1. r \in RecordType /\ r.type = "rcvd" /\ r.seq = seq
    BY <1>1, RecordIs
  <2>2. SaveRecord(k, r) /\ seq \notin Seqs(k, "rcvd")
    BY <1>3, Zenon DEF SaveReceived
  <2> HIDE DEF r
  <2>3. DOMAIN log[k] = 1 .. Len(log[k])
    BY DEF StoreInv, LogInv, FilesOk, FilesType
  <2>4. \A i \in 1 .. Len(log[k]) : ~ (log[k][i].type = "rcvd" /\ log[k][i].seq = seq)
    BY <2>2, <2>3 DEF Seqs, Records
  <2>5. NewRecord(log, k, r)
    BY <2>1, <2>4 DEF NewRecord
  <2> QED BY <2>1, <2>2, <2>5, SaveKeeps
<1>4. CASE SaveAck(k, seq)
  <2> DEFINE r == Record("ack", seq, 0)
  <2>1. r \in RecordType /\ r.type = "ack"
    BY <1>1, RecordIs
  <2>2. SaveRecord(k, r)
    BY <1>4, Zenon DEF SaveAck
  <2> HIDE DEF r
  <2> QED BY <2>1, <2>2, SaveKeeps
<1> QED BY <1>2, <1>3, <1>4

LEMMA EmptyFilesOk == FilesOk([k \in Keysets |-> <<>>])
<1> DEFINE e == [k \in Keysets |-> <<>>]
<1>1. e \in FilesType /\ \A k \in Keysets : e[k] = <<>>
  <2>1. <<>> \in Seq(RecordType)
    OBVIOUS
  <2> QED BY <2>1 DEF FilesType
<1>2. OnePerMessage(<<>>)
  BY DEF OnePerMessage
<1> HIDE DEF e
<1> QED BY <1>1, <1>2 DEF FilesOk, e

LEMMA ClearedLog ==
  ASSUME log' = [k \in Keysets |-> <<>>] PROVE LogInv'
<1>1. FilesOk(log')
  BY EmptyFilesOk
<1>2. \A k \in Keysets : \A i \in 1 .. Len(log'[k]) : FALSE
  OBVIOUS
<1> QED BY <1>1, <1>2 DEF LogInv

LEMMA StoreStart == StoreInit => StoreInv
<1> SUFFICES ASSUME StoreInit PROVE StoreInv
  OBVIOUS
<1>1. log = [k \in Keysets |-> <<>>] /\ cached = FALSE
  BY DEF StoreInit
<1>2. FilesOk(log)
  BY <1>1, EmptyFilesOk
<1>3. \A k \in Keysets : \A i \in 1 .. Len(log[k]) : FALSE
  BY <1>1
<1> QED BY <1>1, <1>2, <1>3 DEF StoreInv, LogInv

LEMMA StoreStep == ASSUME StoreInv, [StoreNext]_store PROVE StoreInv'
<1>1. ASSUME NEW k \in Keysets, NEW time \in 1 .. MaxTime, NEW seq \in 1 .. MaxSeq,
             SaveSent(k, time) \/ SaveReceived(k, seq, time) \/ SaveAck(k, seq)
      PROVE  StoreInv'
  BY <1>1, SavesKeep
<1>2. CASE StartIter
  <2>1. log' = log /\ msgs' = ListAllMessages(log)
    BY <1>2 DEF StartIter
  <2>2. Full(ListAllMessages(log), Pairs(log, Keysets), log)
    BY ListsAll DEF StoreInv, LogInv
  <2>3. LogInv'
    BY <2>1 DEF StoreInv, LogInv
  <2> QED BY <2>1, <2>2, <2>3 DEF StoreInv
<1>3. CASE ClearConversation
  <2>1. log' = [k \in Keysets |-> <<>>] /\ cleared' = cached /\ cached' = cached
    BY <1>3 DEF ClearConversation
  <2> QED BY <2>1, ClearedLog DEF StoreInv
<1>4. CASE Restarted
  <2>1. log' = log /\ cached' = FALSE
    BY <1>4 DEF Restarted
  <2> QED BY <2>1 DEF StoreInv, LogInv
<1>5. CASE UNCHANGED store
  <2>1. log' = log /\ cached' = cached /\ msgs' = msgs /\ cleared' = cleared
    BY <1>5 DEF store
  <2> QED BY <2>1 DEF StoreInv, LogInv
<1> QED BY <1>1, <1>2, <1>3, <1>4, <1>5 DEF StoreNext

(* (save_record, list_all_messages, add_all_messages, ack_all_messages,      *)
(* set_missing) For any number of keysets and messages, numbers received in  *)
(* any order, acks that come before or after, and restarts in between: the   *)
(* cached messages are those that would be read from the files, each once,   *)
(* with the same acks and the same gaps, unless the files were removed while *)
(* they were cached.                                                         *)
THEOREM CacheMatchesFiles == StoreSpec => []CacheIsFile
<1>1. StoreInv /\ [StoreNext]_store => StoreInv'
  BY StoreStep
<1> QED BY <1>1, StoreStart, FullIsFile, PTL DEF StoreSpec

(* (set_missing) Under the same assumptions, the messages that are reported  *)
(* missing before the received ones of a keyset are as many as the numbers   *)
(* up to the last one that were not received: none is counted twice, and     *)
(* none is left out.                                                         *)
THEOREM EachGapOnce == StoreSpec => []MissingAddsUp
<1>1. StoreInv /\ [StoreNext]_store => StoreInv'
  BY StoreStep
<1> QED BY <1>1, StoreStart, GapsAreMissing, PTL DEF StoreSpec
=============================================================================

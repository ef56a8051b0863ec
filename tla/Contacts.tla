------------------------------ MODULE Contacts ------------------------------
(***************************************************************************)
(* The contacts of this system (lib/keys.c): the array kip of key infos,   *)
(* the names cpx that are searched, and the directories under              *)
(* ~/.allnet/contacts they are loaded from.  One name of a directory is a  *)
(* second of the clock.  The private keys are values that are used once;   *)
(* an address is set or not; a file holds what it was last written.        *)
(***************************************************************************)
EXTENDS Naturals, Sequences, FiniteSets, SequencesExt

CONSTANTS
  People,      \* names that create_contact is called with
  GroupNames,  \* names that create_group is called with
  NewNames,    \* names that rename_contact gives
  Touched,     \* names of the entries that are renamed, hidden and deleted
  Keys,        \* the private keys that allnet_rsa_generate_key may give
  PubKeys,     \* the public keys that peers send
  None,        \* no key, no name
  Seconds,     \* 1 .. the last second of the clock
  MaxEntries,  \* most entries of kip
  MaxMembers,  \* most members of one group
  MaxSpares,   \* most spare key files
  MayReuse,    \* BOOLEAN: names of deleted or hidden entries are taken again
  Hurried,     \* BOOLEAN: two entries may be created within a second
  Nameless     \* BOOLEAN: the program may stop where a directory has no name yet

Names == People \cup GroupNames \cup NewNames

ASSUME ContactsAssumption ==
  /\ None \notin Names \cup Keys \cup PubKeys \cup Seconds
  /\ IsFiniteSet(Seconds) /\ Seconds = 1 .. Cardinality(Seconds) /\ Seconds # {}
  /\ MaxEntries \in Nat /\ MaxMembers \in Nat /\ MaxSpares \in Nat
  /\ {MayReuse, Hurried, Nameless} \subseteq BOOLEAN

VARIABLES
  kip,     \* key infos, from 1
  cpx,     \* contact names, from 1: cpx[0 .. cp_used - 1]
  disk,    \* [Seconds -> files of ~/.allnet/contacts/<second>]
  spares,  \* the files of own_spare_keys
  now      \* time (NULL)
contacts == <<kip, cpx, disk, spares, now>>

\* A directory and its files: a field is None, {} or FALSE without its file.
\* privInv and symInv are my_key_invalidated and symmetric_key_invalidated;
\* members is <<>> both without the file and in an empty group.
NoDir == [there |-> FALSE, name |-> None, priv |-> None, privInv |-> None, pub |-> None,
          addr |-> {}, group |-> FALSE, members |-> <<>>, sym |-> None,
          symInv |-> None, state |-> None, hidden |-> FALSE]
Individual == [name |-> None, dir |-> None, group |-> FALSE, visible |-> FALSE,
               deleted |-> FALSE, members |-> <<>>, priv |-> None, pub |-> None,
               addr |-> {}, sym |-> None, state |-> None]

(***************************************************************************)
(* Reading and writing entries.                                            *)
(***************************************************************************)
\* get_members: the lines of the members file, whose presence makes a group.
GetMembers(f) == IF f.group THEN f.members ELSE <<>>

\* read_key_info: a group has no keys, the other files need my_key, and the
\* send state needs the symmetric key.
ReadKeyInfo(d) ==
  LET f == disk'[d] IN
  [name |-> f.name, dir |-> d, group |-> f.group, visible |-> ~ f.hidden,
   deleted |-> FALSE, members |-> GetMembers(f),
   priv |-> IF f.group THEN None ELSE f.priv,
   pub |-> IF f.group \/ f.priv = None THEN None ELSE f.pub,
   addr |-> IF f.group \/ f.priv = None THEN {} ELSE f.addr,
   sym |-> f.sym, state |-> IF f.sym = None THEN None ELSE f.state]

\* The files f of e's directory once save_contact has written the first n of them, in the
\* order of the code; what e does not have leaves its file as it is.
NumWrites == 7
Written(f, e, n) ==
  [there |-> TRUE,
   name |-> IF n >= 1 THEN e.name ELSE f.name,
   priv |-> IF n >= 2 /\ e.priv # None THEN e.priv ELSE f.priv,
   privInv |-> f.privInv,
   pub |-> IF n >= 3 /\ e.pub # None THEN e.pub ELSE f.pub,
   addr |-> IF n >= 4 THEN f.addr \cup e.addr ELSE f.addr,
   group |-> f.group \/ (n >= 5 /\ e.group),
   members |-> IF n >= 5 /\ e.group THEN e.members ELSE f.members,
   sym |-> IF n >= 6 /\ e.sym # None THEN e.sym ELSE f.sym,
   symInv |-> f.symInv, state |-> f.state,
   hidden |-> IF n >= 7 THEN ~ e.visible ELSE f.hidden]

SaveContact(e) ==
  IF e.deleted THEN UNCHANGED disk
  ELSE disk' = [disk EXCEPT ![e.dir] = Written(@, e, NumWrites)]

(***************************************************************************)
(* The names.                                                              *)
(***************************************************************************)
\* contact_exists, and the index it gives less one; -1 becomes 0.
ContactExists(c) == \E i \in DOMAIN cpx : cpx[i] = c
IndexOf(c) == CHOOSE i \in DOMAIN cpx : cpx[i] = c /\ \A j \in 1 .. i - 1 : cpx[j] # c

\* Each name once, in the order of the entries.
GenerateContacts(entries) ==
  LET names[i \in 0 .. Len(entries)] ==
        IF i = 0 THEN <<>>
        ELSE IF entries[i].name \in Range(names[i - 1]) \cup {None} THEN names[i - 1]
        ELSE Append(names[i - 1], entries[i].name)
  IN  names[Len(entries)]

\* The loops over cpx look at the entry with the index of the name.
Live(i) == ~ kip[i].deleted
Named(c) == {i \in DOMAIN cpx : cpx[i] = c}
ValidKeyset(k) == k \in DOMAIN kip /\ ~ kip[k].deleted
Storable(i) == i \in DOMAIN kip /\ kip[i].dir # None

\* all_contacts_implementation and invisible_contacts.
AllContacts == {cpx[i] : i \in {j \in DOMAIN cpx : Live(j) /\ kip[j].visible}}
AllIndividualContacts == {cpx[i] : i \in {j \in DOMAIN cpx : Live(j) /\ ~ kip[j].group}}
InvisibleContacts == {cpx[i] : i \in {j \in DOMAIN cpx : Live(j) /\ ~ kip[j].visible}}

(***************************************************************************)
(* Groups.                                                                 *)
(***************************************************************************)
IsGroup(c) == \E i \in DOMAIN kip : Live(i) /\ kip[i].group /\ kip[i].name = c

GroupMembership(c) ==
  IF IsGroup(c) /\ ContactExists(c) THEN kip[IndexOf(c)].members ELSE <<>>

AddNew(list, new) == FoldLeft(LAMBDA l, c : IF Contains(l, c) THEN l ELSE Append(l, c), list, new)

\* The list after i of its elements were replaced by what More finds for them:
\* elements are only added at the end, each once.
Grown(start, More(_)) ==
  LET G[i \in 0 .. Cardinality(Names)] ==
        IF i = 0 THEN start
        ELSE IF i > Len(G[i - 1]) THEN G[i - 1]
        ELSE AddNew(G[i - 1], More(G[i - 1][i]))
  IN  G[Cardinality(Names)]

\* The groups that group_contacts goes over, and what it returns.
Subgroups(g) == Grown(<<g>>, LAMBDA s : SelectSeq(GroupMembership(s), IsGroup))
GroupContacts(g) ==
  IF ~ IsGroup(g) THEN {}
  ELSE {c \in UNION {Range(GroupMembership(s)) : s \in Range(Subgroups(g))} : ~ IsGroup(c)}

\* groups_for_contact, which also counts deleted groups.
MemberOfGroups(c) ==
  LET Holds(e) == e.group /\ Contains(e.members, c)
      found == SelectSeq(kip, Holds)
  IN  [i \in DOMAIN found |-> found[i].name]

MemberOfGroupsRecursive(c) ==
  LET first == SelectSeq(AddNew(<<>>, MemberOfGroups(c)), LAMBDA g : g # c)
  IN  Range(Grown(first, MemberOfGroups))

\* recursive_num_keysets, up to a depth: the keysets of c and, for a group, of
\* its members; -1, here Loops, when the depth is used up.  All entries of the
\* name count, also deleted ones.
Loops == <<0>>
MutMaxDepth == Len(kip)                          \* mutant of MaxDepth
MaxDepth == Len(kip) + 1                         \* num_key_infos + 1
RecursiveKeysets(contact) ==
  LET Join(rs) == IF Contains(rs, Loops) THEN Loops ELSE FlattenSeq(rs)
      K[depth \in 0 .. MaxDepth, c \in Names] ==
        IF depth = 0 THEN Loops
        ELSE Join([i \in DOMAIN kip |->
               IF kip[i].name # c THEN <<>>
               ELSE IF ~ kip[i].group THEN <<i>>
               ELSE Join([j \in DOMAIN kip[i].members |->
                            K[depth - 1, kip[i].members[j]]])])
  IN  K[MaxDepth, contact]

(***************************************************************************)
(* The program starts: init_from_file counts the directories, those without*)
(* a name included, and loads them in any order; entries that fail to load *)
(* leave as many blank ones at the end.                                    *)
(***************************************************************************)
InitFromFile ==
  LET there == {d \in Seconds : disk'[d].there}
      named == {d \in there : disk'[d].name # None}
      blank == [i \in 1 .. Cardinality(there \ named) |-> Individual]
  IN  \E order \in SetToSeqs(named) :
        /\ kip' = [i \in DOMAIN order |-> ReadKeyInfo(order[i])] \o blank
        /\ cpx' = GenerateContacts(kip')

ContactsInit ==
  /\ kip = <<>> /\ cpx = <<>> /\ disk = [d \in Seconds |-> NoDir]
  /\ spares = {} /\ now = 1

RestartProgram == UNCHANGED <<disk, spares, now>> /\ InitFromFile

Tick ==
  /\ disk[now].there /\ now + 1 \in Seconds /\ now' = now + 1
  /\ UNCHANGED <<kip, cpx, disk, spares>>

(***************************************************************************)
(* New entries.                                                            *)
(***************************************************************************)
KeysInUse ==
  UNION {{kip[i].priv : i \in DOMAIN kip},
         UNION {{disk[d].priv, disk[d].privInv} : d \in Seconds}, spares}
RsaGenerateKey == Keys \ KeysInUse

SaveSpareKey(key) == spares' = spares \cup {key}
\* allnet_rsa_generate_key and save_spare_key.
CreateSpareKey ==
  /\ Cardinality(spares) < MaxSpares
  /\ \E key \in RsaGenerateKey : SaveSpareKey(key)
  /\ UNCHANGED <<kip, cpx, disk, now>>

\* get_spare_key, which removes the file, or a new key.
\* Mutant of NewKey: the file of the spare key stays.
MutNewKey(key) ==
  IF spares # {} THEN key \in spares /\ UNCHANGED spares
  ELSE key \in RsaGenerateKey /\ UNCHANGED spares
NewKey(key) ==
  IF spares # {} THEN key \in spares /\ spares' = spares \ {key}
  ELSE key \in RsaGenerateKey /\ UNCHANGED spares

RoomFor(e) ==
  /\ Len(kip) < MaxEntries
  /\ Hurried \/ (~ disk[e.dir].there /\ \A i \in DOMAIN kip : kip[i].dir # e.dir)

\* The entry is put at the end of kip and saved; or the program stops when n
\* of its files are written, and starts again.
AddEntry(e) ==
  /\ kip' = Append(kip, e) /\ cpx' = GenerateContacts(kip') /\ SaveContact(e)
AddHalf(e) ==
  \E n \in (IF Nameless THEN 0 ELSE 1) .. NumWrites - 1 :
    disk' = [disk EXCEPT ![e.dir] = Written(@, e, n)] /\ InitFromFile

NewContact(c, key, pub) ==
  [Individual EXCEPT !.name = c, !.dir = now, !.visible = pub # None,
                     !.priv = key, !.pub = pub, !.addr = {"local"}]

\* create_contact returns the keyset of a live contact without public key, and
\* fails for others.  It takes over the entry of a deleted one, whose name in
\* cpx is freed and not replaced: it may be read as anything.
Free(c) == ~ ContactExists(c) \/ (MayReuse /\ kip[IndexOf(c)].deleted)
CreateContact(c, pub) ==
  \E key \in Keys :
    LET e == NewContact(c, key, pub) IN
    /\ Free(c) /\ RoomFor(e) /\ NewKey(key)
    /\ IF ~ ContactExists(c) THEN AddEntry(e)
       ELSE /\ kip' = [kip EXCEPT ![IndexOf(c)] = e] /\ SaveContact(e)
            /\ \E freed \in Names \cup {None} : cpx' = [cpx EXCEPT ![IndexOf(c)] = freed]
    /\ UNCHANGED now

CreateContactHalf(c, pub) ==
  \E key \in Keys :
    LET e == NewContact(c, key, pub) IN
    /\ Free(c) /\ RoomFor(e) /\ NewKey(key) /\ AddHalf(e) /\ UNCHANGED now

NewGroup(g) ==
  [Individual EXCEPT !.name = g, !.dir = now, !.group = TRUE, !.visible = TRUE]
CreateGroup(g) ==
  /\ ~ ContactExists(g) /\ RoomFor(NewGroup(g))
  /\ AddEntry(NewGroup(g)) /\ UNCHANGED <<spares, now>>
CreateGroupHalf(g) ==
  /\ ~ ContactExists(g) /\ RoomFor(NewGroup(g))
  /\ AddHalf(NewGroup(g)) /\ UNCHANGED <<spares, now>>

(***************************************************************************)
(* Names, visibility, deletion: for every entry with the index of a name c.*)
(***************************************************************************)
Change(S, NewEntry(_), NewFiles(_)) ==
  /\ S # {}
  /\ kip' = [i \in DOMAIN kip |-> IF i \in S THEN NewEntry(kip[i]) ELSE kip[i]]
  /\ disk' = [d \in Seconds |-> IF \E i \in S : kip[i].dir = d THEN NewFiles(disk[d])
                                ELSE disk[d]]
  /\ UNCHANGED <<spares, now>>

RenameContact(old, new) ==
  /\ MayReuse \/ ~ ContactExists(new)
  /\ ~ \E i \in Named(new) : Live(i) /\ kip[i].visible
  /\ LET S == {i \in Named(old) : Live(i)} IN
       /\ Change(S, LAMBDA e : [e EXCEPT !.name = new], LAMBDA f : [f EXCEPT !.name = new])
       /\ cpx' = [i \in DOMAIN cpx |-> IF i \in S THEN new ELSE cpx[i]]

\* Mutant of HideFile: only the entry in memory is changed.
MutHideFile(f) == f
HideFile(f) == [f EXCEPT !.hidden = TRUE]
MakeInvisible(c) ==
  /\ Change({i \in Named(c) : Live(i) /\ kip[i].visible},
            LAMBDA e : [e EXCEPT !.visible = FALSE], HideFile)
  /\ UNCHANGED cpx

MakeVisible(c) ==
  /\ ~ \E i \in Named(c) : Live(i) /\ kip[i].visible
  /\ Change({i \in Named(c) : Live(i) /\ ~ kip[i].visible},
            LAMBDA e : [e EXCEPT !.visible = TRUE], LAMBDA f : [f EXCEPT !.hidden = FALSE])
  /\ UNCHANGED cpx

\* Only hidden contacts, up to the first that is not.
Deletable(c) ==
  {i \in Named(c) : /\ Live(i) /\ ~ kip[i].visible
                    /\ ~ \E j \in Named(c) : j < i /\ Live(j) /\ kip[j].visible}
DeleteContact(c) ==
  /\ Change(Deletable(c), LAMBDA e : [e EXCEPT !.deleted = TRUE], LAMBDA f : NoDir)
  /\ UNCHANGED cpx

\* rmdir_and_all_files stops between two of the files.
DeleteContactHalf(c) ==
  \E gone \in SUBSET {"name", "priv", "pub", "addr", "hidden"} :
    /\ Deletable(c) # {} /\ (Nameless \/ "name" \notin gone)
    /\ disk' = [disk EXCEPT ![kip[IndexOf(c)].dir] =
                  [file \in DOMAIN @ |-> IF file \in gone THEN NoDir[file] ELSE @[file]]]
    /\ InitFromFile /\ UNCHANGED <<spares, now>>

(***************************************************************************)
(* Members of groups: the file is changed, then read into the entry.  An   *)
(* entry without directory has no file name (NULL): the program stops.     *)
(***************************************************************************)
ReloadMembers(i, members) ==
  /\ disk' = [disk EXCEPT ![kip[i].dir].members = members, ![kip[i].dir].group = TRUE]
  /\ kip' = [kip EXCEPT ![i].members = members]
  /\ UNCHANGED <<cpx, spares, now>>

AddToGroup(g, c) ==
  /\ IsGroup(g) /\ ContactExists(g)
  /\ LET i == IndexOf(g)  members == disk[kip[i].dir].members IN
       /\ Storable(i) /\ ~ Contains(kip[i].members, c) /\ Len(members) < MaxMembers
       /\ ReloadMembers(i, Append(members, c))

RemoveFromGroup(g, c) ==
  /\ IsGroup(g) /\ ContactExists(g)
  /\ LET i == IndexOf(g)  members == disk[kip[i].dir].members IN
       /\ Storable(i) /\ kip[i].members # <<>> /\ Contains(members, c)
       /\ ReloadMembers(i, RemoveFirst(members, c))

(***************************************************************************)
(* Keys and addresses of a keyset k, and their invalidation.               *)
(***************************************************************************)
UpdateAndSave(k, e) ==
  /\ kip' = [kip EXCEPT ![k] = e] /\ SaveContact(e) /\ UNCHANGED <<cpx, spares, now>>

\* Mutant of MaySetPubkey: a key that is there is replaced.
MutMaySetPubkey(k) == ValidKeyset(k)
MaySetPubkey(k) == ValidKeyset(k) /\ kip[k].pub = None
SetContactPubkey(k, p) ==
  /\ MaySetPubkey(k) /\ ~ kip[k].group /\ kip[k].dir # None
  /\ UpdateAndSave(k, [kip[k] EXCEPT !.pub = p])

\* set_contact_local_addr, set_contact_remote_addr, with an address of some bits.
SetAddr(k, side) ==
  /\ ValidKeyset(k) /\ ~ kip[k].group /\ kip[k].dir # None /\ side \notin kip[k].addr
  /\ UpdateAndSave(k, [kip[k] EXCEPT !.addr = @ \cup {side}])

MarkInvalid(k) ==
  /\ ValidKeyset(k) /\ kip[k].dir # None /\ disk[kip[k].dir].priv # None
  /\ Change({k}, LAMBDA e : [e EXCEPT !.priv = None],
            LAMBDA f : [f EXCEPT !.priv = None, !.privInv = f.priv])
  /\ UNCHANGED cpx

MarkValid(k) ==
  /\ ValidKeyset(k) /\ kip[k].dir # None
  /\ LET key == disk[kip[k].dir].privInv IN
       /\ key # None
       /\ Change({k}, LAMBDA e : [e EXCEPT !.priv = key],
                 LAMBDA f : [f EXCEPT !.priv = key, !.privInv = None])
  /\ UNCHANGED cpx

(***************************************************************************)
(* Symmetric keys.  find_symmetric_key and find_state give the first entry *)
(* of the name with such a key, or -1 - the last without.  Their callers   *)
(* then take - (-1 - i), which is the entry after it.  Memory beyond the   *)
(* array is not modelled: there has to be an entry after it.  A key or a   *)
(* state is the name of the contact it was given for.                      *)
(***************************************************************************)
OfName(c) == {i \in DOMAIN kip : kip[i].name = c}
LastOf(S) == CHOOSE i \in S : \A j \in S : j <= i
FirstOf(S) == CHOOSE i \in S : \A j \in S : i <= j
Negated(c) == LastOf(OfName(c)) + 1                          \* ki = -ki

Find(c, with) ==
  IF with # {} THEN FirstOf(with) ELSE Negated(c)
WithSymmetric(c) == {i \in OfName(c) : kip[i].sym # None}
WithState(c) == {i \in OfName(c) : kip[i].state # None}

\* The file is not written if the directory was removed.
SetSymmetricKey(c) ==
  /\ OfName(c) # {} /\ WithSymmetric(c) = {}
  /\ LET i == Find(c, WithSymmetric(c)) IN
       /\ Storable(i)
       /\ Change({i}, LAMBDA e : [e EXCEPT !.sym = c],
                 LAMBDA f : IF f.there THEN [f EXCEPT !.sym = c] ELSE f)
  /\ UNCHANGED cpx

\* save_key_state, for a contact that has a key (send_to_one in cutil.c).
SaveKeyState(c) ==
  /\ WithSymmetric(c) # {}
  /\ LET i == Find(c, WithState(c)) IN
       /\ Storable(i)
       /\ Change({i}, LAMBDA e : [e EXCEPT !.state = c],
                 LAMBDA f : IF f.there THEN [f EXCEPT !.state = c] ELSE f)
  /\ UNCHANGED cpx

InvalidateSymmetricKey(c) ==
  /\ WithSymmetric(c) # {}
  /\ Change({FirstOf(WithSymmetric(c))}, LAMBDA e : [e EXCEPT !.sym = None],
            LAMBDA f : [f EXCEPT !.sym = None, !.symInv = f.sym])
  /\ UNCHANGED cpx

RevalidateSymmetricKey(c) ==
  /\ OfName(c) # {} /\ WithSymmetric(c) = {}
  /\ LET i == Negated(c) IN
       /\ Storable(i) /\ disk[kip[i].dir].symInv # None
       /\ Change({i}, LAMBDA e : [e EXCEPT !.sym = disk[e.dir].symInv],
                 LAMBDA f : [f EXCEPT !.sym = f.symInv, !.symInv = None])
  /\ UNCHANGED cpx

-----------------------------------------------------------------------------
ContactsNext ==
  \/ \E c \in People, p \in PubKeys \cup {None} :
       CreateContact(c, p) \/ CreateContactHalf(c, p)
  \/ \E g \in GroupNames : CreateGroup(g) \/ CreateGroupHalf(g)
  \/ \E c \in Touched, n \in NewNames : RenameContact(c, n)
  \/ \E c \in Touched : \/ MakeInvisible(c) \/ MakeVisible(c)
                       \/ DeleteContact(c) \/ DeleteContactHalf(c)
  \/ \E g \in GroupNames, c \in People \cup GroupNames : AddToGroup(g, c) \/ RemoveFromGroup(g, c)
  \/ \E k \in {i \in DOMAIN kip : kip[i].name \in People} :
       \/ \E p \in PubKeys : SetContactPubkey(k, p)
       \/ \E side \in {"local", "remote"} : SetAddr(k, side)
       \/ MarkInvalid(k) \/ MarkValid(k)
  \/ \E c \in People : \/ SetSymmetricKey(c) \/ SaveKeyState(c)
                        \/ InvalidateSymmetricKey(c) \/ RevalidateSymmetricKey(c)
  \/ CreateSpareKey \/ Tick \/ RestartProgram
ContactsSpec == ContactsInit /\ [][ContactsNext]_contacts

-----------------------------------------------------------------------------
(* What an entry looks like when it is read again from its files.  The       *)
(* public key and addresses are not read while the private key is invalid.   *)
SameAsRead(e) ==
  LET f == disk[e.dir] IN
  /\ f.there /\ f.name = e.name /\ f.group = e.group /\ f.members = e.members
  /\ f.hidden = ~ e.visible /\ f.sym = e.sym
  /\ ~ e.group => f.priv = e.priv
  /\ e.pub # None => f.pub = e.pub
  /\ e.addr \subseteq f.addr

(* Every live entry is what its files say: whatever was called, and wherever *)
(* the program stopped before, a restart brings back the contacts it had,    *)
(* hidden ones hidden, groups with their members, each with its own keys;    *)
(* and the lists of contacts, which go over cpx and look in kip at the same  *)
(* index, give the names of the entries they mean.                           *)
AsSaved ==
  /\ \A i \in DOMAIN kip : Live(i) /\ kip[i].dir # None => SameAsRead(kip[i])
  /\ AllContacts = {kip[i].name : i \in {j \in DOMAIN kip : Live(j) /\ kip[j].visible}}
  /\ InvisibleContacts \cup AllContacts = {kip[i].name : i \in {j \in DOMAIN kip : Live(j)}}
  /\ AllIndividualContacts =
       {kip[i].name : i \in {j \in DOMAIN kip : Live(j) /\ ~ kip[j].group}}

(* A private key belongs to one live contact, or is one spare key: a spare   *)
(* key that is handed out is not "reuse[d] in the future" (get_spare_key),   *)
(* also when the program stops before the contact is saved.                  *)
KeyUsedOnce ==
  /\ \A i, j \in DOMAIN kip :
       i # j /\ Live(i) /\ Live(j) /\ kip[i].priv # None => kip[i].priv # kip[j].priv
  /\ \A d \in Seconds : {disk[d].priv, disk[d].privInv} \cap spares = {}

(* The public key accepted for a contact stays: no later message, rename or  *)
(* restart gives a live contact another, as long as its own key is valid.    *)
(* (A deletion that stops half way may take the file with it.)               *)
PeerKeyStays ==
  [][\A i \in DOMAIN kip, j \in DOMAIN kip' :
       /\ Live(i) /\ ~ kip'[j].deleted /\ kip[i].dir = kip'[j].dir
       /\ kip[i].pub # None /\ kip'[j].priv # None /\ kip[i].priv # None
       => kip'[j].pub \in {kip[i].pub, None}]_contacts

(* The members of a group's groups, by the smallest set that is closed under *)
(* membership.                                                               *)
MembersOf(c) == UNION {Range(kip[i].members) : i \in {j \in OfName(c) : kip[j].group}}
Closed(S) == \A c \in S : MembersOf(c) \subseteq S
Below(c) == {x \in Names : \A S \in SUBSET Names : MembersOf(c) \subseteq S /\ Closed(S) => x \in S}

(* Messages to a group go to each contact below it once, and to no other;    *)
(* the groups of a contact are those it is below; and the keysets are found  *)
(* if and only if no group below is below itself, which the depth of         *)
(* recursive_num_keysets is there to detect.                                 *)
GroupsClosed ==
  \A c \in Names :
    /\ IsGroup(c) /\ (\A i \in DOMAIN kip : Live(i)) =>
         GroupContacts(c) = {x \in Below(c) : ~ IsGroup(x)}
    /\ MemberOfGroupsRecursive(c) \ {c} = {kip[i].name : i \in {j \in DOMAIN kip :
         kip[j].group /\ kip[j].name # c /\ c \in Below(kip[j].name)}}
    /\ ContactExists(c) => (RecursiveKeysets(c) = Loops) =
         \E x \in Below(c) \cup {c} : x \in Below(x)
    /\ RecursiveKeysets(c) # Loops =>
         Range(RecursiveKeysets(c)) =
           {i \in DOMAIN kip : ~ kip[i].group /\ kip[i].name \in Below(c) \cup {c}}

-----------------------------------------------------------------------------
(* keys.h: a symmetric key is set and its state saved for the contact that   *)
(* is named ("for this contact"), keys.c: "turn it into a valid index".      *)
KeyOfItsContact ==
  \A i \in DOMAIN kip : kip[i].sym \in {None, kip[i].name} /\ kip[i].state \in {None, kip[i].name}
=============================================================================

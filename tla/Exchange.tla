------------------------------ MODULE Exchange ------------------------------
(***************************************************************************)
(* Key exchange (xchat/xcommon.c, with the user's side in xchats.c and     *)
(* xchat_term.c).  Two users agree on a secret by voice; each system makes *)
(* a key for the other and sends it with an HMAC under the secret.  A      *)
(* packet reaches every system, its sender too, and may be lost, repeated  *)
(* and overtaken; a program stops anywhere.  [by, for, n] is the public    *)
(* key that a system made for a contact under their n-th secret.  The      *)
(* cache of keys that came early is left out: it is filled and never read, *)
(* because key_received_before has no caller.                              *)
(***************************************************************************)
EXTENDS Naturals, Sequences, FiniteSets, SequencesExt

CONSTANTS
  Users,
  Pairs,      \* <<u, v>>: v is a contact of u
  MaxSecrets, \* most secrets that two users agree on
  NoKey,      \* no key, no file
  Resends     \* systems with a contact that request_and_resend is called for

Contacts(u) == {v \in Users : <<u, v>> \in Pairs}
Secrets == {[of |-> {p[1], p[2]}, n |-> n] : p \in Pairs, n \in 1 .. MaxSecrets}
Keys == {[by |-> p[1], for |-> p[2], n |-> n] : p \in Pairs, n \in 1 .. MaxSecrets}
SecretOf(u, v, n) == [of |-> {u, v}, n |-> n]

ASSUME ExchangeAssumption ==
  /\ Pairs \subseteq Users \X Users
  /\ \A p \in Pairs : p[1] # p[2] /\ <<p[2], p[1]>> \in Pairs
  /\ MaxSecrets \in Nat /\ Resends \subseteq Users
  /\ NoKey \notin Keys \cup Secrets

VARIABLES
  contact, \* [Pairs -> number of the secret the entry began with, 0 if there is none]
  last,    \* [Pairs -> number of the last secret used]
  pub,     \* [Pairs -> the contact's public key, or NoKey]
  file,    \* [Pairs -> the secret in the exchange file, or NoKey]
  keyPackets,  \* packets under way: a key and the secret of its HMAC
  recent,  \* [Users -> what send_key sent in the last minute, or NoKey]
  resent   \* the pairs whose key resend_pending_keys sent a short time ago
users == <<contact, last, pub, file>>
exchanges == <<contact, last, pub, file, keyPackets, recent, resent>>

ExchangeInit ==
  /\ contact = [p \in Pairs |-> 0] /\ last = [p \in Pairs |-> 0]
  /\ pub = [p \in Pairs |-> NoKey] /\ file = [p \in Pairs |-> NoKey]
  /\ keyPackets = {} /\ recent = [u \in Users |-> NoKey] /\ resent = {}

MyKey(u, v) == [by |-> u, for |-> v, n |-> contact[<<u, v>>]]

(***************************************************************************)
(* send_key does not send to the same contact with the same secret twice   *)
(* in a minute; it remembers only its last call.                           *)
(***************************************************************************)
SendKey(u, v, k, s, under) ==
  IF recent[u] = <<v, s>> THEN keyPackets' = under /\ UNCHANGED recent
  ELSE /\ keyPackets' = under \cup {[key |-> k, secret |-> s]}
       /\ recent' = [recent EXCEPT ![u] = <<v, s>>]

\* Time passes, or the program is restarted: both make the last call forgotten.
MinutePasses(u) ==
  /\ recent[u] # NoKey
  /\ recent' = [recent EXCEPT ![u] = NoKey] /\ UNCHANGED <<users, keyPackets, resent>>

\* The time between two sendings of one pending key is over.
TimeToResendKey(u, v) ==
  /\ <<u, v>> \in resent
  /\ resent' = resent \ {<<u, v>>} /\ UNCHANGED <<users, keyPackets, recent>>

(***************************************************************************)
(* create_contact_send_key: the entry with its key, the exchange file, the *)
(* packet.  The user takes a secret that was not used before.              *)
(***************************************************************************)
NewEntry(u, v, n) ==
  /\ contact[<<u, v>>] = 0 /\ n > last[<<u, v>>]
  /\ contact' = [contact EXCEPT ![<<u, v>>] = n] /\ last' = [last EXCEPT ![<<u, v>>] = n]
  /\ UNCHANGED pub

StartExchange(u, v, n) ==
  /\ NewEntry(u, v, n)
  /\ file' = [file EXCEPT ![<<u, v>>] = SecretOf(u, v, n)]
  /\ SendKey(u, v, [by |-> u, for |-> v, n |-> n], SecretOf(u, v, n), keyPackets)
  /\ UNCHANGED resent

\* The program stops before it writes the exchange file, or before it sends.
StartHalf(u, v, n) ==
  /\ NewEntry(u, v, n)
  /\ \/ UNCHANGED file
     \/ file' = [file EXCEPT ![<<u, v>>] = SecretOf(u, v, n)]
  /\ recent' = [recent EXCEPT ![u] = NoKey] /\ UNCHANGED <<keyPackets, resent>>

\* The user asks for the key to be sent again; an exchange without a file
\* cannot be continued.
ResendContactKey(u, v) ==
  /\ file[<<u, v>>] # NoKey
  /\ SendKey(u, v, MyKey(u, v), file[<<u, v>>], keyPackets) /\ UNCHANGED <<users, resent>>

(***************************************************************************)
(* resend_pending_keys: every incomplete exchange that has a file and is   *)
(* due, in the order of the contacts.                                      *)
(***************************************************************************)
\* Mutant of Pending: an exchange is over as soon as the peer's key is there.
MutPending(u) == {v \in Contacts(u) : file[<<u, v>>] # NoKey /\ pub[<<u, v>>] = NoKey}
Pending(u) == {v \in Contacts(u) : file[<<u, v>>] # NoKey}

ResendPendingKeys(u) ==
  LET due == {v \in Pending(u) : <<u, v>> \notin resent}
      call(v) == <<v, file[<<u, v>>]>>
  IN  /\ u \in Resends /\ due # {}
      /\ \E order \in SetToSeqs(due) :
           /\ keyPackets' = keyPackets \cup {[key |-> MyKey(u, v), secret |-> file[<<u, v>>]] :
                               v \in due \ (IF recent[u] = call(order[1]) THEN {order[1]} ELSE {})}
           /\ recent' = [recent EXCEPT ![u] = call(Last(order))]
      /\ resent' = resent \cup {<<u, v>> : v \in due}
      /\ UNCHANGED users

(***************************************************************************)
(* handle_key: the first contact whose exchange file has the secret of the *)
(* HMAC, own keys left out; a key is stored where there was none, and      *)
(* answered with the own key.  A packet that will arrive again stays.      *)
(***************************************************************************)
\* Mutant of ReceivedMatchingKey: the own key, which comes back, is accepted.
MutOwnKey(u, v, p) == file[<<u, v>>] = p.secret
ReceivedMatchingKey(u, v, p) == file[<<u, v>>] = p.secret /\ p.key # MyKey(u, v)
Matching(u, p) == {v \in Contacts(u) : ReceivedMatchingKey(u, v, p)}

HandleKey(u, p) ==
  /\ p \in keyPackets
  /\ \E under \in {keyPackets, keyPackets \ {p}} :
       \/ Matching(u, p) = {} /\ keyPackets' = under /\ keyPackets' # keyPackets /\ UNCHANGED <<pub, recent>>
       \/ \E v \in Matching(u, p) :
            /\ pub' = [pub EXCEPT ![<<u, v>>] = IF @ = NoKey THEN p.key ELSE @]
            /\ SendKey(u, v, MyKey(u, v), p.secret, under)
  /\ UNCHANGED <<contact, last, file, resent>>

(***************************************************************************)
(* The user ends the exchange.  "please press <enter> once your contact    *)
(* has also received the key": the users tell each other.  Without a key   *)
(* the contact is deleted; the users delete and begin again at any time.   *)
(***************************************************************************)
MayConfirm(u, v) == pub[<<u, v>>] # NoKey /\ pub[<<v, u>>] # NoKey

Confirm(u, v) ==
  /\ file[<<u, v>>] # NoKey /\ MayConfirm(u, v)
  /\ file' = [file EXCEPT ![<<u, v>>] = NoKey]
  /\ UNCHANGED <<contact, last, pub, keyPackets, recent, resent>>

DeleteExchange(u, v) ==
  /\ contact[<<u, v>>] # 0
  /\ contact' = [contact EXCEPT ![<<u, v>>] = 0]
  /\ pub' = [pub EXCEPT ![<<u, v>>] = NoKey] /\ file' = [file EXCEPT ![<<u, v>>] = NoKey]
  /\ resent' = resent \ {<<u, v>>} /\ UNCHANGED <<last, keyPackets, recent>>

LoseKey(p) == p \in keyPackets /\ keyPackets' = keyPackets \ {p} /\ UNCHANGED <<users, recent, resent>>

PairStep(u, v) ==
  \/ TimeToResendKey(u, v) \/ ResendContactKey(u, v) \/ Confirm(u, v) \/ DeleteExchange(u, v)
  \/ \E n \in 1 .. MaxSecrets : StartExchange(u, v, n) \/ StartHalf(u, v, n)

ExchangeNext ==
  \/ \E p \in Pairs : PairStep(p[1], p[2])
  \/ \E u \in Users : MinutePasses(u) \/ ResendPendingKeys(u)
  \/ \E u \in Users, p \in keyPackets : HandleKey(u, p)
  \/ \E p \in keyPackets : LoseKey(p)

\* A key that is sent again and again arrives, the timers run, and the daemon
\* of a system with a contact calls request_and_resend.
Arrives(u, k) == \E p \in keyPackets : p.key = k /\ HandleKey(u, p)
ExchangeFairness ==
  /\ \A p \in Pairs : WF_exchanges(TimeToResendKey(p[1], p[2]))
  /\ \A u \in Users : WF_exchanges(MinutePasses(u)) /\ SF_exchanges(ResendPendingKeys(u))
  /\ \A u \in Users, k \in Keys : SF_exchanges(Arrives(u, k) /\ keyPackets' # keyPackets)
ExchangeSpec == ExchangeInit /\ [][ExchangeNext]_exchanges /\ ExchangeFairness

-----------------------------------------------------------------------------
\* Two entries that were begun with the same secret never hold anything but each
\* other's key (handle_key): not an own key that came back, not the key of another
\* contact, and not one from an exchange that was deleted and begun again.
KeysMatch ==
  \A p \in Pairs :
    LET u == p[1]
        v == p[2]
    IN  contact[<<u, v>>] # 0 /\ contact[<<u, v>>] = contact[<<v, u>>]
          => pub[<<u, v>>] \in {NoKey, MyKey(v, u)}

\* While both users wait with the same secret in their exchange files, both get the
\* key, if one of them resends its pending key: packets are lost, an answer within
\* a minute is not sent, and the first key may come before the file is there.
BothWait(u, v) == file[<<u, v>>] # NoKey /\ file[<<u, v>>] = file[<<v, u>>]
BothGetKeys ==
  \A p \in Pairs :
    LET u == p[1]
        v == p[2]
    IN  BothWait(u, v) ~> pub[<<u, v>>] # NoKey \/ contact[<<u, v>>] = 0 \/ contact[<<v, u>>] = 0
=============================================================================

----------------------------- MODULE MCContacts -----------------------------
(* Instances of Contacts small enough for TLC. *)
EXTENDS Contacts, TLC

CONSTANTS a, b, g, h, n, k1, k2, p1, p2, none

KeySymmetry == Permutations(Keys) \cup Permutations(PubKeys)
=============================================================================

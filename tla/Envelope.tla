------------------------------ MODULE Envelope ------------------------------
(***************************************************************************)
(* lib/cipher.c: messages to and from contacts.  What fits in one block of *)
(* RSA is encrypted so; of a longer message, a key and a nonce for AES and *)
(* the first bytes go in the block, and the rest is encrypted with AES in  *)
(* counter mode.  A byte is whatever it stands for: a key decrypts only    *)
(* what was encrypted for it, and AES gives back a byte only under the     *)
(* key, the counter and the place in the block it was encrypted with.      *)
(***************************************************************************)
EXTENDS Integers, Sequences
LOCAL INSTANCE SequencesExt

CONSTANTS
  RsaSize,      \* bytes of a block of RSA, 512
  RsaOverhead,  \* 42: what the padding takes
  AesSize,      \* bytes of an AES key, 32
  AesBlock,     \* bytes of a nonce, a counter and a block, 16
  Counters      \* values of a counter before it wraps, 256 ^ 16

MaxRsa == RsaSize - RsaOverhead
Noise == <<"noise", 0>>
Named(name, size) == [i \in 1 .. size |-> <<name, i>>]

\* Key and nonce are drawn for each message; the nonce is also a number.
Secret(nonce) == Named("key", AesSize) \o [i \in 1 .. AesBlock |-> <<"nonce", nonce>>]

\* aes_ctr_crypt: what the i-th byte is combined with.
CtrByte(secret, i) ==
  <<SubSeq(secret, 1, AesSize),
    (secret[AesSize + 1][2] + (i - 1) \div AesBlock) % Counters, (i - 1) % AesBlock>>
AesEncrypt(secret, bytes) == [i \in DOMAIN bytes |-> <<bytes[i], CtrByte(secret, i)>>]
AesDecrypt(secret, bytes) ==
  [i \in DOMAIN bytes |-> IF bytes[i][2] = CtrByte(secret, i) THEN bytes[i][1] ELSE Noise]

\* allnet_encrypt: a block for the key's owner, and the bytes after it.
Seal(text, nonce, owner) ==
  IF Len(text) <= MaxRsa
  THEN [block |-> text, for |-> owner, rest |-> <<>>]
  ELSE LET all == Secret(nonce) \o text
       IN [block |-> SubSeq(all, 1, MaxRsa), for |-> owner,
           rest |-> AesEncrypt(all, SubSeq(all, MaxRsa + 1, Len(all)))]

\* allnet_decrypt: <<>> is a failure, of the padding for all keys but one.
Open(sealed, owner) ==
  IF sealed.for # owner THEN <<>>
  ELSE IF sealed.rest = <<>> THEN sealed.block
  ELSE SubSeq(sealed.block, AesSize + AesBlock + 1, Len(sealed.block))
         \o AesDecrypt(sealed.block, sealed.rest)

-----------------------------------------------------------------------------
(* decrypt_verify, over keysets: [contact, mine, theirs, local, remote].   *)

NoAddress == 0
\* matches (), of addresses that are known at both ends.
Matching(a, b) == a = NoAddress \/ b = NoAddress \/ a = b

\* allnet_sign with the private key `by`, or no signature at all.
Unsigned == "unsigned"
Packet(text, nonce, owner, by, from, to) ==
  [sealed |-> Seal(text, nonce, owner), by |-> by, from |-> from, to |-> to]

Tries(k, packet) ==
  /\ Matching(packet.to, k.local) /\ Matching(packet.from, k.remote)
  /\ packet.by \in {Unsigned, k.theirs}

\* The first keyset that verifies and decrypts; the size is negative without a signature.
DecryptVerify(keysets, packet) ==
  LET fit == {i \in DOMAIN keysets :
                Tries(keysets[i], packet) /\ Open(packet.sealed, keysets[i].mine) # <<>>}
      i == CHOOSE i \in fit : \A j \in fit : i <= j
  IN IF fit = {} THEN [size |-> 0, contact |-> "", text |-> <<>>]
     ELSE LET text == Open(packet.sealed, keysets[i].mine)
          IN [size |-> IF packet.by = Unsigned THEN -Len(text) ELSE Len(text),
              contact |-> keysets[i].contact, text |-> text]
=============================================================================

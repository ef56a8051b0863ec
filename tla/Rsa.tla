-------------------------------- MODULE Rsa --------------------------------
(***************************************************************************)
(* lib/wp_rsa.c over the numbers of WideArith: the search for primes, the  *)
(* key pair, encryption, the two decryptions, padding and signatures, and  *)
(* calls of the arithmetic by themselves.  The library keeps no state; a   *)
(* key pair and the last call are held by its users.  The randomness of a  *)
(* candidate is any value, the one of a primality test any of Draws, which *)
(* has no liar for the composites it meets: with the SecurityLevel of the  *)
(* code a liar is a matter of luck and not of a step.                      *)
(***************************************************************************)
EXTENDS KeyFile, Envelope, FiniteSets
LOCAL INSTANCE SequencesExt

CONSTANTS
  Nhalf,       \* words of a prime: 32 for a key of 4096 bits
  SieveSize,   \* 2^18: the candidates are divided by the primes below it
  Randoms,     \* what the search for a prime begins with
  Draws,       \* random bases of a primality test
  Exponents,   \* public exponents asked for
  Messages,    \* numbers that are encrypted, below every product of two primes
  Edges,       \* words that the arithmetic is called with
  HashSize,    \* 20: bytes of a SHA-1
  Bytes,       \* bytes of a padded message, 0 .. 255 in the code
  Bytes8,      \* bytes that are written in base 64
  TextSizes    \* sizes of messages to contacts

ASSUME ArithAssumption ==
  /\ WordBits \in Nat \ {0} /\ WordBits % 2 = 0 /\ Nhalf \in Nat \ {0}
  /\ Unroll \in Nat \ {0} /\ Squarings \in Nat
  /\ \A w \in Edges : w \in 0 .. Base - 1

VARIABLES
  cand,        \* where the search for p and q goes on
  key,         \* a wp_rsa_key_pair
  call         \* the last call, its arguments and what it returned
vars == <<cand, key, call>>

NoKey == [n |-> 0]
NoCall == [op |-> "none"]
Nfull == 2 * Nhalf
Widest == WordBits * Nhalf

-----------------------------------------------------------------------------
\* compute_sieve strikes out the multiples of every number below the root of the limit.
Root(limit) == CHOOSE r \in 1 .. limit : r * r = limit
Sieve(limit) ==
  {i \in 2 .. limit - 1 : \A outer \in 2 .. Root(limit) - 1 : i % outer = 0 => i = outer}

\* The modulus of the exponentiations is odd here, where Montgomery's form is exact.
Power(n, base, exp, mod) == ExpModMontgomery(n, base, exp, mod)

FermatSaysComposite(x, a) == Power(Nhalf, a, SubInt(Nhalf, x, 1), x) # 1

\* x - 1 = d * 2^shift.  After the last square the code says "possibly prime".
Shift(minus1) ==
  CHOOSE s \in 0 .. Widest :
    minus1 % 2 ^ s = 0 /\ (s = Widest \/ (minus1 \div 2 ^ s) % 2 = 1)
Squares(x, y, shift) ==
  LET f[i \in 0 .. Widest] == IF i = 0 THEN y ELSE IF i < shift THEN Square(Nhalf, f[i - 1], x) ELSE 0
  IN f
EndsInOne(squares, minus1) ==
  \E i \in DOMAIN squares : /\ i > 0 /\ squares[i] = 1
                           /\ \A j \in 0 .. i - 1 : squares[j] \notin {1, minus1}
MillerRabin(x, a, minus1, shift) ==
  EndsInOne(Squares(x, Power(Nhalf, a, minus1 \div 2 ^ shift, x), shift), minus1)
MillerRabinSaysComposite(x, a) ==
  LET minus1 == SubInt(Nhalf, x, 1) IN MillerRabin(x, a, minus1, Shift(minus1))

\* composite_test brings its random base below x - 2.
Remainder(n, x, mod) == IF Compare(n, x, mod) >= 0 THEN Div(n, x, mod).rem ELSE x
TestBase(x, random) ==
  Remainder(Nhalf, IF random < 2 THEN random + 2 ELSE random, SubInt(Nhalf, x, 2))
Composite(x, a) == FermatSaysComposite(x, a) \/ MillerRabinSaysComposite(x, a)
CompositeTest(x, random) == Composite(x, TestBase(x, random))
IsPrime(x, draws) ==
  /\ \A i \in Sieve(SieveSize) : ~ MultipleOfInt(Nhalf, x, i)
  /\ \A random \in draws : ~ CompositeTest(x, random)

SetTopFourBits(x, value) == (x % 2 ^ (Widest - 4)) + (value * 2 ^ (Widest - 4))
\* generate_prime: the first odd number from the candidate on; {} when the width is exhausted.
Odd(x) == IF IsEven(x) THEN AddInt(Nhalf, x, 1) ELSE x
Least(S) == {x \in S : \A y \in S : x <= y}
Primes(bits, value, draws) ==
  Least({x \in Odd(SetTopFourBits(bits, value)) .. Top(Nhalf) - 1 : x % 2 = 1 /\ IsPrime(x, draws)})

\* inverse_mod: Euclid's algorithm, with the quotients times newt reduced modulo mod.
\* wp_div and wp_shrink end the program when their argument is out of range.
EuclidStep(n, s, mod, product1, pm, y) ==
  IF ~ MayDiv(n, s.r, s.newr) \/ ~ MayDiv(n, product1, mod) \/ ~ Shrinks(n, 2 * n, y)
  THEN [s EXCEPT !.r = Exit, !.newr = 0]
  ELSE [t |-> s.newt, newt |-> SubMod(n, s.t, pm, mod), r |-> s.newr, newr |-> Shrink(n, y)]
EuclidOf(n, s, mod, qp, product1) ==
  EuclidStep(n, s, mod, product1, Div(n, product1, mod).rem,
             Sub(2 * n, Extend(s.r), Multiply(n, qp, s.newr))[1])
EuclidBy(n, s, mod, qp) == EuclidOf(n, s, mod, qp, Multiply(n, qp, s.newt))
InverseOf(n, mod, end) ==
  IF end.r = Exit \/ end.r > 1 THEN [inverse |-> Exit, exits |-> end.r = Exit]
  ELSE [inverse |-> IF Compare(n, end.t, mod) > 0 THEN Add(n, end.t, mod)[1] ELSE end.t,
        exits |-> FALSE]
InverseMod(n, value, mod) ==
  LET step[s \in [t : Int, newt : Int, r : Int, newr : Int]] ==
        IF s.newr = 0 THEN s ELSE step[EuclidBy(n, s, mod, Div(n, s.r, s.newr).quo)]
  IN InverseOf(n, mod, step[[t |-> 0, newt |-> 1, r |-> mod, newr |-> value]])

-----------------------------------------------------------------------------
\* rsa_do_encrypt; wp_rsa_verify compares what it gives for a signature with the digest.
Encrypt(k, data) == Power(Nfull, data, k.e, k.n)
Verifies(k, digest, sig) == Encrypt(k, sig) = digest
MutDecryptSlow(k, data) ==            \* mutant: the exponent of the fast form
  Power(Nfull, data, k.dp, k.n)
DecryptSlow(k, data) == Power(Nfull, data, k.d, k.n)
\* Garner: m2 + q * ((m1 - m2) / q modulo p).
Garner(k, m1, m2) ==
  Add(Nfull, Extend(m2),
      Multiply(Nhalf, MultiplyMod(Nhalf, k.qinv, SubMod(Nhalf, m1, m2, k.p), k.p), k.q))[1]
DecryptFast(k, data) ==
  Garner(k, Power(Nhalf, Div(Nhalf, data, k.p).rem, k.dp, k.p),
            Power(Nhalf, Div(Nhalf, data, k.q).rem, k.dq, k.q))
\* rsa_choose_decrypt: a key that was read without its primes has zeros for them.
ChooseDecrypt(k, data) ==
  IF 0 \in {k.p, k.q, k.dp, k.dq, k.qinv} THEN DecryptSlow(k, data) ELSE DecryptFast(k, data)

\* One turn of wp_rsa_generate_key_pair_e: a key, NoKey to search on, or Exit.
TestMessage == 99
Totient(p, q, n) == Sub(Nfull, n, SubInt(Nfull, Add(Nfull, p, q)[1], 1))[1]
KeyWith(p, q, n, e, d, qinv) ==
  [nbits |-> Nfull * WordBits, n |-> n, e |-> e, p |-> p, q |-> q, d |-> d,
   dp |-> Div(Nhalf, d, SubInt(Nhalf, p, 1)).rem,
   dq |-> Div(Nhalf, d, SubInt(Nhalf, q, 1)).rem, qinv |-> qinv]
Tested(k) == IF ChooseDecrypt(k, Encrypt(k, TestMessage)) = TestMessage THEN k ELSE NoKey
KeyFrom(p, q, n, e, d, qinv) ==
  IF d.exits THEN [n |-> Exit]
  ELSE IF d.inverse = Exit THEN NoKey
  ELSE IF qinv.exits THEN [n |-> Exit]
  ELSE IF qinv.inverse = Exit THEN NoKey
  ELSE Tested(KeyWith(p, q, n, e, d.inverse, qinv.inverse))
KeyUnder(p, q, n, e, phi) ==
  IF Div(Nfull, phi, e).rem = 0 THEN NoKey
  ELSE KeyFrom(p, q, n, e, InverseMod(Nfull, e, phi), InverseMod(Nhalf, q, p))
KeyOfProduct(p, q, n, e) == KeyUnder(p, q, n, e, Totient(p, q, n))
KeyOf(p, q, e) == KeyOfProduct(p, q, Multiply(Nhalf, p, q), e)

-----------------------------------------------------------------------------
\* Padding, over sequences of bytes.  The hash is any function of what is hashed.
Sha1(bytes) == [i \in 1 .. HashSize |->
                  (FoldLeft(LAMBDA sum, b : b + 3 * sum, i, bytes) \div 2) % Cardinality(Bytes)]
Xor(s, t) == [i \in DOMAIN s |-> (s[i] + t[i]) % 2]
Zeros(k) == [i \in 1 .. k |-> 0]
\* mgf1_sha1_mask hashes the seed with 0, 1, ... and cuts the last hash to what fits.
Mgf1(seed, rsize) == [i \in 1 .. rsize |-> Sha1(seed \o <<(i - 1) \div HashSize>>)[1 + ((i - 1) % HashSize)]]

OaepSize == 2 + 2 * HashSize
Fits(padding, nbytes, data) ==
  CASE padding = "none" -> Len(data) = nbytes
    [] padding = "vanilla" -> Len(data) < nbytes
    [] padding = "oaep" -> Len(data) + OaepSize <= nbytes
Oaep(nbytes, data, seed) ==
  LET db == Sha1(<<>>) \o Zeros(nbytes - OaepSize - Len(data)) \o <<1>> \o data
      masked == Xor(db, Mgf1(seed, Len(db)))
  IN <<0>> \o Xor(seed, Mgf1(masked, HashSize)) \o masked
\* rsa_pad; seed is the randomness of OAEP.
Pad(padding, nbytes, data, seed) ==
  CASE padding = "none" -> data
    [] padding = "vanilla" -> Zeros(nbytes - Len(data) - 1) \o <<1>> \o data
    [] padding = "oaep" -> Oaep(nbytes, data, seed)

\* rsa_unpad: [ok, data].
After(bytes, i) == SubSeq(bytes, i + 1, Len(bytes))
FirstNonZero(bytes, from) ==
  LET at == {i \in from .. Len(bytes) : bytes[i] # 0}
  IN IF at = {} THEN Len(bytes) + 1 ELSE CHOOSE i \in at : \A j \in at : i <= j
UnpadVanilla(bytes) ==
  LET i == FirstNonZero(bytes, 1)
  IN [ok |-> i > Len(bytes) \/ bytes[i] = 1, data |-> After(bytes, i)]
UnpadOaep(bytes) ==
  LET masked == After(bytes, 1 + HashSize)
      seed == Xor(SubSeq(bytes, 2, 1 + HashSize), Mgf1(masked, HashSize))
      db == Xor(masked, Mgf1(seed, Len(masked)))
      ps == FirstNonZero(db, HashSize + 1)
  IN [ok |-> bytes[1] = 0 /\ SubSeq(db, 1, HashSize) = Sha1(<<>>) /\ ps <= Len(db) /\ db[ps] = 1,
      data |-> After(db, ps)]
Unpad(padding, bytes) ==
  CASE padding = "none" -> [ok |-> TRUE, data |-> bytes]
    [] padding = "vanilla" -> UnpadVanilla(bytes)
    [] padding = "oaep" -> UnpadOaep(bytes)

-----------------------------------------------------------------------------
Init == cand = <<>> /\ key = NoKey /\ call = NoCall
Unused == cand = <<>> /\ key = NoKey /\ call = NoCall

Numbers(n) == {x \in 0 .. Top(n) - 1 : \A i \in 0 .. n - 1 : Word(x, i) \in Edges}

CallSums == /\ Unused
            /\ \E n \in 1 .. 2 : \E a, b \in Numbers(n) :
                 call' = [op |-> "sums", n |-> n, a |-> a, b |-> b,
                          add |-> Add(n, a, b), sub |-> Sub(n, a, b), compare |-> Compare(n, a, b),
                          addInt |-> AddInt(n, a, b % Base), subInt |-> SubInt(n, a, b % Base),
                          left |-> ShiftLeft(n, a), right |-> ShiftRight(n, a),
                          bytes |-> FromBytes(n, ToBytes(n, a)),
                          last |-> GetByte(n, a, 0), beyond |-> GetByte(n, a, n * BytesPerWord)]
            /\ UNCHANGED <<cand, key>>

SmallOf(x) == 1 + (x % (Half - 1))
CallProducts == /\ Unused
                /\ \E n \in 1 .. 2 : \E a, b, mod \in Numbers(n) :
                     /\ a < mod /\ b < mod
                     /\ call' = [op |-> "products", n |-> n, a |-> a, b |-> b, mod |-> mod,
                                 product |-> Multiply(n, a, b),
                                 word |-> Multiply128(Word(a, 0), Word(b, 0)),
                                 plus |-> AddMultiplyInt64(n, mod, a, Word(b, 0)),
                                 division |-> Div(n, a * Top(n) + b, mod),
                                 multiple |-> MultipleOfInt(n, a, SmallOf(b)),
                                 addMod |-> AddMod(n, a, b, mod), subMod |-> SubMod(n, a, b, mod),
                                 leftMod |-> ShiftLeftMod(n, a, mod),
                                 product1 |-> MultiplyMod(n, a, b, mod),
                                 product2 |-> MultiplyModTemp(n, a, b, mod)]
                /\ UNCHANGED <<cand, key>>

\* Only an odd modulus has a Montgomery form; primes and their products have the top bit set,
\* and an exponent of 0 is not asked for.
CallPowers == /\ Unused
              /\ \E n \in 1 .. 2 : \E base, mod \in Numbers(n), exp \in Numbers(1) \cup {Fermat} :
                   /\ base < mod /\ mod % 2 = 1 /\ 2 * mod > Top(n) /\ exp > 0
                   /\ call' = [op |-> "powers", n |-> n, base |-> base, exp |-> exp, mod |-> mod,
                               plain |-> ExpMod(n, base, exp, mod),
                               words |-> ExpMod64(n, base, exp, mod),
                               montgomery |-> ExpModMontgomery(n, base, exp, mod)]
              /\ UNCHANGED <<cand, key>>

CallPad == /\ Unused
           /\ \E padding \in {"none", "vanilla", "oaep"}, nbytes \in OaepSize .. OaepSize + 2 :
              \E size \in 0 .. nbytes : \E data \in [1 .. size -> Bytes], seed \in [1 .. HashSize -> Bytes] :
                /\ Fits(padding, nbytes, data)
                /\ call' = [op |-> "pad", padding |-> padding, data |-> data,
                            padded |-> Pad(padding, nbytes, data, seed)]
           /\ UNCHANGED <<cand, key>>

Unpads == /\ call.op = "pad"
          /\ call' = [op |-> "unpad", data |-> call.data, unpadded |-> Unpad(call.padding, call.padded)]
          /\ UNCHANGED <<cand, key>>

\* Bytes in base 64, as in a file and back.
Codes == /\ Unused
         /\ \E size \in 0 .. 4 : \E data \in [1 .. size -> Bytes8] :
              call' = [op |-> "code", data |-> data, decoded |-> Decode64(Encode64(data))]
         /\ UNCHANGED <<cand, key>>

\* A contact's message: it is encrypted for one of my keys, and signed or not by the contact
\* that has it.  The keysets are two of one contact and one of another.
Keysets == <<[contact |-> "a", mine |-> "m1", theirs |-> "t1", local |-> 1, remote |-> NoAddress],
             [contact |-> "a", mine |-> "m2", theirs |-> "t2", local |-> NoAddress, remote |-> 2],
             [contact |-> "b", mine |-> "m3", theirs |-> "t3", local |-> 1, remote |-> 2]>>
Mails == /\ Unused
         /\ \E size \in TextSizes, nonce \in {0, Counters - 1}, i \in DOMAIN Keysets,
               signed \in BOOLEAN, from, to \in 0 .. 2 :
              LET k == Keysets[i]
                  packet == Packet(Named("text", size), nonce, k.mine,
                                   IF signed THEN k.theirs ELSE Unsigned, from, to)
              IN call' = [op |-> "mail", keyset |-> k, signed |-> signed, size |-> size,
                          reached |-> Matching(from, k.remote) /\ Matching(to, k.local),
                          got |-> DecryptVerify(Keysets, packet)]
         /\ UNCHANGED <<cand, key>>

\* wp_rsa_generate_key_pair_e: random candidates first, then primes from them on.
Candidates == /\ Unused
              /\ \E p, q \in Randoms : cand' = <<p, q>>
              /\ UNCHANGED <<key, call>>

Generate ==
  /\ cand # <<>>
  /\ \E e \in Exponents, d \in Draws :
     \E p \in Primes(cand[1], 15, {d}), q \in Primes(cand[2], 13, {d}) :
       /\ key' = KeyOf(p, q, e)
       /\ cand' = IF key' = NoKey THEN <<p + 1, q + 1>> ELSE <<>>
  /\ UNCHANGED call

\* wp_rsa_get_public_key drops the rest; a key without its primes is read back as zeros.
ForgetPrimes == /\ key \notin {NoKey, [n |-> Exit]} /\ call = NoCall
                /\ key' = [key EXCEPT !.p = 0, !.q = 0, !.dp = 0, !.dq = 0, !.qinv = 0]
                /\ UNCHANGED <<cand, call>>

\* allnet_rsa_write_prvkey or, of the public half, allnet_rsa_write_pubkey, and a read.
PublicHalf(k) == [k EXCEPT !.d = 0, !.p = 0, !.q = 0, !.dp = 0, !.dq = 0, !.qinv = 0]
SavesKey == /\ key \notin {NoKey, [n |-> Exit]} /\ call = NoCall
            /\ \E k \in {key, PublicHalf(key)} :
                 call' = [op |-> "read", saved |-> k, read |-> ReadKeyFile(WriteKey(k), Nfull)]
            /\ UNCHANGED <<cand, key>>

Encrypts == /\ key \notin {NoKey, [n |-> Exit]} /\ call = NoCall
            /\ \E m \in Messages : call' = [op |-> "encrypt", m |-> m, out |-> Encrypt(key, m)]
            /\ UNCHANGED <<cand, key>>
Decrypts == /\ call.op = "encrypt"
            /\ call' = [op |-> "decrypt", m |-> call.m, out |-> ChooseDecrypt(key, call.out)]
            /\ UNCHANGED <<cand, key>>
Signs == /\ key \notin {NoKey, [n |-> Exit]} /\ call = NoCall
         /\ \E m \in Messages : call' = [op |-> "sign", m |-> m, out |-> ChooseDecrypt(key, m)]
         /\ UNCHANGED <<cand, key>>
Checks == /\ call.op = "sign"
          /\ \E m \in Messages :
               call' = [op |-> "verify", m |-> call.m, of |-> m, out |-> Verifies(key, m, call.out)]
          /\ UNCHANGED <<cand, key>>

Next == CallSums \/ CallProducts \/ CallPowers \/ CallPad \/ Unpads \/ Codes \/ Mails
        \/ Candidates \/ Generate
        \/ ForgetPrimes \/ SavesKey \/ Encrypts \/ Decrypts \/ Signs \/ Checks
Spec == Init /\ [][Next]_vars

-----------------------------------------------------------------------------
\* Additions, subtractions, comparisons and shifts go from word to word: the carry out of a
\* word that is all ones, the borrow from one that is 0, and the result modulo the width.
SumsExact ==
  call.op = "sums" =>
    LET n == call.n
        T == Top(n)
    IN /\ call.add[1] + T * call.add[2] = call.a + call.b
       /\ call.sub[1] - T * call.sub[2] = call.a - call.b
       /\ call.compare = (IF call.a < call.b THEN -1 ELSE IF call.a > call.b THEN 1 ELSE 0)
       /\ call.addInt = (call.a + (call.b % Base)) % T
       /\ call.subInt = (call.a - (call.b % Base)) % T
       /\ call.left[1] + T * call.left[2] = 2 * call.a
       /\ call.right = call.a \div 2
       /\ call.bytes = call.a
       /\ call.last = call.a % 2 ^ ByteBits /\ call.beyond = -1

\* The product of words from products of their halves, of numbers by shifting, division, and
\* the two modular products (a bit at a time and a word at a time) are the integers' own.
ProductsExact ==
  call.op = "products" =>
    LET n == call.n
        T == Top(n)
        a0 == Word(call.a, 0)
        b0 == Word(call.b, 0)
    IN /\ call.product = call.a * call.b
       /\ call.word[1] * Base + call.word[2] = a0 * b0
       /\ call.plus[1] + T * call.plus[2] = call.mod + call.a * b0
       /\ call.division.quo * call.mod + call.division.rem = call.a * T + call.b
       /\ call.division.rem < call.mod
       /\ call.multiple = (call.a % SmallOf(call.b) = 0)
       /\ call.addMod = (call.a + call.b) % call.mod
       /\ call.subMod = (call.a - call.b) % call.mod
       /\ call.leftMod = (2 * call.a) % call.mod
       /\ {call.product1, call.product2} = {(call.a * call.b) % call.mod}

PowerOf(base, exp, mod) ==
  LET f[i \in 0 .. exp] == IF i = 0 THEN 1 % mod ELSE (f[i - 1] * base) % mod IN f[exp]
\* The three exponentiations of wp_arith.c agree with the power and with each other, and none
\* of their "cannot happen" exits is reached.
PowersExact ==
  call.op = "powers" =>
    {call.plain, call.words, call.montgomery} = {PowerOf(call.base, call.exp, call.mod)}

\* wp_arith.c computes what it says: sums, products, powers, each to the last carry.
ArithmeticExact == SumsExact /\ ProductsExact /\ PowersExact

\* Decryption, with the primes or without them, gives back every message that was encrypted,
\* and a signature is accepted for what was signed and for nothing else.
CiphersUndone == /\ call.op = "decrypt" => call.out = call.m
                 /\ call.op = "verify" => (call.out <=> call.of = call.m)
EncodingsUndone ==
  /\ call.op = "unpad" => call.unpadded = [ok |-> TRUE, data |-> call.data]
  /\ call.op = "code" => call.decoded = call.data
  /\ call.op = "mail" /\ call.reached =>
       call.got = [size |-> IF call.signed THEN call.size ELSE -call.size,
                   contact |-> call.keyset.contact, text |-> Named("text", call.size)]
\* What is wrapped is unwrapped to the same: an encrypted or signed message; a padded one, for
\* every padding, size and seed; bytes in base 64, wherever a line ends; and a message between
\* contacts, whatever part of it fits in the block, with its sender and its sign if it is signed.
RoundTrip == CiphersUndone /\ EncodingsUndone

\* No part of a key begins with a byte of zeros.
Wide(x, n) == x = 0 \/ x >= Top(n) \div Radix
AllWide(k) == Wide(k.d, Nfull) /\ \A x \in {k.dp, k.dq, k.qinv} : Wide(x, Nhalf)
\* A key that was saved is read back, the public half of every key and the whole of a key none
\* of whose parts begins with a byte of zeros.
KeysReadBack == call.op = "read" /\ AllWide(call.saved) => call.read = call.saved

\* wp_rsa.h promises it of every key.  But read_key takes bytes of the next part into one that
\* is shorter than its place.
EveryKeyReadsBack == call.op = "read" => call.read = call.saved
=============================================================================

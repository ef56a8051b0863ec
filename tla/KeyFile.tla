------------------------------ MODULE KeyFile ------------------------------
(***************************************************************************)
(* Keys in files: lib/asn1.c.  A key is written as a sequence of integers, *)
(* each with a tag and a length before it, and then in base 64.  Bytes     *)
(* have ByteBits bits; a length that does not fit below the top bit of a   *)
(* byte follows in bytes of its own.  Sequences are written from the end   *)
(* of a buffer in the code.  The lines around the base 64, and files that  *)
(* other programs wrote (the encapsulated form), are left out.             *)
(***************************************************************************)
EXTENDS WideArith
LOCAL INSTANCE SequencesExt

CONSTANT LineLength    \* 64: characters of base 64 on a line, a multiple of 4

Radix == 2 ^ ByteBits
High == Radix \div 2
IntTag == 2 % Radix
SeqTag == 3 % Radix      \* 0x30
BytesOf(x, size) == [i \in 1 .. size |-> (x \div Radix ^ (size - i)) % Radix]
Size(x) == CHOOSE k \in 1 .. 31 : x < Radix ^ k /\ (k = 1 \/ x >= Radix ^ (k - 1))
Concat(seqs) == FoldLeft(LAMBDA done, s : done \o s, <<>>, seqs)

\* write_id_len, before contents of that size.
IdLen(id, size) ==
  IF size < High THEN <<id, size>>
  ELSE <<id, High + Size(size)>> \o BytesOf(size, Size(size))

\* write_int: no more bytes than needed, and a zero before a top bit.
WrittenBytes(x) == Size(x) + Flag(x >= High * Radix ^ (Size(x) - 1))
WriteInt(x) == IdLen(IntTag, WrittenBytes(x)) \o BytesOf(x, WrittenBytes(x))

\* wp_rsa_write_key_to_bytes.
Parts(k) ==
  IF k.d = 0 THEN <<k.n, k.e>>
  ELSE <<0, k.n, k.e, k.d>>
         \o (IF 0 \in {k.p, k.q, k.dp, k.dq, k.qinv} THEN <<>> ELSE <<k.p, k.q, k.dp, k.dq, k.qinv>>)
WriteKey(k) ==
  LET body == Concat([i \in DOMAIN Parts(k) |-> WriteInt(Parts(k)[i])])
  IN IdLen(SeqTag, Len(body)) \o body

\* read_length at a position: how many bytes it takes and what it says; [0, -1] is an error.
ReadLength(f, pos) ==
  LET first == f[pos]
      k == first - High
  IN IF pos > Len(f) THEN [bytes |-> 0, length |-> -1]
     ELSE IF first < High THEN [bytes |-> 1, length |-> first]
     ELSE IF k >= 4 \/ pos + k > Len(f) THEN [bytes |-> 0, length |-> -1]
     ELSE [bytes |-> k + 1,
           length |-> FoldLeft(LAMBDA x, b : x * Radix + b, 0, SubSeq(f, pos + 1, pos + k))]
Contents(f, pos) == pos + 1 + ReadLength(f, pos + 1).bytes

\* asn1_read_seq: the positions of the elements, none if the sequence is not well formed.
Walk(f, end) ==
  LET walk[pos \in 1 .. Len(f) + 1] ==
        LET e == ReadLength(f, pos + 1)
            next == pos + 1 + e.bytes + e.length
        IN IF pos = end THEN <<>>
           ELSE IF e.bytes = 0 \/ next > end THEN <<0>> ELSE <<pos>> \o walk[next]
  IN walk[Contents(f, 1)]
WellFormed(found) == IF 0 \in Range(found) THEN <<>> ELSE found
ElementsUpTo(f, l) ==
  IF f[1] # SeqTag \/ l.bytes = 0 \/ 1 + l.bytes + l.length # Len(f) THEN <<>>
  ELSE WellFormed(Walk(f, Len(f) + 1))
Elements(f) == ElementsUpTo(f, ReadLength(f, 2))

\* read_int: the length is respected.
ReadInt(f, pos) ==
  LET from == Contents(f, pos)
  IN FoldLeft(LAMBDA x, b : x * Radix + b, 0, SubSeq(f, from, from + ReadLength(f, pos + 1).length - 1))

\* Mutant: the zero byte before a top bit is taken for a digit.
MutReadPart(f, pos, n) == FromBytes(n, SubSeq(f, Contents(f, pos), Len(f)))

\* read_key: an initial zero byte is skipped, and wp_from_bytes is given all that is left of
\* the file, of which it takes as much as fits in n words.
ReadFrom(f, from, length, n) ==
  IF length > n * BytesPerWord THEN Exit ELSE FromBytes(n, SubSeq(f, from, Len(f)))
ReadPart(f, pos, n) ==
  LET skip == Flag(f[Contents(f, pos)] = 0)
  IN ReadFrom(f, Contents(f, pos) + skip, ReadLength(f, pos + 1).length - skip, n)

\* wp_rsa_read, of a key as long as keys may be (n words): [n |-> 0] if it fails.
ReadParts(f, n, part) ==
  LET half(i) == IF Len(part) < 8 THEN 0 ELSE ReadPart(f, part[i], n \div 2)
  IN [nbits |-> n * WordBits, n |-> ReadPart(f, part[1], n), e |-> ReadInt(f, part[2]),
      d |-> IF Len(part) = 2 THEN 0 ELSE ReadPart(f, part[3], n),
      p |-> half(4), q |-> half(5), dp |-> half(6), dq |-> half(7), qinv |-> half(8)]
Checked(k) == IF Exit \in {k.n, k.d, k.p, k.q, k.dp, k.dq, k.qinv} THEN [n |-> 0] ELSE k
ReadElements(f, n, all) ==
  IF Len(all) = 2 THEN Checked(ReadParts(f, n, all))
  ELSE IF Len(all) \in {4, 9} /\ ReadInt(f, all[1]) = 0     \* a private key has a 0 first
  THEN Checked(ReadParts(f, n, Tail(all)))
  ELSE [n |-> 0]
ReadKeyFile(f, n) == ReadElements(f, n, Elements(f))

-----------------------------------------------------------------------------
(* Base 64, of bytes of 8 bits.  Characters are the 6 bits they stand for. *)
Padding == 64
NewLine == 65

\* b64_encode: four characters for three bytes, padded, with a new line after every
\* LineLength of them and at the end of a line that was begun.
Encode64(bytes) ==
  LET byte(i) == IF i <= Len(bytes) THEN bytes[i] ELSE 0
      triple(t) == (byte(3 * t + 1) * 256 + byte(3 * t + 2)) * 256 + byte(3 * t + 3)
      groups == (Len(bytes) + 2) \div 3
      char(i) == (triple((i - 1) \div 4) \div 64 ^ (3 - ((i - 1) % 4))) % 64
      used == (Len(bytes) * 8 + 5) \div 6
      chars == [i \in 1 .. 4 * groups |-> IF i <= used THEN char(i) ELSE Padding]
      lines == (Len(chars) + LineLength - 1) \div LineLength
      line(j) == SubSeq(chars, 1 + (j - 1) * LineLength,
                        IF j * LineLength < Len(chars) THEN j * LineLength ELSE Len(chars))
  IN Concat([j \in 1 .. lines |-> Append(line(j), NewLine)])

DecodeStep(s, v) ==
  IF v < 64
  THEN [out |-> IF s.state = 0 THEN s.out ELSE Append(s.out, s.old + (v \div 4 ^ (3 - s.state))),
        old |-> (v * 4 ^ (s.state + 1)) % 256, state |-> (s.state + 1) % 4]
  ELSE IF v = Padding THEN [s EXCEPT !.state = (@ + 1) % 4]
  ELSE s
Decode64(chars) == FoldLeft(DecodeStep, [out |-> <<>>, old |-> 0, state |-> 0], chars).out
=============================================================================

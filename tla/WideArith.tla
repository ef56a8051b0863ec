----------------------------- MODULE WideArith -----------------------------
(***************************************************************************)
(* Integers of several words: lib/wp_arith.c.  A number is what its words  *)
(* stand for; the code keeps them in an array, most significant first,     *)
(* and here word 0 is the least significant.  The operations go over the   *)
(* words, or bits, in the order of the code, with its carries, and every   *)
(* result is cut to the width of the variable that holds it.  `n` is a     *)
(* number of words throughout, where the code has nbits = WordBits * n.    *)
(* Assertions that end the program are guards of the callers.              *)
(***************************************************************************)
EXTENDS Integers, Sequences

CONSTANTS
  WordBits,    \* 64: bits of a uint64_t
  ByteBits,    \* 8
  Unroll,      \* 16: the words that one turn of an unrolled loop handles
  Squarings    \* 16: 65537 is 2^Squarings + 1

Base == 2 ^ WordBits
Half == 2 ^ (WordBits \div 2)        \* mask32 + 1
Top(n) == Base ^ n
BytesPerWord == WordBits \div ByteBits
Word(x, i) == (x \div Base ^ i) % Base
Flag(b) == IF b THEN 1 ELSE 0
Exit == -1                            \* the program ends

\* A loop of k turns over a number, from x, which is over when the program is.
Loop(k, Step(_, _), x) ==
  LET turn(i, y) == IF y = Exit THEN Exit ELSE Step(i, y)
      f[i \in 0 .. k] == IF i = 0 THEN x ELSE turn(i, f[i - 1])
  IN f[k]
Iterate(k, Step(_), x) == Loop(k, LAMBDA i, y : Step(y), x)
\* The words of the result and the last carry: Step (i, carry) is <<word i, next carry>>.
Above(low, i, s) == <<low + s[1] * Base ^ i, s[2]>>
NextWord(below, i, Step(_, _)) == Above(below[1], i, Step(i, below[2]))
Ripple(n, Step(_, _)) ==
  LET f[i \in 0 .. n] == IF i = 0 THEN <<0, 0>> ELSE NextWord(f[i - 1], i - 1, Step)
  IN f[n]

-----------------------------------------------------------------------------
\* wp_compare: the most significant words that differ decide.
Differ(n, a, b) == {i \in 0 .. n - 1 : Word(a, i) # Word(b, i)}
Compare(n, a, b) ==
  IF Differ(n, a, b) = {} THEN 0
  ELSE LET i == CHOOSE i \in Differ(n, a, b) : \A j \in Differ(n, a, b) : j <= i
       IN IF Word(a, i) < Word(b, i) THEN -1 ELSE 1

IsEven(x) == Word(x, 0) % 2 = 0
GetByte(n, x, pos) ==
  IF pos \div BytesPerWord >= n THEN -1
  ELSE (Word(x, pos \div BytesPerWord) \div 2 ^ ((pos % BytesPerWord) * ByteBits)) % 2 ^ ByteBits

\* wp_shift_left and its unrolled form, which differ in nothing else: <<result, carry>>.
ShiftLeft(n, x) ==
  Ripple(n, LAMBDA i, carry : <<((Word(x, i) * 2) % Base) + carry, Word(x, i) \div (Base \div 2)>>)
ShiftRight(n, x) ==
  Ripple(n, LAMBDA i, unused :
    <<Word(x, i) \div 2 + (IF i + 1 < n THEN (Word(x, i + 1) % 2) * (Base \div 2) ELSE 0), 0>>)[1]

\* wp_add.  The unrolled loop stores a word before it computes the carry: if the result is
\* written over the second operand (`over`), the sum is compared with itself.
AddStep(a, b, over, i, carry) ==
  LET raw == (Word(a, i) + Word(b, i)) % Base
      sum == (raw + carry) % Base
  IN <<sum, Flag(raw < (IF over THEN sum ELSE Word(b, i)) \/ (raw = Base - 1 /\ carry = 1))>>
AddTo(n, a, b, resIsB) ==
  Ripple(n, LAMBDA i, carry : AddStep(a, b, resIsB /\ n % Unroll = 0, i, carry))
Add(n, a, b) == AddTo(n, a, b, FALSE)

AddInt(n, x, value) ==
  Ripple(n, LAMBDA i, carry :
    LET w == (Word(x, i) + (IF i = 0 THEN value ELSE carry)) % Base
    IN <<w, Flag(IF i = 0 THEN w < value ELSE carry = 1 /\ w = 0)>>)[1]

\* wp_sub, unrolled or not: <<result, borrow>>.
SubStep(from, sub, i, borrow) ==
  LET both == (Word(sub, i) + borrow) % Base
  IN <<(Word(from, i) - both) % Base, Flag((both = 0 /\ borrow = 1) \/ Word(from, i) < both)>>
Sub(n, from, sub) == Ripple(n, LAMBDA i, borrow : SubStep(from, sub, i, borrow))
SubInt(n, x, value) ==
  Ripple(n, LAMBDA i, borrow :
    IF i = 0 THEN <<(Word(x, 0) - value) % Base, Flag(Word(x, 0) < value)>>
    ELSE <<(Word(x, i) - borrow) % Base, Flag(borrow = 1 /\ Word(x, i) = 0)>>)[1]

\* A sum or a difference, brought back below mod.
LessMod(n, s, mod) ==
  IF s[2] = 1 \/ Compare(n, s[1], mod) >= 0 THEN Sub(n, s[1], mod)[1] ELSE s[1]
PlusMod(n, d, mod) == IF d[2] = 1 THEN Add(n, d[1], mod)[1] ELSE d[1]
AddMod(n, a, b, mod) == LessMod(n, Add(n, a, b), mod)
SubMod(n, from, sub, mod) == PlusMod(n, Sub(n, from, sub), mod)
ShiftLeftMod(n, x, mod) == LessMod(n, ShiftLeft(n, x), mod)

-----------------------------------------------------------------------------
\* Arrays of bytes are sequences, most significant first.
FromBytes(n, bytes) ==
  Loop(IF Len(bytes) < n * BytesPerWord THEN Len(bytes) ELSE n * BytesPerWord,
       LAMBDA i, x : AddInt(n, Iterate(ByteBits, LAMBDA y : ShiftLeft(n, y)[1], x), bytes[i]), 0)
ToBytes(n, x) ==
  [i \in 1 .. n * BytesPerWord |->
     LET j == i - 1     \* the index of the code
     IN (Word(x, n - 1 - j \div BytesPerWord)
           \div 2 ^ (WordBits - ByteBits - (j % BytesPerWord) * ByteBits)) % 2 ^ ByteBits]

\* wp_extend adds words of zeros; wp_shrink only drops words that extend the sign.
Extend(x) == x
Shrinks(new, old, x) ==
  \A i \in new .. old - 1 : Word(x, i) = (IF Word(x, new - 1) >= Base \div 2 THEN Base - 1 ELSE 0)
Shrink(new, x) == x % Top(new)

-----------------------------------------------------------------------------
\* wp_multiply: v1 moves out of the low half of the result as v2 is added to the high one.
ShiftIn(n, sum, low) == ShiftRight(2 * n, (sum[1] * Top(n)) + low) + sum[2] * (Top(2 * n) \div 2)
Multiply(n, v1, v2) ==
  Iterate(n * WordBits,
          LAMBDA res : ShiftIn(n, IF IsEven(res) THEN <<res \div Top(n), 0>>
                                  ELSE Add(n, res \div Top(n), v2), res % Top(n)), v1)

\* A word, plus v, with carry added to the word above: <<both words, carry>>.
Add128(res, v, carry) ==
  LET low == ((res % Base) + v) % Base
      c == IF low < v THEN (carry + 1) % Base ELSE carry
      high == (res \div Base + c) % Base
  IN <<high * Base + low, Flag(high < c)>>

\* The product of two words from products of their halves: <<high, low>>.
MutMultiply128(v1, v2) ==             \* mutant: no carry out of the middle
  LET middle == ((v1 % Half) * (v2 \div Half) + (v1 \div Half) * (v2 % Half)) % Base
      low == ((v1 % Half) * (v2 % Half) + (middle % Half) * Half) % Base
  IN <<((v1 \div Half) * (v2 \div Half) + middle \div Half
          + Flag(low < (middle % Half) * Half)) % Base, low>>
Multiply128(v1, v2) ==
  LET cross == (v1 \div Half) * (v2 % Half)
      middle == ((v1 % Half) * (v2 \div Half) + cross) % Base
      up == (middle % Half) * Half
      low == ((v1 % Half) * (v2 % Half) + up) % Base
  IN <<((v1 \div Half) * (v2 \div Half) + middle \div Half + Flag(middle < cross) * Half
          + Flag(low < up)) % Base, low>>

\* A word, plus the low word of a product, plus what is carried: <<word, next carry>>.
AddProduct(w, p, high) ==
  LET w1 == (w + p[2]) % Base
      w2 == (w1 + high) % Base
  IN <<w2, (p[1] + Flag(w1 < p[2]) + Flag(w2 < high)) % Base>>
\* r + a * word: <<result, the word above it>>.
AddMultiplyInt64(n, r, a, word) ==
  Ripple(n, LAMBDA i, high : AddProduct(Word(r, i), Multiply128(Word(a, i), word), high))

\* wp_multiply_mod, from the top bit of v2.
Bit(x, i) == (x \div 2 ^ i) % 2 = 1
AddModIf(bit, n, x, v, mod) == IF bit THEN AddMod(n, x, v, mod) ELSE x
MultiplyMod(n, v1, v2, mod) ==
  Loop(n * WordBits,
       LAMBDA i, x : AddModIf(Bit(v2, n * WordBits - i), n, ShiftLeftMod(n, x, mod), v1, mod), 0)

\* wp_div: the numerator has twice the words; its high half is less than the denominator.
DivStep(n, s, high, den) ==
  IF s[2] = 1 \/ Compare(n, high, den) >= 0
  THEN (Sub(n, high, den)[1] * Top(n)) + (s[1] % Top(n)) + 1
  ELSE s[1]
DivTurn(n, s, den) == DivStep(n, s, s[1] \div Top(n), den)
Halves(n, x) == [rem |-> x \div Top(n), quo |-> x % Top(n)]
Div(n, numerator, den) ==
  Halves(n, Iterate(n * WordBits, LAMBDA x : DivTurn(n, ShiftLeft(2 * n, x), den), numerator))
MayDiv(n, numerator, den) == Compare(n, numerator \div Top(n), den) < 0

MultipleOfInt(n, x, mod) ==
  Loop(2 * n, LAMBDA i, m :            \* half words, from the top
         (((m * Half) % Base) + ((x \div Half ^ (2 * n - i)) % Half)) % mod, 0) = 0

-----------------------------------------------------------------------------
\* wp_exp_mod: square, and multiply where the exponent has a bit, from the top bit.
Fermat == 2 ^ Squarings + 1
ByFermat(Times(_, _), base) == Times(Iterate(Squarings, LAMBDA x : Times(x, x), base), base)
BitByBit(n, Times(_, _), base, exp) ==
  LET timesIf(bit, square) == IF bit THEN Times(square, base) ELSE square
  IN Loop(n * WordBits, LAMBDA i, x : timesIf(Bit(exp, n * WordBits - i), Times(x, x)), 1)
ExpModFermat(n, base, mod) == ByFermat(LAMBDA x, y : MultiplyMod(n, x, y, mod), base)
ExpMod(n, base, exp, mod) ==
  IF exp = Fermat THEN ExpModFermat(n, base, mod)
  ELSE BitByBit(n, LAMBDA x, y : MultiplyMod(n, x, y, mod), base, exp)

\* init_shifted and what uses it: the numbers have one word more than mod, which is kept
\* by itself in the code.  mod is taken off shifted by WordBits, .. , 1, and then unshifted.
SubConditionalExtra(n, x, sub) == IF Compare(n + 1, sub, x) > 0 THEN x ELSE Sub(n + 1, x, sub)[1]
Mod64(n, x, mod) ==
  Loop(WordBits + 1, LAMBDA i, y : SubConditionalExtra(n, y, mod * 2 ^ (WordBits + 1 - i)), x) % Top(n)
ShiftLeft64Mod(n, x, mod) == Mod64(n, x * Base, mod)
Joined(n, sum) == sum[1] + sum[2] * Top(n)
MultiplyModTemp(n, v1, v2, mod) ==
  Loop(n, LAMBDA i, x :
         Mod64(n, Joined(n, AddMultiplyInt64(n, IF i = 1 THEN 0 ELSE ShiftLeft64Mod(n, x, mod),
                                             v1, Word(v2, n - i))), mod), 0)
ExpMod64(n, base, exp, mod) ==
  IF exp = Fermat THEN ExpModFermat(n, base, mod)
  ELSE BitByBit(n, LAMBDA x, y : MultiplyModTemp(n, x, y, mod), base, exp)

-----------------------------------------------------------------------------
\* Montgomery: with R = Top(n), a step computes a * b / R modulo mod.
DoubledBelow(n, x, r) ==
  LET up[y \in Nat] == IF y < Top(n) \div 2 /\ Compare(n, r, y) > 0 THEN up[ShiftLeft(n, y)[1]] ELSE y
  IN up[x]
SubHalving(n, r, x, mod) ==
  LET down[p \in Nat \X Nat] ==
        IF Compare(n, p[1], mod) < 0 THEN p[1]
        ELSE down[<<IF Compare(n, p[1], p[2]) >= 0 THEN Sub(n, p[1], p[2])[1] ELSE p[1],
                    ShiftRight(n, p[2])>>]
  IN down[<<r, x>>]
Square(n, x, mod) == MultiplyMod(n, x, x, mod)
RSquared(n, mod) ==
  LET r == Sub(n, 0, mod)[1] IN Square(n, SubHalving(n, r, DoubledBelow(n, mod, r), mod), mod)

\* res has a word more than a.  A carry out of it would end the program.
PutPair(x, i, s) ==
  <<(x % Base ^ i) + (s[1] * Base ^ i) + ((x \div Base ^ (i + 2)) * Base ^ (i + 2)), s[2]>>
AddPair(r, i, p) ==
  PutPair(r[1], i, Add128((r[1] \div Base ^ i) % (Base * Base), p[2], (r[2] + p[1]) % Base))
Result(p) == IF p[2] # 0 THEN Exit ELSE p[1]
Multiply64Add(n, res, a, word) ==
  LET f[i \in 0 .. n] ==
        IF i = 0 THEN <<res, 0>>
        ELSE AddPair(f[i - 1], i - 1, Multiply128(Word(a, i - 1), word))
  IN Result(f[n])

\* Adding mod, shifted, for each bit that is set clears the low word; the carries are
\* made up for in the words above it, which must end below mod.
Cleared(s, i, carries) ==
  IF (s[1] \div 2 ^ i) % 2 = 1 THEN <<Exit, 0>> ELSE <<s[1], carries + s[2]>>
AddForBit(n, r, i, mod) ==
  IF r[1] = Exit \/ (r[1] \div 2 ^ i) % 2 = 0 THEN r
  ELSE Cleared(Add(n + 1, r[1], mod * 2 ^ i), i, r[2])
SubCarries(n, x, carries, mod) ==
  LET less[p \in Nat \X Int] ==
        IF p[2] > 0 \/ Compare(n, p[1], mod) >= 0
        THEN LET d == Sub(n, p[1], mod) IN less[<<d[1], p[2] - d[2]>>]
        ELSE p[1]
  IN less[<<x, carries>>]
MakeLowWordZero(n, res, mod) ==
  LET f[i \in 0 .. WordBits] ==
        IF i = 0 THEN <<res, 0>> ELSE AddForBit(n, f[i - 1], i - 1, mod)
      end == f[WordBits]
  IN IF end[1] = Exit THEN Exit ELSE SubCarries(n, end[1] \div Base, end[2], mod)

MontgomeryTurn(n, sum, mod) == IF sum = Exit THEN Exit ELSE MakeLowWordZero(n, sum, mod)
MontgomeryStep(n, a, b, mod) ==
  Loop(n, LAMBDA i, x : MontgomeryTurn(n, Multiply64Add(n, x, a, Word(b, i - 1)), mod), 0)

\* wp_exp_mod_montgomery, and what it goes on to do after wp_exp_mod for an even modulus.
MontgomeryTimes(n, x, y, mod) ==
  IF x = Exit \/ y = Exit THEN Exit ELSE MontgomeryStep(n, x, y, mod)
MontgomeryTimesIf(bit, n, x, y, mod) == IF bit THEN MontgomeryTimes(n, x, y, mod) ELSE x
MontgomeryPower(n, mbase, exp, mod) ==
  Loop(n * WordBits,
       LAMBDA i, m :
         IF m = 0 THEN IF Bit(exp, n * WordBits - i) THEN mbase ELSE 0
         ELSE MontgomeryTimesIf(Bit(exp, n * WordBits - i), n,
                                MontgomeryTimes(n, m, m, mod), mbase, mod), 0)
ExpModMontgomery(n, base, exp, mod) ==
  MontgomeryTimes(n, MontgomeryPower(n, MontgomeryStep(n, base, RSquared(n, mod), mod), exp, mod),
                  1, mod)
=============================================================================

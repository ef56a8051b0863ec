------------------------- MODULE SubsequenceProofs --------------------------
EXTENDS Subsequences, SequenceTheorems, WellFoundedInduction, TLAPS

(* Induction for a set: a set that holds 0 and every successor is Nat.       *)
LEMMA Induction ==
  ASSUME NEW S \in SUBSET Nat, 0 \in S, \A n \in S : n + 1 \in S
  PROVE  S = Nat
<1> SUFFICES ASSUME Nat \ S # {} PROVE FALSE
  OBVIOUS
<1>1. PICK n \in Nat \ S : \A k \in Nat \ S : ~ (<<k, n>> \in OpToRel(<, Nat))
  <2> DEFINE R == OpToRel(<, Nat)
             T == Nat \ S
  <2>1. IsWellFoundedOn(R, Nat)
    BY NatLessThanWellFounded
  <2>2. T \subseteq Nat /\ T # {}
    OBVIOUS
  <2> HIDE DEF R, T
  <2>3. \E x \in T : \A y \in T : ~ (<<y, x>> \in R)
    BY <2>1, <2>2, WFMin
  <2> QED BY <2>3 DEF R, T
<1>2. n # 0 /\ n - 1 \in Nat
  OBVIOUS
<1>3. <<n - 1, n>> \in OpToRel(<, Nat)
  BY <1>2 DEF OpToRel
<1>4. n - 1 \in S
  BY <1>1, <1>2, <1>3
<1> QED BY <1>4, <1>2

(* Every nonempty set of naturals has a least element.                       *)
LEMMA Least ==
  ASSUME NEW S \in SUBSET Nat, S # {}
  PROVE  \E n \in S : \A k \in S : n <= k
<1> SUFFICES ASSUME \A n \in S : \E k \in S : ~ n <= k PROVE FALSE
  OBVIOUS
<1> DEFINE T == {n \in Nat : \A k \in S : n <= k}
<1>1. 0 \in T
  OBVIOUS
<1>2. \A n \in T : n + 1 \in T
  <2> SUFFICES ASSUME NEW n \in T, NEW k \in S PROVE n + 1 <= k
    OBVIOUS
  <2>1. n <= k /\ n \in Nat /\ k \in Nat
    OBVIOUS
  <2>2. n # k
    OBVIOUS
  <2> QED BY <2>1, <2>2
<1> HIDE DEF T
<1>3. T = Nat
  <2>1. T \in SUBSET Nat
    BY DEF T
  <2> QED BY <1>1, <1>2, <2>1, Induction
<1>4. PICK n \in S : TRUE
  OBVIOUS
<1>5. n + 1 \in T
  BY <1>3, <1>4
<1>6. n + 1 <= n
  BY <1>5 DEF T
<1> QED BY <1>4, <1>6

\* What Only keeps of the first n elements, n counting from 0.
Compaction(f, s, K, n) ==
  f = [i \in 0 .. n |->
         IF i = 0 THEN <<>> ELSE IF s[i] \in K THEN Append(f[i - 1], s[i]) ELSE f[i - 1]]

LEMMA CompactionExists ==
  ASSUME NEW s, NEW K, NEW n \in Nat
  PROVE  \E f : Compaction(f, s, K, n)
<1> DEFINE D == {k \in Nat : \E f : Compaction(f, s, K, k)}
<1>1. 0 \in D
  <2> DEFINE f == [i \in 0 .. 0 |-> <<>>]
  <2>1. Compaction(f, s, K, 0)
    BY DEF Compaction
  <2> QED BY <2>1
<1>2. ASSUME NEW k \in D PROVE k + 1 \in D
  <2>1. k \in Nat /\ \E f : Compaction(f, s, K, k)
    OBVIOUS
  <2>2. PICK f : Compaction(f, s, K, k)
    BY <2>1
  <2> HIDE DEF D
  <2> DEFINE Step(h, i) == IF i = 0 THEN <<>>
                           ELSE IF s[i] \in K THEN Append(h[i - 1], s[i]) ELSE h[i - 1]
             g == [i \in 0 .. k + 1 |-> Step(f, i)]
             h == [i \in 0 .. k + 1 |-> Step(g, i)]
  <2>3. f = [i \in 0 .. k |-> Step(f, i)]
    BY <2>2, Zenon DEF Compaction
  <2> HIDE DEF Step
  <2>4. \A i \in 0 .. k : g[i] = f[i]
    <3>1. \A i \in 0 .. k : f[i] = Step(f, i)
      BY <2>3
    <3>2. \A i \in 0 .. k : i \in 0 .. k + 1
      BY <2>1
    <3> QED BY <3>1, <3>2
  <2>5. \A i \in 0 .. k + 1 : Step(g, i) = Step(f, i)
    <3> TAKE i \in 0 .. k + 1
    <3>1. CASE i = 0
      BY <3>1 DEF Step
    <3>2. CASE i # 0
      <4>1. i - 1 \in 0 .. k
        BY <2>1, <3>2
      <4>2. g[i - 1] = f[i - 1]
        BY <2>4, <4>1
      <4> HIDE DEF g
      <4> QED BY <3>2, <4>2 DEF Step
    <3> QED BY <3>1, <3>2
  <2>6. g = h
    BY <2>5
  <2>7. Compaction(g, s, K, k + 1)
    <3> HIDE DEF g
    <3> QED BY <2>6 DEF Compaction, Step
  <2> QED BY <2>1, <2>7 DEF D
<1> HIDE DEF D
<1>3. D = Nat
  BY <1>1, <1>2, Induction DEF D
<1> QED BY <1>3 DEF D

LEMMA OnlyCompacts ==
  ASSUME NEW s, NEW K, Len(s) \in Nat
  PROVE  \E f : Compaction(f, s, K, Len(s)) /\ Only(s, K) = f[Len(s)]
<1> DEFINE f == CHOOSE f : Compaction(f, s, K, Len(s))
<1>1. Compaction(f, s, K, Len(s))
  BY CompactionExists
<1>2. Only(s, K) = f[Len(s)]
  BY Zenon DEF Only, Compaction
<1> QED BY <1>1, <1>2

LEMMA CompactionSteps ==
  ASSUME NEW f, NEW s, NEW K, NEW n \in Nat, Compaction(f, s, K, n)
  PROVE  /\ f[0] = <<>>
         /\ \A i \in 1 .. n : f[i] = IF s[i] \in K THEN Append(f[i - 1], s[i]) ELSE f[i - 1]
<1> DEFINE Step(i) == IF i = 0 THEN <<>>
                      ELSE IF s[i] \in K THEN Append(f[i - 1], s[i]) ELSE f[i - 1]
<1>1. f = [i \in 0 .. n |-> Step(i)]
  BY Zenon DEF Compaction
<1> HIDE DEF Step
<1>2. f[0] = Step(0) /\ \A i \in 1 .. n : f[i] = Step(i)
  <2>1. 0 \in 0 .. n /\ \A i \in 1 .. n : i \in 0 .. n
    OBVIOUS
  <2>2. \A i \in 0 .. n : f[i] = Step(i)
    BY <1>1
  <2> QED BY <2>1, <2>2
<1> QED BY <1>2 DEF Step

\* Sequences are reached by appending elements one at a time.
LEMMA AppendInduction ==
  ASSUME NEW S, NEW T \in SUBSET Seq(S), <<>> \in T,
         \A s \in T, x \in S : Append(s, x) \in T
  PROVE  T = Seq(S)
<1> DEFINE D == {n \in Nat : \A s \in Seq(S) : Len(s) = n => s \in T}
<1>1. 0 \in D
  <2>1. \A s \in Seq(S) : Len(s) = 0 => s = <<>>
    OBVIOUS
  <2> QED BY <2>1
<1>2. ASSUME NEW n \in D PROVE n + 1 \in D
  <2>1. n \in Nat /\ \A s \in Seq(S) : Len(s) = n => s \in T
    OBVIOUS
  <2> SUFFICES ASSUME NEW s \in Seq(S), Len(s) = n + 1
               PROVE  s \in T
    BY <2>1
  <2> DEFINE t == [i \in 1 .. n |-> s[i]]
  <2>2. t \in Seq(S) /\ Len(t) = n
    <3>1. \A i \in 1 .. n : s[i] \in S
      BY <2>1
    <3> QED BY <2>1, <3>1, IsASeq
  <2>3. s[n + 1] \in S
    BY <2>1
  <2>4. s = Append(t, s[n + 1])
    <3>1. Append(t, s[n + 1]) \in Seq(S) /\ Len(Append(t, s[n + 1])) = n + 1
      BY <2>1, <2>2, <2>3
    <3>2. \A i \in 1 .. n + 1 : Append(t, s[n + 1])[i] = s[i]
      BY <2>1, <2>2, <2>3
    <3> HIDE DEF t
    <3> QED BY <2>1, <3>1, <3>2, SeqEqual
  <2>5. t \in T
    BY <2>1, <2>2
  <2> HIDE DEF t
  <2> QED BY <2>3, <2>4, <2>5
<1> HIDE DEF D
<1>3. D = Nat
  BY <1>1, <1>2, Induction DEF D
<1>4. \A s \in Seq(S) : Len(s) \in D
  BY <1>3
<1> QED BY <1>4 DEF D

LEMMA OnlyEmpty ==
  ASSUME NEW K PROVE Only(<<>>, K) = <<>>
<1>1. PICK f : Compaction(f, <<>>, K, Len(<<>>)) /\ Only(<<>>, K) = f[Len(<<>>)]
  BY OnlyCompacts
<1> QED BY <1>1 DEF Compaction

LEMMA OnlyAppend ==
  ASSUME NEW S, NEW s \in Seq(S), NEW x \in S, NEW K
  PROVE  Only(Append(s, x), K) = IF x \in K THEN Append(Only(s, K), x) ELSE Only(s, K)
<1> DEFINE n == Len(s)
           t == Append(s, x)
<1>1. n \in Nat /\ Len(t) = n + 1
  OBVIOUS
<1>2. \A i \in 1 .. n : t[i] = s[i]
  OBVIOUS
<1>3. t[n + 1] = x
  OBVIOUS
<1> HIDE DEF n, t
<1>4. PICK f : Compaction(f, s, K, n) /\ Only(s, K) = f[n]
  BY <1>1, OnlyCompacts DEF n
<1>5. PICK g : Compaction(g, t, K, n + 1) /\ Only(t, K) = g[n + 1]
  BY <1>1, OnlyCompacts
<1>6. f[0] = <<>> /\ g[0] = <<>>
  BY <1>1, <1>4, <1>5, CompactionSteps
<1>7. \A i \in 1 .. n : f[i] = IF s[i] \in K THEN Append(f[i - 1], s[i]) ELSE f[i - 1]
  BY <1>1, <1>4, CompactionSteps
<1>8. \A i \in 1 .. n + 1 : g[i] = IF t[i] \in K THEN Append(g[i - 1], t[i]) ELSE g[i - 1]
  BY <1>1, <1>5, CompactionSteps
<1> DEFINE D == {i \in Nat : i <= n => f[i] = g[i]}
<1>9. 0 \in D
  BY <1>6
<1>10. ASSUME NEW i \in D PROVE i + 1 \in D
  <2>1. i \in Nat /\ (i <= n => f[i] = g[i])
    OBVIOUS
  <2> HIDE DEF D
  <2>2. ASSUME i + 1 <= n PROVE f[i + 1] = g[i + 1]
    <3>1. f[i] = g[i] /\ i + 1 \in 1 .. n /\ i + 1 \in 1 .. n + 1 /\ (i + 1) - 1 = i
      BY <2>1, <2>2, <1>1
    <3> QED BY <3>1, <1>2, <1>7, <1>8
  <2> QED BY <2>1, <2>2 DEF D
<1> HIDE DEF D
<1>11. n \in D
  BY <1>1, <1>9, <1>10, Induction DEF D
<1>12. f[n] = g[n]
  BY <1>1, <1>11 DEF D
<1>13. g[n + 1] = IF t[n + 1] \in K THEN Append(g[n], t[n + 1]) ELSE g[n]
  <2>1. n + 1 \in 1 .. n + 1 /\ (n + 1) - 1 = n
    BY <1>1
  <2> QED BY <1>8, <2>1
<1> QED BY <1>3, <1>4, <1>5, <1>12, <1>13 DEF t

\* o is left of s: elements of s that are in K, and all of those.
LeftOf(o, s, K, S) ==
  /\ o \in Seq(S \cap K) /\ Len(o) <= Len(s)
  /\ \A j \in 1 .. Len(o) : \E i \in 1 .. Len(s) : o[j] = s[i]
  /\ \A i \in 1 .. Len(s) : s[i] \in K => \E j \in 1 .. Len(o) : o[j] = s[i]

LEMMA OnlyKeeps ==
  ASSUME NEW S, NEW K, NEW s \in Seq(S)
  PROVE  LeftOf(Only(s, K), s, K, S)
<1> DEFINE T == {u \in Seq(S) : LeftOf(Only(u, K), u, K, S)}
<1>1. <<>> \in T
  <2>1. LeftOf(<<>>, <<>>, K, S)
    BY DEF LeftOf
  <2> QED BY <2>1, OnlyEmpty
<1>2. ASSUME NEW u \in T, NEW x \in S PROVE Append(u, x) \in T
  <2> DEFINE o == Only(u, K)
             v == Append(u, x)
             p == Only(v, K)
  <2>1. u \in Seq(S) /\ LeftOf(o, u, K, S)
    OBVIOUS
  <2>2. p = IF x \in K THEN Append(o, x) ELSE o
    BY <2>1, OnlyAppend
  <2>3. /\ v \in Seq(S) /\ Len(v) = Len(u) + 1 /\ Len(u) \in Nat
        /\ v[Len(u) + 1] = x /\ \A i \in 1 .. Len(u) : v[i] = u[i]
    BY <2>1
  <2> HIDE DEF o, v, p, T
  <2> SUFFICES LeftOf(p, v, K, S)
    BY <2>3 DEF T, v, p
  <2>4. CASE x \in K
    <3>1. /\ p \in Seq(S \cap K) /\ Len(p) = Len(o) + 1 /\ Len(o) \in Nat
          /\ p[Len(o) + 1] = x /\ \A j \in 1 .. Len(o) : p[j] = o[j]
      BY <2>1, <2>2, <2>4 DEF LeftOf
    <3>2. Len(p) <= Len(v)
      BY <2>1, <2>3, <3>1 DEF LeftOf
    <3>3. \A j \in 1 .. Len(p) : \E i \in 1 .. Len(v) : p[j] = v[i]
      <4> TAKE j \in 1 .. Len(p)
      <4>1. CASE j \in 1 .. Len(o)
        <5>1. PICK i \in 1 .. Len(u) : o[j] = u[i]
          BY <2>1, <4>1 DEF LeftOf
        <5> QED BY <2>3, <3>1, <4>1, <5>1
      <4>2. CASE j = Len(o) + 1
        BY <2>3, <3>1, <4>2
      <4> QED BY <3>1, <4>1, <4>2
    <3>4. ASSUME NEW i \in 1 .. Len(v), v[i] \in K
          PROVE  \E j \in 1 .. Len(p) : p[j] = v[i]
      <4>1. CASE i \in 1 .. Len(u)
        <5>1. PICK j \in 1 .. Len(o) : o[j] = u[i]
          BY <2>1, <2>3, <3>4, <4>1 DEF LeftOf
        <5> QED BY <2>3, <3>1, <4>1, <5>1
      <4>2. CASE i = Len(u) + 1
        BY <2>3, <3>1, <4>2
      <4> QED BY <2>3, <4>1, <4>2
    <3> QED BY <3>1, <3>2, <3>3, <3>4 DEF LeftOf
  <2>5. CASE x \notin K
    <3>1. p = o
      BY <2>2, <2>5
    <3>2. \A j \in 1 .. Len(o) : \E i \in 1 .. Len(v) : o[j] = v[i]
      <4> TAKE j \in 1 .. Len(o)
      <4>1. PICK i \in 1 .. Len(u) : o[j] = u[i]
        BY <2>1 DEF LeftOf
      <4> QED BY <2>3, <4>1
    <3>3. ASSUME NEW i \in 1 .. Len(v), v[i] \in K
          PROVE  \E j \in 1 .. Len(o) : o[j] = v[i]
      <4>1. i \in 1 .. Len(u) /\ v[i] = u[i]
        BY <2>3, <2>5, <3>3
      <4> QED BY <2>1, <3>3, <4>1 DEF LeftOf
    <3> QED BY <2>1, <2>3, <3>1, <3>2, <3>3 DEF LeftOf
  <2> QED BY <2>4, <2>5
<1>3. T = Seq(S)
  <2>1. T \in SUBSET Seq(S)
    OBVIOUS
  <2> HIDE DEF T
  <2> QED BY <1>1, <1>2, <2>1, AppendInduction DEF LeftOf
<1> QED BY <1>3

LEMMA OnlyAll ==
  ASSUME NEW S, NEW K, NEW s \in Seq(S), \A i \in 1 .. Len(s) : s[i] \in K
  PROVE  Only(s, K) = s
<1> DEFINE All(u) == \A i \in 1 .. Len(u) : u[i] \in K
           T == {u \in Seq(S) : All(u) => Only(u, K) = u}
<1>1. <<>> \in T
  <2> HIDE DEF All
  <2> QED BY OnlyEmpty
<1>2. ASSUME NEW u \in T, NEW x \in S PROVE Append(u, x) \in T
  <2> DEFINE v == Append(u, x)
  <2>1. u \in Seq(S) /\ (All(u) => Only(u, K) = u)
    OBVIOUS
  <2>2. v \in Seq(S) /\ Len(v) = Len(u) + 1 /\ v[Len(u) + 1] = x /\ Len(u) \in Nat
        /\ \A i \in 1 .. Len(u) : v[i] = u[i]
    BY <2>1
  <2>3. ASSUME All(v) PROVE Only(v, K) = v
    <3>1. x \in K /\ All(u)
      <4> HIDE DEF v
      <4>1. \A i \in 1 .. Len(u) : i \in 1 .. Len(v) /\ u[i] = v[i]
        BY <2>2
      <4> QED BY <2>2, <2>3, <4>1
    <3>2. Only(v, K) = Append(Only(u, K), x)
      BY <2>1, <3>1, OnlyAppend
    <3> QED BY <2>1, <3>1, <3>2
  <2> HIDE DEF v, All
  <2> QED BY <2>2, <2>3 DEF v
<1>3. T = Seq(S)
  <2>1. T \in SUBSET Seq(S)
    OBVIOUS
  <2> HIDE DEF T
  <2> QED BY <1>1, <1>2, <2>1, AppendInduction
<1> QED BY <1>3

-----------------------------------------------------------------------------
(***************************************************************************)
(* What Only leaves of a sequence without repetitions.                     *)
(***************************************************************************)
Distinct(s) == \A i, j \in 1 .. Len(s) : s[i] = s[j] => i = j
Elements(s) == {s[i] : i \in 1 .. Len(s)}

LEMMA ElementsAppend ==
  ASSUME NEW S, NEW s \in Seq(S), NEW x \in S
  PROVE  /\ Elements(Append(s, x)) = Elements(s) \cup {x}
         /\ Distinct(Append(s, x)) <=> Distinct(s) /\ x \notin Elements(s)
<1> DEFINE n == Len(s)
           t == Append(s, x)
<1>1. /\ n \in Nat /\ Len(t) = n + 1 /\ t[n + 1] = x
      /\ \A i \in 1 .. n : t[i] = s[i]
  OBVIOUS
<1>2. n = Len(s)
  OBVIOUS
<1> HIDE DEF n, t
<1>3. Elements(t) = Elements(s) \cup {x}
  BY <1>1, <1>2 DEF Elements
<1>4. ASSUME Distinct(t) PROVE Distinct(s) /\ x \notin Elements(s)
  <2>1. \A i \in 1 .. n : i \in 1 .. n + 1 /\ i # n + 1 /\ n + 1 \in 1 .. n + 1
    BY <1>1
  <2> QED BY <1>1, <1>2, <1>4, <2>1 DEF Distinct, Elements
<1>5. ASSUME Distinct(s), x \notin Elements(s) PROVE Distinct(t)
  <2>1. \A i \in 1 .. n + 1 : i \in 1 .. n \/ i = n + 1
    BY <1>1
  <2>2. \A i \in 1 .. n : s[i] # x
    BY <1>2, <1>5 DEF Elements
  <2> QED BY <1>1, <1>2, <1>5, <2>1, <2>2 DEF Distinct
<1> QED BY <1>3, <1>4, <1>5 DEF t

\* Of a sequence without repetitions, Only keeps the elements of K, each once.
Left(o, s, K) ==
  /\ Elements(o) = Elements(s) \cap K /\ Distinct(o) /\ Len(o) <= Len(s)
  /\ ~ Elements(s) \subseteq K => Len(o) < Len(s)

LEMMA OnlyLeft ==
  ASSUME NEW S, NEW K, NEW s \in Seq(S), Distinct(s)
  PROVE  Only(s, K) \in Seq(S) /\ Left(Only(s, K), s, K)
<1> DEFINE Good(u) == Distinct(u) => Only(u, K) \in Seq(S) /\ Left(Only(u, K), u, K)
           T == {u \in Seq(S) : Good(u)}
<1>1. <<>> \in T
  <2>1. Left(<<>>, <<>>, K)
    BY DEF Left, Elements, Distinct
  <2>2. <<>> \in Seq(S)
    OBVIOUS
  <2> QED BY <2>1, <2>2, OnlyEmpty
<1>2. ASSUME NEW u \in T, NEW x \in S PROVE Append(u, x) \in T
  <2>1. u \in Seq(S) /\ Good(u)
    OBVIOUS
  <2> DEFINE v == Append(u, x)
             o == Only(u, K)
  <2>2. v \in Seq(S) /\ Len(v) = Len(u) + 1 /\ Len(u) \in Nat
    BY <2>1
  <2>3. Elements(v) = Elements(u) \cup {x} /\ (Distinct(v) <=> Distinct(u) /\ x \notin Elements(u))
    BY <2>1, ElementsAppend
  <2>4. Only(v, K) = IF x \in K THEN Append(o, x) ELSE o
    BY <2>1, OnlyAppend
  <2> SUFFICES ASSUME Distinct(v) PROVE Only(v, K) \in Seq(S) /\ Left(Only(v, K), v, K)
    BY <2>2
  <2>5. o \in Seq(S) /\ Left(o, u, K)
    BY <2>1, <2>3
  <2> HIDE DEF v, o, Good, T
  <2>6. CASE x \in K
    <3> DEFINE p == Append(o, x)
    <3>1. Elements(p) = Elements(o) \cup {x} /\ (Distinct(p) <=> Distinct(o) /\ x \notin Elements(o))
      BY <2>5, ElementsAppend
    <3>2. p \in Seq(S) /\ Len(p) = Len(o) + 1 /\ Len(o) \in Nat
      BY <2>5
    <3> HIDE DEF p
    <3>3. Elements(p) = Elements(v) \cap K /\ Distinct(p)
      BY <2>3, <2>5, <2>6, <3>1 DEF Left
    <3>4. Len(p) <= Len(v) /\ (~ Elements(v) \subseteq K => Len(p) < Len(v))
      BY <2>2, <2>3, <2>5, <2>6, <3>2 DEF Left
    <3> QED BY <2>4, <2>6, <3>2, <3>3, <3>4 DEF Left, p
  <2>7. CASE x \notin K
    <3>1. Elements(o) = Elements(v) \cap K /\ Distinct(o)
      BY <2>3, <2>5, <2>7 DEF Left
    <3>2. Len(o) < Len(v) /\ Len(o) \in Nat
      BY <2>2, <2>5 DEF Left
    <3> QED BY <2>2, <2>4, <2>5, <2>7, <3>1, <3>2 DEF Left
  <2> QED BY <2>6, <2>7
<1>3. T = Seq(S)
  <2>1. T \in SUBSET Seq(S)
    OBVIOUS
  <2> HIDE DEF T
  <2> QED BY <1>1, <1>2, <2>1, AppendInduction
<1> QED BY <1>3

LEMMA InFrontFacts ==
  ASSUME NEW S, NEW s \in Seq(S), NEW x \in S
  PROVE  /\ <<x>> \o s \in Seq(S) /\ Len(<<x>> \o s) = Len(s) + 1
         /\ Elements(<<x>> \o s) = Elements(s) \cup {x}
         /\ Distinct(s) /\ x \notin Elements(s) => Distinct(<<x>> \o s)
<1> DEFINE n == Len(s)
           t == <<x>> \o s
<1>1. /\ n \in Nat /\ t \in Seq(S) /\ Len(t) = n + 1 /\ t[1] = x
      /\ \A i \in 1 .. n : t[i + 1] = s[i]
  <2>1. <<x>> \in Seq(S) /\ Len(<<x>>) = 1 /\ <<x>>[1] = x
    OBVIOUS
  <2> QED BY <2>1, ConcatProperties
<1>2. n = Len(s)
  OBVIOUS
<1> HIDE DEF n, t
<1>3. \A j \in 1 .. n + 1 : j = 1 \/ \E i \in 1 .. n : j = i + 1
  <2> TAKE j \in 1 .. n + 1
  <2>1. CASE j # 1
    <3>1. j - 1 \in 1 .. n /\ j = (j - 1) + 1
      BY <1>1, <2>1
    <3> QED BY <3>1
  <2> QED BY <2>1
<1>4. \A i \in 1 .. n : i + 1 \in 1 .. n + 1
  BY <1>1
<1>5. 1 \in 1 .. n + 1
  BY <1>1
<1>6. Elements(t) = Elements(s) \cup {x}
  <2>1. ASSUME NEW y \in Elements(t) PROVE y \in Elements(s) \cup {x}
    <3>1. PICK j \in 1 .. n + 1 : y = t[j]
      BY <1>1 DEF Elements
    <3> QED BY <1>1, <1>2, <1>3, <3>1 DEF Elements
  <2>2. ASSUME NEW y \in Elements(s) PROVE y \in Elements(t)
    <3>1. PICK i \in 1 .. n : y = s[i]
      BY <1>2 DEF Elements
    <3> QED BY <1>1, <1>4, <3>1 DEF Elements
  <2>3. x \in Elements(t)
    BY <1>1, <1>5 DEF Elements
  <2> QED BY <2>1, <2>2, <2>3
<1>7. ASSUME Distinct(s), x \notin Elements(s) PROVE Distinct(t)
  <2>1. \A i \in 1 .. n : s[i] # x
    BY <1>2, <1>7 DEF Elements
  <2>2. \A i, j \in 1 .. n + 1 : t[i] = t[j] => i = j
    <3> TAKE i, j \in 1 .. n + 1
    <3>1. CASE i = 1 \/ j = 1
      BY <1>1, <1>3, <2>1, <3>1
    <3>2. CASE i # 1 /\ j # 1
      <4>1. PICK k \in 1 .. n, l \in 1 .. n : i = k + 1 /\ j = l + 1
        BY <1>3, <3>2
      <4> QED BY <1>1, <1>2, <1>7, <4>1 DEF Distinct
    <3> QED BY <3>1, <3>2
  <2> QED BY <1>1, <2>2 DEF Distinct
<1> QED BY <1>1, <1>2, <1>6, <1>7 DEF t

-----------------------------------------------------------------------------
(***************************************************************************)
(* Loops: the results of a number of steps, each a function of the one     *)
(* before and of the number of the step.                                   *)
(***************************************************************************)
\* f has the results of n steps from s, each given by g.
Iterates(f, S, s, g, n) ==
  /\ f \in [0 .. n -> S] /\ f[0] = s
  /\ \A i \in 1 .. n : f[i] = g[<<f[i - 1], i>>]

LEMMA Iteration ==
  ASSUME NEW S, NEW n \in Nat, NEW s \in S, NEW g \in [S \X (1 .. n) -> S]
  PROVE  \E f : Iterates(f, S, s, g, n)
<1> DEFINE Steps(f, k) == f[0] = s /\ \A i \in 1 .. k : f[i] = g[<<f[i - 1], i>>]
           D == {k \in Nat : k <= n => \E f \in [0 .. k -> S] : Steps(f, k)}
<1>1. 0 \in D
  <2> DEFINE f == [i \in 0 .. 0 |-> s]
  <2>1. f \in [0 .. 0 -> S] /\ f[0] = s
    OBVIOUS
  <2>2. 1 .. 0 = {}
    OBVIOUS
  <2> HIDE DEF f
  <2>3. Steps(f, 0)
    BY <2>1, <2>2
  <2> QED BY <2>1, <2>3
<1>2. ASSUME NEW k \in D PROVE k + 1 \in D
  <2> SUFFICES ASSUME k + 1 <= n PROVE \E f \in [0 .. k + 1 -> S] : Steps(f, k + 1)
    OBVIOUS
  <2>1. k \in Nat /\ k <= n
    OBVIOUS
  <2>2. PICK f \in [0 .. k -> S] : Steps(f, k)
    BY <2>1
  <2> HIDE DEF D
  <2> DEFINE h == [i \in 0 .. k + 1 |-> IF i <= k THEN f[i] ELSE g[<<f[k], k + 1>>]]
  <2>3. g[<<f[k], k + 1>>] \in S
    <3>1. f[k] \in S /\ k + 1 \in 1 .. n
      BY <2>1
    <3>2. <<f[k], k + 1>> \in S \X (1 .. n)
      BY <3>1
    <3> QED BY <3>2
  <2>4. h \in [0 .. k + 1 -> S]
    <3>1. \A i \in 0 .. k + 1 : i <= k => f[i] \in S
      BY <2>1
    <3> QED BY <2>3, <3>1
  <2>5. \A i \in 0 .. k : h[i] = f[i]
    BY <2>1
  <2>6. h[k + 1] = g[<<f[k], k + 1>>]
    BY <2>1
  <2> HIDE DEF h
  <2>7. h[0] = s
    BY <2>1, <2>2, <2>5
  <2>8. ASSUME NEW i \in 1 .. k + 1 PROVE h[i] = g[<<h[i - 1], i>>]
    <3>1. CASE i = k + 1
      <4>1. h[i - 1] = f[k]
        BY <2>1, <2>5, <3>1
      <4> QED BY <2>6, <3>1, <4>1
    <3>2. CASE i # k + 1
      <4>1. i \in 1 .. k /\ i \in 0 .. k /\ i - 1 \in 0 .. k
        BY <2>1, <3>2
      <4> QED BY <2>2, <2>5, <4>1
    <3> QED BY <3>1, <3>2
  <2> QED BY <2>4, <2>7, <2>8
<1>3. D = Nat
  <2> HIDE DEF D
  <2>1. D \in SUBSET Nat
    BY DEF D
  <2> QED BY <1>1, <1>2, <2>1, Induction
<1>4. n \in D
  BY <1>3
<1>5. \E f \in [0 .. n -> S] : Steps(f, n)
  BY <1>4
<1> QED BY <1>5 DEF Iterates

LEMMA IterationStays ==
  ASSUME NEW S, NEW n \in Nat, NEW c, c[0] \in S,
         \A i \in 1 .. n : c[i - 1] \in S => c[i] \in S
  PROVE  \A k \in 0 .. n : c[k] \in S
<1> DEFINE D == {k \in Nat : k <= n => c[k] \in S}
<1>1. 0 \in D
  OBVIOUS
<1>2. ASSUME NEW k \in D PROVE k + 1 \in D
  <2> SUFFICES ASSUME k + 1 <= n PROVE c[k + 1] \in S
    OBVIOUS
  <2>1. k \in Nat /\ k <= n /\ c[k] \in S /\ k + 1 \in 1 .. n /\ (k + 1) - 1 = k
    OBVIOUS
  <2> HIDE DEF D
  <2> QED BY <2>1
<1>3. D = Nat
  <2> HIDE DEF D
  <2>1. D \in SUBSET Nat
    BY DEF D
  <2> QED BY <1>1, <1>2, <2>1, Induction
<1> QED BY <1>3
=============================================================================

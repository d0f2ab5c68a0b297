--------------------------- MODULE CacheKeysProofs ---------------------------
(***************************************************************************)
(* Proofs about the keys of the two maps: the decimal digits of a number   *)
(* determine it, so that a body key determines its hash and its partition  *)
(* index where the hashes have the same number of digits.  The provers     *)
(* have no induction over numbers; a least counterexample takes its place. *)
(***************************************************************************)
EXTENDS CacheKeys, WellFoundedInduction, SequenceTheorems, TLAPS

LEMMA LeastNumber ==
    ASSUME NEW T \in SUBSET Nat, T # {}
    PROVE  \E least \in T : \A n \in T : least <= n
  <1>1. PICK least \in T : \A n \in T : <<n, least>> \notin OpToRel(<, Nat)
    BY WFMin, NatLessThanWellFounded
  <1>2. \A n \in T : ~(n < least)
    BY <1>1 DEF OpToRel
  <1> QED BY <1>2

LEMMA Tenth ==
    ASSUME NEW n \in Nat
    PROVE  /\ n \div 10 \in Nat /\ n % 10 \in 0 .. 9
           /\ n = 10 * (n \div 10) + (n % 10)
           /\ n >= 10 => n \div 10 < n
  OBVIOUS

-----------------------------------------------------------------------------
(* The recursion of to_string has a solution: one on each 0 .. k, and they *)
(* agree where they overlap.                                               *)
Unfolded(f, n) == IF n < 10 THEN <<n>> ELSE Append(f[n \div 10], n % 10)

SolvesUpTo(f, k) == f = [n \in 0 .. k |-> Unfolded(f, n)]

LEMMA SolutionsAgree ==
    ASSUME NEW k \in Nat, NEW l \in Nat, k <= l,
           NEW f, SolvesUpTo(f, k), NEW g, SolvesUpTo(g, l)
    PROVE  \A n \in 0 .. k : f[n] = g[n]
  <1> DEFINE T == {n \in 0 .. k : f[n] # g[n]}
  <1> SUFFICES ASSUME T # {} PROVE FALSE
    OBVIOUS
  <1>0. T \in SUBSET Nat
    OBVIOUS
  <1>1. PICK n \in T : \A m \in T : n <= m
    BY <1>0, LeastNumber
  <1>2. n \in Nat /\ n <= k /\ f[n] # g[n]
    BY <1>1
  <1>3. f[n] = Unfolded(f, n) /\ g[n] = Unfolded(g, n)
    <2>1. n \in 0 .. k /\ n \in 0 .. l
      BY <1>2
    <2>2. \A j \in 0 .. k : f[j] = Unfolded(f, j)
      BY Zenon DEF SolvesUpTo
    <2>3. \A j \in 0 .. l : g[j] = Unfolded(g, j)
      BY Zenon DEF SolvesUpTo
    <2> QED BY <2>1, <2>2, <2>3
  <1>4. n >= 10
    BY <1>2, <1>3 DEF Unfolded
  <1>5. f[n \div 10] = g[n \div 10]
    BY <1>1, <1>2, <1>4, Tenth
  <1> QED BY <1>2, <1>3, <1>5 DEF Unfolded

LEMMA SolutionExists ==
    ASSUME NEW k \in Nat
    PROVE  \E f : SolvesUpTo(f, k)
  <1> DEFINE T == {m \in Nat : ~\E f : SolvesUpTo(f, m)}
  <1> SUFFICES ASSUME T # {} PROVE FALSE
    OBVIOUS
  <1>1. PICK m \in T : \A j \in T : m <= j
    BY LeastNumber
  <1>2. CASE m = 0
    <2> DEFINE f == [n \in 0 .. 0 |-> <<n>>]
    <2>1. f = [n \in 0 .. 0 |-> Unfolded(f, n)]
      BY DEF Unfolded
    <2> QED BY <1>1, <1>2, <2>1 DEF SolvesUpTo
  <1>3. CASE m # 0
    <2>1. m - 1 \in Nat /\ m - 1 \notin T
      BY <1>1, <1>3
    <2>2. PICK f : SolvesUpTo(f, m - 1)
      BY <2>1
    <2> DEFINE g == [n \in 0 .. m |-> IF n < m THEN f[n] ELSE Unfolded(f, m)]
    <2>3. \A n \in 0 .. m - 1 : g[n] = f[n] /\ f[n] = Unfolded(f, n)
      <3>1. \A n \in 0 .. m - 1 : f[n] = Unfolded(f, n)
        BY <2>2, Zenon DEF SolvesUpTo
      <3>2. \A n \in 0 .. m - 1 : n \in 0 .. m /\ n < m
        BY <1>1
      <3> QED BY <3>1, <3>2
    <2>4. \A n \in 0 .. m : n >= 10 => n \div 10 \in 0 .. m - 1
      BY <1>1, Tenth
    <2>5. ASSUME NEW n \in 0 .. m PROVE Unfolded(g, n) = Unfolded(f, n)
      <3>1. CASE n < 10
        BY <3>1 DEF Unfolded
      <3>2. CASE n >= 10
        <4>1. g[n \div 10] = f[n \div 10]
          BY <2>3, <2>4, <3>2
        <4> QED BY <4>1 DEF Unfolded
      <3> QED BY <3>1, <3>2
    <2>6. \A n \in 0 .. m : g[n] = Unfolded(g, n)
      <3> SUFFICES ASSUME NEW n \in 0 .. m PROVE g[n] = Unfolded(g, n)
        OBVIOUS
      <3>1. g[n] = Unfolded(f, n)
        <4>1. CASE n = m
          BY <1>1, <4>1
        <4>2. CASE n # m
          <5>1. n \in 0 .. m - 1
            BY <1>1, <4>2
          <5> QED BY <2>3, <5>1
        <4> QED BY <4>1, <4>2
      <3> QED BY <2>5, <3>1
    <2>7. SolvesUpTo(g, m)
      <3>1. g = [n \in 0 .. m |-> g[n]]
        OBVIOUS
      <3> HIDE DEF g
      <3> QED BY <2>6, <3>1 DEF SolvesUpTo
    <2> QED BY <1>1, <2>7
  <1> QED BY <1>2, <1>3

LEMMA DigitsSolution == Digits = [n \in Nat |-> Unfolded(Digits, n)]
  <1> DEFINE S(n) == CHOOSE f : SolvesUpTo(f, n)
             F == [n \in Nat |-> S(n)[n]]
  <1>1. \A n \in Nat : SolvesUpTo(S(n), n)
    BY SolutionExists, Zenon
  <1> HIDE DEF S
  <1>2. ASSUME NEW n \in Nat PROVE F[n] = Unfolded(F, n)
    <2>1. F[n] = Unfolded(S(n), n)
      <3>1. S(n) = [j \in 0 .. n |-> Unfolded(S(n), j)]
        BY <1>1 DEF SolvesUpTo
      <3>2. n \in 0 .. n
        OBVIOUS
      <3> QED BY <3>1, <3>2
    <2>2. CASE n < 10
      BY <2>1, <2>2 DEF Unfolded
    <2>3. CASE n >= 10
      <3>1. n \div 10 \in Nat /\ n \div 10 <= n /\ n \div 10 \in 0 .. n \div 10
        BY <2>3, Tenth
      <3>2. S(n \div 10)[n \div 10] = S(n)[n \div 10]
        BY <1>1, <3>1, SolutionsAgree
      <3>3. F[n \div 10] = S(n)[n \div 10]
        BY <3>1, <3>2
      <3> QED BY <2>1, <3>3 DEF Unfolded
    <2> QED BY <2>2, <2>3
  <1>3. F = [n \in Nat |-> Unfolded(F, n)]
    <2>1. F = [n \in Nat |-> F[n]]
      OBVIOUS
    <2> HIDE DEF F
    <2> QED BY <1>2, <2>1
  <1>4. \E f : f = [n \in Nat |-> Unfolded(f, n)]
    <2> HIDE DEF F
    <2> QED BY <1>3, Zenon
  <1>5. Digits = CHOOSE f : f = [n \in Nat |-> Unfolded(f, n)]
    BY DEF Digits, Unfolded
  <1> QED BY <1>4, <1>5, Zenon


(* What to_string computes: the digits before the last one, and the last.  *)
LEMMA DigitsOf ==
    ASSUME NEW n \in Nat
    PROVE  /\ n < 10 => Digits[n] = <<n>>
           /\ n >= 10 => Digits[n] = Append(Digits[n \div 10], n % 10)
  <1>1. Digits[n] = Unfolded(Digits, n)
    BY DigitsSolution, Zenon
  <1>2. CASE n < 10
    <2>1. Unfolded(Digits, n) = <<n>>
      BY <1>2, Zenon DEF Unfolded
    <2> QED BY <1>1, <1>2, <2>1
  <1>3. CASE ~(n < 10)
    <2>1. Unfolded(Digits, n) = Append(Digits[n \div 10], n % 10)
      BY <1>3, Zenon DEF Unfolded
    <2> QED BY <1>1, <1>3, <2>1, Zenon
  <1> QED BY <1>2, <1>3

(* Every number is written in decimal digits, one at least, and in several *)
(* if it is not a digit.                                                   *)
DigitString(n) ==
    /\ Digits[n] \in Seq(0 .. 9)
    /\ Len(Digits[n]) >= 1
    /\ Len(Digits[n]) = 1 <=> n < 10

LEMMA DigitStrings == \A n \in Nat : DigitString(n)
  <1> DEFINE T == {n \in Nat : ~DigitString(n)}
  <1> SUFFICES ASSUME T # {} PROVE FALSE
    OBVIOUS
  <1>0. T \in SUBSET Nat
    OBVIOUS
  <1>1. PICK n \in T : \A m \in T : n <= m
    BY <1>0, LeastNumber
  <1>2. n \in Nat /\ ~DigitString(n)
    BY <1>1
  <1>3. CASE n < 10
    <2>0. Digits[n] = <<n>>
      BY <1>2, <1>3, DigitsOf, Zenon
    <2>1. Digits[n] = <<n>> /\ n \in 0 .. 9
      BY <1>2, <1>3, <2>0
    <2>2. <<n>> \in Seq(0 .. 9) /\ Len(<<n>>) = 1
      BY <2>1
    <2> QED BY <1>2, <1>3, <2>1, <2>2 DEF DigitString
  <1>4. CASE n >= 10
    <2> DEFINE m == n \div 10
               d == n % 10
    <2>1. m \in Nat /\ m < n /\ d \in 0 .. 9
      BY <1>2, <1>4, Tenth
    <2>2. DigitString(m)
      BY <1>1, <1>2, <2>1
    <2>3. Digits[n] = Append(Digits[m], d)
      BY <1>2, <1>4, DigitsOf, Zenon
    <2> HIDE DEF m, d
    <2>4. /\ Append(Digits[m], d) \in Seq(0 .. 9)
          /\ Len(Append(Digits[m], d)) = Len(Digits[m]) + 1 /\ Len(Digits[m]) \in Nat
      BY <2>1, <2>2 DEF DigitString
    <2> QED BY <1>2, <1>4, <2>2, <2>3, <2>4 DEF DigitString
  <1> QED BY <1>2, <1>3, <1>4

LEMMA LastSplit ==
    ASSUME NEW S, NEW s \in Seq(S), NEW t \in Seq(S), NEW a \in S, NEW b \in S,
           Append(s, a) = Append(t, b)
    PROVE  s = t /\ a = b
  <1>1. Len(s) = Len(t) /\ Len(s) \in Nat
    BY Len(Append(s, a)) = Len(s) + 1, Len(Append(t, b)) = Len(t) + 1
  <1>2. a = b
    BY <1>1, Append(s, a)[Len(s) + 1] = a, Append(t, b)[Len(t) + 1] = b
  <1>3. ASSUME NEW i \in 1 .. Len(s) PROVE s[i] = t[i]
    BY <1>1, Append(s, a)[i] = s[i], Append(t, b)[i] = t[i]
  <1> QED BY <1>1, <1>2, <1>3, SeqEqual

(* The digits determine the number.                                        *)
LEMMA DigitsInjective ==
    ASSUME NEW m \in Nat, NEW n \in Nat, Digits[m] = Digits[n]
    PROVE  m = n
  <1> DEFINE T == {k \in Nat : \E l \in Nat : Digits[k] = Digits[l] /\ k # l}
  <1> SUFFICES ASSUME T # {} PROVE FALSE
    OBVIOUS
  <1>0. T \in SUBSET Nat
    OBVIOUS
  <1>1. PICK k \in T : \A j \in T : k <= j
    BY <1>0, LeastNumber
  <1>2. PICK l \in Nat : Digits[k] = Digits[l] /\ k # l
    BY <1>1
  <1>3. k \in Nat /\ (k < 10 <=> l < 10)
    BY <1>1, <1>2, DigitStrings DEF DigitString
  <1>4. CASE k < 10
    <2>1. Digits[k] = <<k>> /\ Digits[l] = <<l>>
      BY <1>3, <1>4, DigitsOf, Zenon
    <2>2. <<k>>[1] = k /\ <<l>>[1] = l
      OBVIOUS
    <2> QED BY <1>2, <2>1, <2>2, Zenon
  <1>5. CASE k >= 10
    <2>1. /\ Digits[k] = Append(Digits[k \div 10], k % 10)
          /\ Digits[l] = Append(Digits[l \div 10], l % 10)
      <3>1. l >= 10
        BY <1>3, <1>5
      <3> QED BY <1>3, <1>5, <3>1, DigitsOf, Zenon
    <2>2. /\ k \div 10 \in Nat /\ k \div 10 < k /\ k % 10 \in 0 .. 9
          /\ l \div 10 \in Nat /\ l % 10 \in 0 .. 9
      BY <1>3, <1>5, Tenth
    <2>3. Digits[k \div 10] \in Seq(0 .. 9) /\ Digits[l \div 10] \in Seq(0 .. 9)
      BY <2>2, DigitStrings DEF DigitString
    <2>4. Digits[k \div 10] = Digits[l \div 10] /\ k % 10 = l % 10
      <3> DEFINE s == Digits[k \div 10]
                 t == Digits[l \div 10]
                 a == k % 10
                 b == l % 10
      <3>1. Append(s, a) = Append(t, b)
        BY <1>2, <2>1
      <3>2. s \in Seq(0 .. 9) /\ t \in Seq(0 .. 9) /\ a \in 0 .. 9 /\ b \in 0 .. 9
        BY <2>2, <2>3
      <3> HIDE DEF s, t, a, b
      <3>3. s = t /\ a = b
        BY <3>1, <3>2, LastSplit
      <3> QED BY <3>3 DEF s, t, a, b
    <2>5. k \div 10 = l \div 10
      BY <1>1, <1>3, <2>2, <2>4
    <2> QED BY <1>2, <1>3, <2>4, <2>5, Tenth
  <1> QED BY <1>3, <1>4, <1>5

LEMMA ConcatInjective ==
    ASSUME NEW S, NEW s \in Seq(S), NEW t \in Seq(S), NEW u \in Seq(S), NEW v \in Seq(S),
           Len(s) = Len(t), s \o u = t \o v
    PROVE  s = t /\ u = v
  <1>1. Len(s) \in Nat /\ Len(u) \in Nat /\ Len(v) \in Nat
    OBVIOUS
  <1>2. /\ Len(s \o u) = Len(s) + Len(u) /\ Len(t \o v) = Len(t) + Len(v)
        /\ \A i \in 1 .. Len(s) + Len(u) :
              (s \o u)[i] = IF i <= Len(s) THEN s[i] ELSE u[i - Len(s)]
        /\ \A i \in 1 .. Len(t) + Len(v) :
              (t \o v)[i] = IF i <= Len(t) THEN t[i] ELSE v[i - Len(t)]
    BY ConcatProperties
  <1>3. Len(u) = Len(v)
    BY <1>1, <1>2
  <1>4. ASSUME NEW i \in 1 .. Len(s) PROVE s[i] = t[i]
    BY <1>1, <1>2, <1>3
  <1>5. ASSUME NEW i \in 1 .. Len(u) PROVE u[i] = v[i]
    <2>1. Len(s) + i \in 1 .. Len(s) + Len(u) /\ ~(Len(s) + i <= Len(s))
          /\ (Len(s) + i) - Len(s) = i
      BY <1>1
    <2> QED BY <1>2, <1>3, <2>1
  <1> QED BY <1>1, <1>3, <1>4, <1>5, SeqEqual

-----------------------------------------------------------------------------
(* HazelcastHttpCache keys the body map by the decimal hash followed by    *)
(* the decimal partition index, with nothing between them: where the       *)
(* hashes are written in the same number of digits, two partitions never   *)
(* share a key, whatever the hashes and the indexes.                       *)
THEOREM BodyKeysDiffer ==
    ASSUME NEW g \in Nat, NEW h \in Nat, NEW i \in Nat, NEW j \in Nat,
           Len(to_string(g)) = Len(to_string(h)),
           BodyKey(g, i) = BodyKey(h, j)
    PROVE  g = h /\ i = j
  <1>1. /\ Digits[g] \in Seq(0 .. 9) /\ Digits[h] \in Seq(0 .. 9)
        /\ Digits[i] \in Seq(0 .. 9) /\ Digits[j] \in Seq(0 .. 9)
    BY DigitStrings DEF DigitString
  <1>2. Digits[g] = Digits[h] /\ Digits[i] = Digits[j]
    <2>1. Len(Digits[g]) = Len(Digits[h]) /\ Digits[g] \o Digits[i] = Digits[h] \o Digits[j]
      BY DEF to_string, BodyKey
    <2> DEFINE s == Digits[g]
               t == Digits[h]
               u == Digits[i]
               v == Digits[j]
    <2>2. /\ Len(s) = Len(t) /\ s \o u = t \o v
          /\ s \in Seq(0 .. 9) /\ t \in Seq(0 .. 9)
          /\ u \in Seq(0 .. 9) /\ v \in Seq(0 .. 9)
      BY <1>1, <2>1
    <2> HIDE DEF s, t, u, v
    <2>3. s = t /\ u = v
      BY <2>2, ConcatInjective
    <2> QED BY <2>3 DEF s, t, u, v
  <1> QED BY <1>2, DigitsInjective

(* The cast of a 64 bit hash to the signed key of the header map loses     *)
(* nothing, and the cast of a body size to the signed long it travels in   *)
(* is undone by the implicit conversion back.                              *)
THEOREM CastsLoseNothing ==
    ASSUME NEW m \in 0 .. (UINT64 - 1), NEW n \in 0 .. (UINT64 - 1)
    PROVE  /\ HeaderKey(m) = HeaderKey(n) => m = n
           /\ UInt64(Int64(n)) = n
           /\ -UINT64 <= 2 * Int64(n) /\ 2 * Int64(n) < UINT64
  BY WordAssumption DEF HeaderKey, Int64, UInt64
=============================================================================

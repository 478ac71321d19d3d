---------------------------- MODULE NumberLemmas ----------------------------
(***************************************************************************)
(* Lemmas about numbers that the proofs of TranscodeHLS and HlsDelivery    *)
(* need: induction over the naturals, from the well-foundedness of their   *)
(* order; the largest of finitely many values; the sums of Sums; and what  *)
(* it takes to enumerate a finite set in order.                            *)
(***************************************************************************)
EXTENDS Sums, FiniteSetTheorems, TLAPS

(* Every non-empty set of naturals has a least element.                    *)
LEMMA LeastElement ==
    ASSUME NEW S, S \subseteq Nat, S # {}
    PROVE  \E x \in S : \A y \in S : x <= y
<1> DEFINE Below == {p \in Nat \X Nat : p[1] < p[2]}
<1>1. IsWellFoundedOn(Below, Nat)
  BY NatLessThanWellFounded, Zenon DEF OpToRel
<1> HIDE DEF Below
<1>2. PICK x \in S : \A y \in S : <<y, x>> \notin Below
  BY <1>1, WFMin, Zenon
<1>3. ASSUME NEW y \in S PROVE x <= y
  <2>1. x \in Nat /\ y \in Nat /\ <<y, x>> \notin Below
    BY <1>2
  <2>2. <<y, x>> \in Below <=> y < x
    BY <2>1 DEF Below
  <2> QED BY <2>1, <2>2
<1> QED BY <1>3

(* Induction: a set of naturals that has 0, and with each number the next, *)
(* has them all.                                                           *)
LEMMA SetInduction ==
    ASSUME NEW S, S \subseteq Nat, 0 \in S, \A m \in S : m + 1 \in S
    PROVE  S = Nat
<1> DEFINE Rest == Nat \ S
<1>1. SUFFICES ASSUME Rest # {} PROVE FALSE
  OBVIOUS
<1>2. PICK m \in Rest : \A k \in Rest : m <= k
  <2>1. Rest \subseteq Nat
    OBVIOUS
  <2> HIDE DEF Rest
  <2> QED BY <1>1, <2>1, LeastElement
<1>3. m - 1 \in Nat /\ m - 1 \notin Rest
  BY <1>2
<1>4. (m - 1) + 1 \in S
  BY <1>3
<1> QED BY <1>2, <1>4

(* The values of a function on 1 .. n have a largest.                      *)
LEMMA LargestValue ==
    ASSUME NEW n \in Nat \ {0}, NEW f \in [1 .. n -> Int]
    PROVE  \E i \in 1 .. n : \A j \in 1 .. n : f[j] <= f[i]
<1> DEFINE Ok(m) == \E i \in 1 .. m : \A j \in 1 .. m : f[j] <= f[i]
           S == {m \in Nat : m \in 1 .. n => Ok(m)}
<1>1. 0 \in S
  OBVIOUS
<1>2. ASSUME NEW m \in S PROVE m + 1 \in S
  <2>1. SUFFICES ASSUME m + 1 \in 1 .. n PROVE Ok(m + 1)
    OBVIOUS
  <2>2. CASE m = 0
    BY <2>1, <2>2
  <2>3. CASE m # 0
    <3>1. m \in 1 .. n
      BY <2>1, <2>3
    <3>2. PICK i \in 1 .. m : \A j \in 1 .. m : f[j] <= f[i]
      BY <3>1
    <3>3. f[i] \in Int /\ f[m + 1] \in Int /\ i \in 1 .. m + 1
      BY <2>1, <3>1
    <3>4. CASE f[m + 1] <= f[i]
      <4>1. \A j \in 1 .. m + 1 : f[j] <= f[i]
        <5> TAKE j \in 1 .. m + 1
        <5>1. j = m + 1 \/ j \in 1 .. m
          BY <3>1
        <5> QED BY <3>2, <3>4, <5>1
      <4> QED BY <4>1, <3>3
    <3>5. CASE f[i] <= f[m + 1]
      <4>1. \A j \in 1 .. m + 1 : f[j] <= f[m + 1]
        <5> TAKE j \in 1 .. m + 1
        <5>1. CASE j = m + 1
          BY <3>3, <5>1
        <5>2. CASE j \in 1 .. m
          <6>1. f[j] \in Int /\ f[j] <= f[i]
            BY <3>1, <3>2, <5>2
          <6> QED BY <3>3, <3>5, <6>1
        <5> QED BY <3>1, <5>1, <5>2
      <4>2. m + 1 \in 1 .. m + 1
        BY <3>1
      <4> QED BY <4>1, <4>2
    <3> QED BY <3>3, <3>4, <3>5
  <2> QED BY <2>2, <2>3
<1>3. S = Nat
  <2>1. S \subseteq Nat
    OBVIOUS
  <2> HIDE DEF S
  <2> QED BY <2>1, <1>1, <1>2, SetInduction
<1>4. n \in S
  BY <1>3
<1> QED BY <1>4

(* The sum is the one the loop computes: its partial sums exist,           *)
LEMMA PartialSums ==
    ASSUME NEW s \in Seq(Int)
    PROVE  \E sum \in [0 .. Len(s) -> Int] :
              /\ Total(s) = sum[Len(s)]
              /\ sum[0] = 0
              /\ \A n \in 1 .. Len(s) : sum[n] = sum[n - 1] + s[n]
<1> DEFINE Def(f, n) == IF n = 0 THEN 0 ELSE f[n - 1] + s[n]
           Upto(m) == \E f : f = [n \in 0 .. m |-> Def(f, n)]
           S == {m \in Nat : m <= Len(s) => Upto(m)}
           sum == CHOOSE f : f = [n \in 0 .. Len(s) |-> Def(f, n)]
           T == {m \in Nat : m <= Len(s) => sum[m] \in Int}
<1>1. Len(s) \in Nat /\ \A n \in 1 .. Len(s) : s[n] \in Int
  OBVIOUS
<1>2. 0 \in S
  <2> DEFINE g == [n \in 0 .. 0 |-> 0]
  <2>1. g = [n \in 0 .. 0 |-> Def(g, n)]
    OBVIOUS
  <2> QED BY <2>1
<1>3. ASSUME NEW m \in S PROVE m + 1 \in S
  <2>1. SUFFICES ASSUME m + 1 <= Len(s) PROVE Upto(m + 1)
    OBVIOUS
  <2>2. PICK f : f = [n \in 0 .. m |-> Def(f, n)]
    BY <1>1, <2>1
  <2> DEFINE g == [n \in 0 .. m + 1 |-> IF n = m + 1 THEN f[m] + s[m + 1] ELSE f[n]]
  <2>3. ASSUME NEW n \in 0 .. m + 1 PROVE g[n] = Def(g, n)
    <3>1. CASE n = 0
      BY <2>2, <3>1
    <3>2. CASE n # 0
      <4>1. n - 1 \in 0 .. m /\ g[n - 1] = f[n - 1]
        BY <3>2
      <4>2. CASE n = m + 1
        BY <3>2, <4>1, <4>2
      <4>3. CASE n # m + 1
        <5>1. n \in 0 .. m /\ g[n] = f[n]
          BY <4>3
        <5>2. f[n] = Def(f, n)
          BY <2>2, <5>1
        <5> QED BY <3>2, <4>1, <5>1, <5>2
      <4> QED BY <4>2, <4>3
    <3> QED BY <3>1, <3>2
  <2>4. g = [n \in 0 .. m + 1 |-> Def(g, n)]
    BY <2>3
  <2> HIDE DEF g
  <2> QED BY <2>4
<1>4. S = Nat
  <2>1. S \subseteq Nat
    OBVIOUS
  <2> HIDE DEF S
  <2> QED BY <2>1, <1>2, <1>3, SetInduction
<1>5. Upto(Len(s))
  <2>1. Len(s) \in S
    BY <1>1, <1>4
  <2> QED BY <1>1, <2>1
<1>6. sum = [n \in 0 .. Len(s) |-> Def(sum, n)]
  BY <1>5
<1>7. Total(s) = sum[Len(s)]
  BY DEF Total
<1> HIDE DEF sum
<1>8. sum[0] = 0 /\ \A n \in 1 .. Len(s) : sum[n] = sum[n - 1] + s[n]
  BY <1>1, <1>6
<1>9. T = Nat
  <2>1. 0 \in T
    BY <1>8
  <2>2. ASSUME NEW m \in T PROVE m + 1 \in T
    <3>1. SUFFICES ASSUME m + 1 <= Len(s) PROVE sum[m + 1] \in Int
      OBVIOUS
    <3>2. sum[m] \in Int /\ m + 1 \in 1 .. Len(s) /\ (m + 1) - 1 = m
      BY <1>1, <3>1
    <3> QED BY <1>1, <1>8, <3>2
  <2>3. T \subseteq Nat
    OBVIOUS
  <2> HIDE DEF T
  <2> QED BY <2>1, <2>2, <2>3, SetInduction
<1>10. sum \in [0 .. Len(s) -> Int]
  <2>1. ASSUME NEW n \in 0 .. Len(s) PROVE sum[n] \in Int
    BY <1>1, <1>9
  <2> QED BY <1>6, <2>1
<1> QED BY <1>7, <1>8, <1>10

(* The sum of naturals is one, and no less than any of them.               *)
LEMMA TotalOfNaturals ==
    ASSUME NEW s \in Seq(Nat)
    PROVE  /\ Total(s) \in Nat
           /\ \A i \in 1 .. Len(s) : s[i] <= Total(s)
<1>1. s \in Seq(Int) /\ Len(s) \in Nat /\ \A n \in 1 .. Len(s) : s[n] \in Nat
  OBVIOUS
<1>2. PICK sum \in [0 .. Len(s) -> Int] :
              /\ Total(s) = sum[Len(s)]
              /\ sum[0] = 0
              /\ \A n \in 1 .. Len(s) : sum[n] = sum[n - 1] + s[n]
  BY <1>1, PartialSums
<1> DEFINE Covers(m) == sum[m] \in Nat /\ \A i \in 1 .. m : s[i] <= sum[m]
           S == {m \in Nat : m <= Len(s) => Covers(m)}
<1>3. 0 \in S
  BY <1>2
<1>4. ASSUME NEW m \in S PROVE m + 1 \in S
  <2>1. SUFFICES ASSUME m + 1 <= Len(s) PROVE Covers(m + 1)
    OBVIOUS
  <2>2. Covers(m) /\ m + 1 \in 1 .. Len(s) /\ (m + 1) - 1 = m
    BY <1>1, <2>1
  <2>3. sum[m + 1] = sum[m] + s[m + 1] /\ s[m + 1] \in Nat
    BY <1>1, <1>2, <2>2
  <2>4. ASSUME NEW i \in 1 .. m + 1 PROVE s[i] <= sum[m + 1]
    <3>1. i = m + 1 \/ i \in 1 .. m
      OBVIOUS
    <3>2. s[i] \in Nat
      BY <1>1, <2>1
    <3> QED BY <2>2, <2>3, <3>1, <3>2
  <2> QED BY <2>2, <2>3, <2>4
<1>5. S = Nat
  <2>1. S \subseteq Nat
    OBVIOUS
  <2> HIDE DEF S
  <2> QED BY <2>1, <1>3, <1>4, SetInduction
<1>6. Covers(Len(s))
  <2>1. Len(s) \in S
    BY <1>1, <1>5
  <2> QED BY <1>1, <2>1
<1> QED BY <1>2, <1>6

-----------------------------------------------------------------------------
(* A finite set whose elements have different keys can be listed in the    *)
(* order of the keys,                                                      *)
LEMMA SortedEnumeration ==
    ASSUME NEW S, IsFiniteSet(S), NEW key \in [S -> Int], IsInjective(key)
    PROVE  \E f \in [1 .. Cardinality(S) -> S] :
              \A i, j \in 1 .. Cardinality(S) : i < j => key[f[i]] < key[f[j]]
<1> DEFINE Listed(T, n) == \E f \in [1 .. n -> T] :
                              \A i, j \in 1 .. n : i < j => key[f[i]] < key[f[j]]
           N == {n \in Nat : \A T \in SUBSET S : Cardinality(T) = n => Listed(T, n)}
<1>1. \A T \in SUBSET S : IsFiniteSet(T) /\ Cardinality(T) \in Nat
  BY FS_Subset, FS_CardinalityType
<1>2. 0 \in N
  <2>1. ASSUME NEW T \in SUBSET S PROVE Listed(T, 0)
    <3> DEFINE f == [i \in 1 .. 0 |-> 0]
    <3>1. f \in [1 .. 0 -> T]
      OBVIOUS
    <3>2. \A i, j \in 1 .. 0 : i < j => key[f[i]] < key[f[j]]
      OBVIOUS
    <3> HIDE DEF f
    <3> QED BY <3>1, <3>2
  <2> QED BY <2>1
<1>3. ASSUME NEW n \in N PROVE n + 1 \in N
  <2>1. SUFFICES ASSUME NEW T \in SUBSET S, Cardinality(T) = n + 1 PROVE Listed(T, n + 1)
    OBVIOUS
  <2>2. PICK x \in T : \A y \in T : key[y] <= key[x]
    <3>1. PICK b \in Bijection(1 .. n + 1, T) : TRUE
      BY <1>1, <2>1, FS_CardinalityType DEF ExistsBijection
    <3>2. b \in [1 .. n + 1 -> T] /\ \A y \in T : \E i \in 1 .. n + 1 : b[i] = y
      BY <3>1 DEF Bijection, Injection, Surjection
    <3> DEFINE g == [i \in 1 .. n + 1 |-> key[b[i]]]
    <3>3. g \in [1 .. n + 1 -> Int]
      BY <3>2
    <3>4. PICK i \in 1 .. n + 1 : \A j \in 1 .. n + 1 : g[j] <= g[i]
      <4>1. n + 1 \in Nat \ {0}
        OBVIOUS
      <4> HIDE DEF g, N
      <4> QED BY <3>3, <4>1, LargestValue
    <3>5. b[i] \in T /\ \A y \in T : key[y] <= key[b[i]]
      BY <3>2, <3>4
    <3> QED BY <3>5
  <2> DEFINE U == T \ {x}
  <2>3. U \in SUBSET S /\ Cardinality(U) = n
    <3>1. IsFiniteSet(T) /\ n \in Nat
      BY <1>1
    <3>2. Cardinality(T \ {x}) = (n + 1) - 1
      BY <2>1, <2>2, <3>1, FS_RemoveElement
    <3> HIDE DEF N
    <3> QED BY <3>1, <3>2
  <2>4. PICK f \in [1 .. n -> U] : \A i, j \in 1 .. n : i < j => key[f[i]] < key[f[j]]
    BY <2>3
  <2>5. ASSUME NEW y \in U PROVE key[y] < key[x]
    <3>1. key[y] <= key[x] /\ key[y] # key[x] /\ key[y] \in Int /\ key[x] \in Int
      BY <2>2, <2>5 DEF IsInjective
    <3> QED BY <3>1
  <2> DEFINE g == [i \in 1 .. n + 1 |-> IF i = n + 1 THEN x ELSE f[i]]
  <2>6. g \in [1 .. n + 1 -> T]
    <3>1. ASSUME NEW i \in 1 .. n + 1, i # n + 1 PROVE f[i] \in T
      <4>1. i \in 1 .. n
        BY <3>1
      <4> QED BY <2>4, <4>1
    <3> QED BY <2>2, <3>1
  <2>7. ASSUME NEW i \in 1 .. n + 1, NEW j \in 1 .. n + 1, i < j
        PROVE  key[g[i]] < key[g[j]]
    <3>1. i \in 1 .. n /\ g[i] = f[i] /\ f[i] \in U
      BY <2>4, <2>7
    <3>2. CASE j = n + 1
      BY <2>5, <3>1, <3>2
    <3>3. CASE j # n + 1
      <4>1. j \in 1 .. n /\ g[j] = f[j]
        BY <3>3
      <4> QED BY <2>4, <2>7, <3>1, <4>1
    <3> QED BY <3>2, <3>3
  <2> HIDE DEF g
  <2> QED BY <2>6, <2>7
<1>4. N = Nat
  <2>1. N \subseteq Nat
    OBVIOUS
  <2> HIDE DEF N
  <2> QED BY <2>1, <1>2, <1>3, SetInduction
<1>5. S \in SUBSET S /\ Cardinality(S) \in N
  BY <1>1, <1>4
<1> QED BY <1>5

(* and a list in that order has all of them.                               *)
LEMMA AscendingIsOnto ==
    ASSUME NEW S, IsFiniteSet(S), NEW f \in [1 .. Cardinality(S) -> S],
           \A i, j \in 1 .. Cardinality(S) : i < j => f[i] # f[j]
    PROVE  {f[i] : i \in DOMAIN f} = S
<1> DEFINE n == Cardinality(S)
<1>1. n \in Nat /\ Cardinality(1 .. n) = n
  BY FS_CardinalityType, FS_Interval
<1>2. ASSUME NEW i \in 1 .. n, NEW j \in 1 .. n, f[i] = f[j] PROVE i = j
  <2>1. ~(i < j) /\ ~(j < i)
    BY <1>2
  <2> QED BY <1>1, <2>1
<1>3. f \in Injection(1 .. n, S)
  BY <1>2 DEF Injection, IsInjective
<1>4. f \in Surjection(1 .. n, S)
  BY <1>1, <1>3, FS_Injection
<1> QED BY <1>4 DEF Surjection
=============================================================================

----------------------------- MODULE Induction -----------------------------
(***************************************************************************)
(* Induction and recursion over the natural numbers, stated with sets and  *)
(* functions in the place of operators, what SetToSeq chooses and what is  *)
(* picked of a list: what the proofs about recursive definitions and about *)
(* lists rest on.                                                          *)
(***************************************************************************)
EXTENDS Integers, SequencesExt, FiniteSetsExt, Lists, FiniteSetTheorems, SequenceTheorems, WellFoundedInduction, TLAPS

LEMMA NatWF == ~\E f \in [Nat -> Nat] : \A n \in Nat : f[n + 1] < f[n]
<1>1. IsWellFoundedOn(OpToRel(<,Nat), Nat)
  BY NatLessThanWellFounded, Zenon
<1> QED
  BY <1>1 DEF IsWellFoundedOn, OpToRel

\* A set of natural numbers has a least one
LEMMA Least == ASSUME NEW T, T \subseteq Nat, T # {} PROVE \E m \in T : \A k \in T : m <= k
<1> DEFINE R == {ss \in Nat \X Nat : ss[1] < ss[2]}
<1>1. IsWellFoundedOn(R, Nat)
  BY NatWF DEF IsWellFoundedOn
<1>3. \A x, y \in Nat : x < y => <<x, y>> \in R
  OBVIOUS
<1> HIDE DEF R
<1>2. PICK m \in T : \A y \in T : ~(<<y, m>> \in R)
  BY <1>1, WFMin
<1>4. \A k \in T : ~(k < m)
  BY <1>2, <1>3
<1> QED
  BY <1>4

\* A set of natural numbers that has 0 and with each number the next has them all
LEMMA Inductive == ASSUME NEW P, P \subseteq Nat, 0 \in P, \A n \in P : n + 1 \in P PROVE P = Nat
<1>1. SUFFICES ASSUME Nat \ P # {} PROVE FALSE
  OBVIOUS
<1>2. PICK m \in Nat \ P : \A k \in Nat \ P : m <= k
  BY <1>1, Least
<1>3. m # 0 /\ m - 1 \in Nat /\ m - 1 + 1 = m
  OBVIOUS
<1> QED
  BY <1>2, <1>3

-----------------------------------------------------------------------------
\* The first n steps of a recursion from b by f
Runs(n, f, b, g) == g[0] = b /\ \A k \in 1..n : g[k] = f[<<k, g[k - 1]>>]

LEMMA RunsAgree ==
  ASSUME NEW f, NEW b, NEW n \in Nat, NEW m \in Nat, n <= m, NEW g, NEW h, Runs(n, f, b, g), Runs(m, f, b, h)
  PROVE  \A k \in 0..n : g[k] = h[k]
<1> DEFINE P == {k \in Nat : k <= n => g[k] = h[k]}
<1>1. 0 \in P
  BY DEF Runs
<1>2. ASSUME NEW k \in P PROVE k + 1 \in P
  <2> SUFFICES ASSUME k + 1 <= n PROVE g[k + 1] = h[k + 1]
    OBVIOUS
  <2>1. k + 1 \in 1..n /\ k + 1 \in 1..m /\ (k + 1) - 1 = k /\ g[k] = h[k]
    OBVIOUS
  <2>2. g[k + 1] = f[<<k + 1, g[(k + 1) - 1]>>] /\ h[k + 1] = f[<<k + 1, h[(k + 1) - 1]>>]
    BY <2>1 DEF Runs
  <2> QED BY <2>1, <2>2
<1>3. P = Nat
  <2> HIDE DEF P
  <2>1. P \subseteq Nat
    BY DEF P
  <2> QED BY <1>1, <1>2, <2>1, Inductive
<1> QED BY <1>3

\* A recursion that stays in a set has a function that satisfies it
LEMMA RunExists ==
  ASSUME NEW X, NEW b \in X, NEW N \in Nat, NEW f \in [(1..N) \X X -> X]
  PROVE  \E g \in [0..N -> X] : Runs(N, f, b, g)
<1> DEFINE P == {n \in Nat : n <= N => \E g \in [0..n -> X] : Runs(n, f, b, g)}
<1>1. 0 \in P
  <2>1. [i \in 0..0 |-> b] \in [0..0 -> X] /\ Runs(0, f, b, [i \in 0..0 |-> b])
    BY DEF Runs
  <2> QED BY <2>1
<1>2. ASSUME NEW n \in P PROVE n + 1 \in P
  <2> SUFFICES ASSUME n + 1 <= N PROVE \E g \in [0..(n + 1) -> X] : Runs(n + 1, f, b, g)
    OBVIOUS
  <2>1. PICK g \in [0..n -> X] : Runs(n, f, b, g)
    OBVIOUS
  <2> DEFINE h == [i \in 0..(n + 1) |-> IF i = n + 1 THEN f[<<n + 1, g[n]>>] ELSE g[i]]
  <2>2. g[n] \in X /\ <<n + 1, g[n]>> \in (1..N) \X X
    OBVIOUS
  <2>3. h \in [0..(n + 1) -> X]
    BY <2>2
  <2>4. Runs(n + 1, f, b, h)
    <3>1. h[0] = b
      BY <2>1 DEF Runs
    <3>2. ASSUME NEW k \in 1..(n + 1) PROVE h[k] = f[<<k, h[k - 1]>>]
      <4>1. CASE k = n + 1
        <5>1. k - 1 = n /\ k - 1 \in 0..(n + 1) /\ k - 1 # n + 1
          BY <4>1
        <5>2. h[k] = f[<<n + 1, g[n]>>] /\ h[k - 1] = g[n]
          BY <4>1, <5>1
        <5> QED BY <4>1, <5>2
      <4>2. CASE k # n + 1
        BY <4>2, <2>1 DEF Runs
      <4> QED BY <4>1, <4>2
    <3> QED BY <3>1, <3>2 DEF Runs
  <2> QED BY <2>3, <2>4
<1>3. P = Nat
  <2> HIDE DEF P
  <2>1. P \subseteq Nat
    BY DEF P
  <2> QED BY <1>1, <1>2, <2>1, Inductive
<1> QED BY <1>3

\* The equation of a recursive function definition over 0..N has a solution in the set
Recursion(N, X, b, f, g) ==
  g \in [0..N -> X] /\ g = [n \in 0..N |-> IF n = 0 THEN b ELSE f[<<n, g[n - 1]>>]]

LEMMA RecursionTheorem ==
  ASSUME NEW X, NEW b \in X, NEW N \in Nat, NEW f \in [(1..N) \X X -> X]
  PROVE  \E g : Recursion(N, X, b, f, g)
<1>1. PICK g \in [0..N -> X] : Runs(N, f, b, g)
  BY RunExists
<1>2. \A n \in 0..N : g[n] = IF n = 0 THEN b ELSE f[<<n, g[n - 1]>>]
  BY <1>1 DEF Runs
<1> QED BY <1>2 DEF Recursion

-----------------------------------------------------------------------------
\* A finite set as a sequence
LEMMA SetAsSeq ==
  ASSUME NEW S, IsFiniteSet(S)
  PROVE  /\ Cardinality(S) \in Nat /\ SetToSeq(S) \in [1..Cardinality(S) -> S]
         /\ \A x \in S : \E i \in 1..Cardinality(S) : SetToSeq(S)[i] = x
<1> DEFINE n == Cardinality(S)
<1>1. n \in Nat /\ ExistsBijection(1..n, S)
  BY FS_CardinalityType
<1>2. PICK g : g \in Bijection(1..n, S)
  BY <1>1 DEF ExistsBijection
<1>3. g \in [1..n -> S] /\ IsInjective(g)
  BY <1>2 DEF Bijection, Injection
<1>4. SetToSeq(S) \in [1..n -> S] /\ IsInjective(SetToSeq(S))
  BY <1>3 DEF SetToSeq
<1> PICK f \in [1..n -> S] : f = SetToSeq(S) /\ IsInjective(f)
  BY <1>4
<1>5. \A x \in S : \E i \in 1..n : f[i] = x
  <2> DEFINE im == {f[i] : i \in 1..n}
  <2>1. im \subseteq S
    OBVIOUS
  <2>2. Cardinality(im) = n
    <3>1. IsFiniteSet(1..n) /\ Cardinality(1..n) = n
      <4>1. IsFiniteSet(1..n) /\ Cardinality(1..n) = IF 1 <= n THEN n - 1 + 1 ELSE 0
        BY <1>1, FS_Interval
      <4> QED BY <1>1, <4>1
    <3>2. f \in Bijection(1..n, im)
      BY <1>4 DEF Bijection, Injection, Surjection, IsInjective
    <3>3. ExistsBijection(1..n, im)
      BY <3>2 DEF ExistsBijection
    <3> HIDE DEF im, n
    <3> QED BY <3>1, <3>3, FS_Bijection
  <2>3. im = S
    <3> HIDE DEF im
    <3> QED BY <2>1, <2>2, FS_Subset
  <2> QED BY <2>3
<1> QED BY <1>1, <1>4, <1>5

LEMMA LeastOf == ASSUME NEW S, S \subseteq Nat, S # {} PROVE Min(S) \in S /\ \A i \in S : Min(S) <= i
<1>1. \E m \in S : \A i \in S : m <= i
  BY Least
<1> QED BY <1>1 DEF Min

\* A bounded set of natural numbers has a greatest one
LEMMA GreatestOf ==
  ASSUME NEW b \in Nat, NEW S, S \subseteq 0..b, S # {}
  PROVE  Max(S) \in S /\ \A i \in S : i <= Max(S)
<1> DEFINE T == {k \in Nat : b - k \in S}
<1>1. T \subseteq Nat /\ T # {}
  <2> PICK i \in S : TRUE
    OBVIOUS
  <2>1. b - i \in Nat /\ b - (b - i) = i
    OBVIOUS
  <2> QED BY <2>1
<1>2. PICK m \in T : \A k \in T : m <= k
  <2> HIDE DEF T
  <2> QED BY <1>1, Least
<1>3. \A i \in S : b - i \in T
  OBVIOUS
<1>4. b - m \in S /\ \A i \in S : b - m >= i
  BY <1>2, <1>3
<1> HIDE DEF T
<1>5. \E x \in S : \A i \in S : x >= i
  BY <1>4
<1>6. Max(S) \in S /\ \A i \in S : Max(S) >= i
  BY <1>5 DEF Max
<1> QED BY <1>6

-----------------------------------------------------------------------------
\* A function on the first numbers is a list.
LEMMA IsList ==
  ASSUME NEW n \in Nat, NEW f, DOMAIN f = 1..n, f = [i \in DOMAIN f |-> f[i]]
  PROVE  f \in Seq(Range(f)) /\ Len(f) = n
<1>1. f \in [1..n -> Range(f)]
  BY DEF Range
<1>2. f \in Seq(Range(f))
  BY <1>1, SeqDef
<1> QED BY <1>1, <1>2, LenProperties

LEMMA ListOf ==
  ASSUME NEW X, NEW n \in Nat, NEW f \in [1..n -> X]
  PROVE  f \in Seq(X)
BY SeqDef

\* What is picked of a list: its elements at the positions, one after the other.
Placed(s, P, p, at) ==
  /\ at \in [1..Cardinality(P) -> P]
  /\ \A k \in 1..Cardinality(P) : p[k] = s[at[k]]
  /\ \A j, k \in 1..Cardinality(P) : j < k => at[j] < at[k]
  /\ \A i \in P : \E k \in 1..Cardinality(P) : at[k] = i

LEMMA PickedAt ==
  ASSUME NEW T, NEW s \in Seq(T), NEW P \in SUBSET DOMAIN s
  PROVE  /\ IsFiniteSet(P) /\ Cardinality(P) \in Nat
         /\ Picked(s, P) \in Seq(T) /\ DOMAIN Picked(s, P) = 1..Cardinality(P) /\ Len(Picked(s, P)) = Cardinality(P)
         /\ \E at : Placed(s, P, Picked(s, P), at)
<1> DEFINE N == Cardinality(P)
           Upto(i) == {j \in P : j <= i}
           rank == [i \in P |-> Cardinality(Upto(i))]
<1>1. DOMAIN s = 1..Len(s) /\ Len(s) \in Nat /\ P \subseteq Nat /\ \A i \in P : s[i] \in T
  BY LenProperties, ElementOfSeq
<1>2. IsFiniteSet(P)
  <2>1. IsFiniteSet(1..Len(s))
    BY <1>1, FS_Interval
  <2> QED BY <1>1, <2>1, FS_Subset
<1>3. N \in Nat
  BY <1>2, FS_CardinalityType
<1>4. ASSUME NEW i \in P
      PROVE IsFiniteSet(Upto(i)) /\ Cardinality(Upto(i)) \in 1..N
  <2>1. Upto(i) \in SUBSET P /\ i \in Upto(i)
    BY <1>1
  <2>2. IsFiniteSet(Upto(i)) /\ Cardinality(Upto(i)) <= N
    BY <1>2, <2>1, FS_Subset
  <2>3. Cardinality(Upto(i)) \in Nat /\ Cardinality(Upto(i)) # 0
    BY <2>1, <2>2, FS_CardinalityType, FS_EmptySet
  <2> QED BY <1>3, <2>2, <2>3
<1>5. ASSUME NEW i \in P, NEW j \in P, i < j PROVE Cardinality(Upto(i)) < Cardinality(Upto(j))
  <2>1. Upto(i) \in SUBSET Upto(j) /\ j \in Upto(j) /\ j \notin Upto(i)
    BY <1>1, <1>5
  <2>2. Cardinality(Upto(i)) <= Cardinality(Upto(j)) /\ Cardinality(Upto(i)) # Cardinality(Upto(j))
    <3> HIDE DEF Upto
    <3> QED BY <1>4, <2>1, FS_Subset
  <2>3. Cardinality(Upto(i)) \in Nat /\ Cardinality(Upto(j)) \in Nat
    <3> HIDE DEF Upto
    <3> QED BY <1>4, FS_CardinalityType
  <2> HIDE DEF Upto
  <2> QED BY <2>2, <2>3
<1>6. rank \in [P -> 1..N]
  BY <1>4
<1>7. \A i, j \in P : rank[i] = rank[j] => i = j
  <2> SUFFICES ASSUME NEW i \in P, NEW j \in P, rank[i] = rank[j] PROVE i = j
    OBVIOUS
  <2>1. ~(i < j) /\ ~(j < i)
    <3>1. rank[i] \in Nat /\ rank[j] \in Nat
      BY <1>3, <1>6
    <3>2. (i < j => rank[i] < rank[j]) /\ (j < i => rank[j] < rank[i])
      BY <1>5
    <3> HIDE DEF rank
    <3> QED BY <3>1, <3>2
  <2> QED BY <1>1, <2>1
<1>8. \A k \in 1..N : \E i \in P : rank[i] = k
  <2>1. IsFiniteSet(1..N) /\ Cardinality(1..N) = N
    BY <1>3, FS_Interval
  <2>2. rank \in Injection(P, 1..N)
    <3> HIDE DEF rank, N
    <3> QED BY <1>6, <1>7 DEF Injection, IsInjective
  <2>3. rank \in Surjection(P, 1..N)
    <3> HIDE DEF rank
    <3> QED BY <2>1, <2>2, FS_Injection
  <2> QED BY <2>3 DEF Surjection
<1> DEFINE at(k) == CHOOSE i \in P : Cardinality({j \in P : j <= i}) = k
<1>9. \A k \in 1..N : at(k) \in P /\ rank[at(k)] = k
  <2> SUFFICES ASSUME NEW k \in 1..N PROVE at(k) \in P /\ rank[at(k)] = k
    OBVIOUS
  <2>1. \E i \in P : Cardinality({j \in P : j <= i}) = k
    BY <1>8
  <2> QED BY <2>1
<1>10. Picked(s, P) = [k \in 1..N |-> s[at(k)]]
  BY DEF Picked
<1>11. Picked(s, P) \in [1..N -> T]
  <2> HIDE DEF at, N, rank
  <2> QED BY <1>1, <1>9, <1>10
<1>12. Picked(s, P) \in Seq(T)
  <2> HIDE DEF N
  <2> QED BY <1>3, <1>11, SeqDef
<1>13. ASSUME NEW j \in 1..N, NEW k \in 1..N, j < k PROVE at(j) < at(k)
  <2>1. at(j) \in P /\ at(k) \in P /\ rank[at(j)] = j /\ rank[at(k)] = k
    BY <1>9
  <2>2. at(k) < at(j) => rank[at(k)] < rank[at(j)]
    BY <2>1, <1>5
  <2> HIDE DEF at, rank
  <2>3. at(j) # at(k) /\ ~(at(k) < at(j))
    BY <1>3, <1>13, <2>1, <2>2
  <2> QED BY <1>1, <2>1, <2>3
<1>14. ASSUME NEW i \in P PROVE \E k \in 1..N : at(k) = i
  <2>1. rank[i] \in 1..N
    BY <1>6
  <2>2. at(rank[i]) = i
    <3> HIDE DEF at, rank
    <3> QED BY <1>7, <1>9, <2>1
  <2> QED BY <2>1, <2>2
<1> DEFINE place == [k \in 1..N |-> at(k)]
<1> HIDE DEF at, N, rank
<1>15. place \in [1..N -> P] /\ \A k \in 1..N : place[k] = at(k)
  BY <1>9
<1>16. /\ \A k \in 1..N : Picked(s, P)[k] = s[place[k]]
       /\ \A j, k \in 1..N : j < k => place[j] < place[k]
       /\ \A i \in P : \E k \in 1..N : place[k] = i
  <2> HIDE DEF place
  <2> QED BY <1>10, <1>13, <1>14, <1>15
<1>17. DOMAIN Picked(s, P) = 1..N /\ Len(Picked(s, P)) = N
  BY <1>3, <1>10
<1> HIDE DEF place
<1>18. Placed(s, P, Picked(s, P), place)
  BY <1>15, <1>16 DEF Placed, N
<1> QED BY <1>2, <1>3, <1>12, <1>17, <1>18 DEF N

\* What is picked of a list is a list of what is at the positions, each of them once.
LEMMA PickedDoes ==
  ASSUME NEW T, NEW s \in Seq(T), NEW P \in SUBSET DOMAIN s
  PROVE  /\ IsFiniteSet(P) /\ Picked(s, P) \in Seq(T) /\ DOMAIN Picked(s, P) = 1..Cardinality(P)
         /\ \A k \in DOMAIN Picked(s, P) : \E i \in P : Picked(s, P)[k] = s[i]
         /\ \A i \in P : \E k \in DOMAIN Picked(s, P) : Picked(s, P)[k] = s[i]
         /\ IsInjective(s) => IsInjective(Picked(s, P))
<1> DEFINE N == Cardinality(P)
           p == Picked(s, P)
<1>1. /\ IsFiniteSet(P) /\ N \in Nat /\ p \in Seq(T) /\ DOMAIN p = 1..N
      /\ \E at : Placed(s, P, p, at)
  BY PickedAt
<1>2. PICK at : Placed(s, P, p, at)
  BY <1>1
<1>21. /\ at \in [1..N -> P]
       /\ \A k \in 1..N : p[k] = s[at[k]]
       /\ \A j, k \in 1..N : j < k => at[j] < at[k]
       /\ \A i \in P : \E k \in 1..N : at[k] = i
  BY <1>2 DEF Placed
<1> HIDE DEF p, N
<1>3. P \subseteq DOMAIN s /\ P \subseteq Nat
  BY LenProperties
<1>4. \A k \in 1..N : at[k] \in P /\ p[k] = s[at[k]]
  BY <1>21
<1>5. ASSUME IsInjective(s), NEW j \in 1..N, NEW k \in 1..N, p[j] = p[k] PROVE j = k
  <2>1. at[j] = at[k]
    BY <1>3, <1>4, <1>5 DEF IsInjective
  <2>2. at[j] \in Nat /\ at[k] \in Nat
    BY <1>3, <1>4
  <2>3. ~(j < k) /\ ~(k < j)
    BY <1>21, <2>1, <2>2
  <2> QED BY <1>1, <2>3
<1>6. IsInjective(s) => IsInjective(p)
  BY <1>1, <1>5 DEF IsInjective
<1>7. \A k \in DOMAIN p : \E i \in P : p[k] = s[i]
  BY <1>1, <1>4
<1>8. \A i \in P : \E k \in DOMAIN p : p[k] = s[i]
  <2> SUFFICES ASSUME NEW i \in P PROVE \E k \in DOMAIN p : p[k] = s[i]
    OBVIOUS
  <2>1. PICK k \in 1..N : at[k] = i
    BY <1>21
  <2> QED BY <1>1, <1>4, <2>1
<1>9. /\ IsFiniteSet(P) /\ p \in Seq(T) /\ DOMAIN p = 1..N
      /\ \A k \in DOMAIN p : \E i \in P : p[k] = s[i]
      /\ \A i \in P : \E k \in DOMAIN p : p[k] = s[i]
      /\ IsInjective(s) => IsInjective(p)
  BY <1>1, <1>6, <1>7, <1>8
<1> QED BY <1>9 DEF p, N
=============================================================================

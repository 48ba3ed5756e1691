----------------------------- MODULE DataLemmas -----------------------------
(***************************************************************************)
(* Facts about numbers, finite sets, orders, recursive functions, sums and *)
(* concatenations that the proofs of the components rest on.  Induction is *)
(* stated over sets: a set that holds the first case and the next one of   *)
(* each of its members holds them all.                                     *)
(***************************************************************************)
EXTENDS Integers, FiniteSets, SequencesExt, WellFoundedInduction,
        FiniteSetTheorems, TLAPS

(***************************************************************************)
(* Numbers.                                                                *)
(***************************************************************************)


\* A set of natural numbers has a smallest member.
LEMMA NaturalsHaveSmallest ==
    ASSUME NEW S \in SUBSET Nat, S # {}
    PROVE  \E m \in S : \A n \in S : m <= n
  <1>1. PICK m \in S : \A n \in S : ~ (<<n, m>> \in OpToRel(<, Nat))
    BY NatLessThanWellFounded, WFMin
  <1>2. ASSUME NEW n \in S PROVE m <= n
    <2>1. n \in Nat /\ m \in Nat
      OBVIOUS
    <2>2. ~ (n < m)
      BY <2>1, <1>1 DEF OpToRel
    <2>3. QED
      BY <2>1, <2>2
  <1>3. QED
    BY <1>2

\* A set of natural numbers with a bound has a greatest member.
LEMMA BoundedHaveGreatest ==
    ASSUME NEW bound \in Nat, NEW S \in SUBSET (0..bound), S # {}
    PROVE  \E m \in S : \A n \in S : n <= m
  <1> DEFINE T == {bound - n : n \in S}
  <1>1. T \in SUBSET Nat /\ T # {}
    <2>1. \A n \in S : bound - n \in Nat
      OBVIOUS
    <2>2. QED
      BY <2>1
  <1>2. /\ \A t \in T : \E n \in S : t = bound - n
        /\ \A n \in S : bound - n \in T
    OBVIOUS
  <1> HIDE DEF T
  <1>3. PICK t \in T : \A u \in T : t <= u
    BY <1>1, NaturalsHaveSmallest
  <1>4. PICK m \in S : t = bound - m
    BY <1>2
  <1>5. ASSUME NEW n \in S PROVE n <= m
    <2>1. n \in 0..bound /\ m \in 0..bound
      OBVIOUS
    <2>2. bound - m <= bound - n
      BY <1>2, <1>3, <1>4
    <2>3. QED
      BY <2>1, <2>2
  <1>6. QED
    BY <1>5

\* Induction over the natural numbers.
LEMMA NaturalsFollow ==
    ASSUME NEW S \in SUBSET Nat, 0 \in S, \A n \in S : n + 1 \in S
    PROVE  S = Nat
  <1> SUFFICES ASSUME Nat \ S # {} PROVE FALSE
    OBVIOUS
  <1> DEFINE missing == Nat \ S
  <1>0. missing \in SUBSET Nat /\ missing # {}
    OBVIOUS
  <1> HIDE DEF missing
  <1>1. PICK m \in missing : \A n \in missing : m <= n
    BY <1>0, NaturalsHaveSmallest
  <1>2. m \in Nat /\ m \notin S /\ \A n \in Nat : n \notin S => m <= n
    BY <1>1 DEF missing
  <1>3. m - 1 \in Nat /\ (m - 1) + 1 = m
    BY <1>2
  <1>4. m - 1 \in S
    BY <1>2, <1>3
  <1>5. QED
    BY <1>2, <1>3, <1>4

\* Induction over an interval.
LEMMA IntervalFollows ==
    ASSUME NEW S, NEW m \in Nat, 0 \in S, \A n \in 0..m : n \in S /\ n < m => n + 1 \in S
    PROVE  \A n \in 0..m : n \in S
  <1> DEFINE T == {n \in Nat : n <= m => n \in S}
  <1>1. T \in SUBSET Nat /\ 0 \in T
    OBVIOUS
  <1>2. ASSUME NEW n \in T PROVE n + 1 \in T
    <2>1. CASE n + 1 <= m
      <3>1. n \in 0..m /\ n < m /\ n \in S /\ n + 1 \in Nat
        BY <2>1
      <3>2. QED
        BY <3>1
    <2>2. CASE ~ (n + 1 <= m)
      BY <2>2
    <2>3. QED
      BY <2>1, <2>2
  <1> HIDE DEF T
  <1>3. T = Nat
    BY <1>1, <1>2, NaturalsFollow
  <1>4. QED
    BY <1>3 DEF T

\* Induction over a finite set: a family of sets that holds the empty set and, with a
\* part of S, the part with one more member.
LEMMA FiniteSetsFollow ==
    ASSUME NEW S, IsFiniteSet(S), NEW Family, {} \in Family,
           \A T \in SUBSET S, x \in S :
              T \in Family /\ x \notin T => T \cup {x} \in Family
    PROVE  S \in Family
  <1> DEFINE counts == {n \in 0..Cardinality(S) :
                          \A T \in SUBSET S : Cardinality(T) = n => T \in Family}
  <1>0. Cardinality(S) \in Nat /\ \A T \in SUBSET S : IsFiniteSet(T) /\ Cardinality(T) \in Nat
    BY FS_CardinalityType, FS_Subset
  <1>1. 0 \in counts
    <2>1. \A T \in SUBSET S : Cardinality(T) = 0 => T = {}
      BY <1>0, FS_EmptySet
    <2>2. 0 \in 0..Cardinality(S)
      BY <1>0
    <2>3. QED
      BY <2>1, <2>2
  <1>2. ASSUME NEW n \in 0..Cardinality(S), n \in counts, n < Cardinality(S)
        PROVE  n + 1 \in counts
    <2>1. ASSUME NEW T \in SUBSET S, Cardinality(T) = n + 1 PROVE T \in Family
      <3>1. IsFiniteSet(T) /\ T # {}
        BY <1>0, <2>1, FS_EmptySet
      <3>2. PICK x \in T : TRUE
        BY <3>1
      <3>3. Cardinality(T \ {x}) = Cardinality(T) - 1
        BY <3>1, <3>2, FS_RemoveElement
      <3>4. T \ {x} \in SUBSET S /\ Cardinality(T \ {x}) = n
        BY <3>3, <2>1
      <3>5. T \ {x} \in Family
        BY <3>4, <1>2
      <3>6. (T \ {x}) \cup {x} = T /\ x \in S /\ x \notin T \ {x}
        BY <3>2
      <3>7. (T \ {x}) \cup {x} \in Family
        BY <3>4, <3>5, <3>6
      <3>8. QED
        BY <3>6, <3>7
    <2>2. n + 1 \in 0..Cardinality(S)
      BY <1>0, <1>2
    <2>3. QED
      BY <2>1, <2>2
  <1> HIDE DEF counts
  <1>3. \A n \in 0..Cardinality(S) : n \in counts
    BY <1>0, <1>1, <1>2, IntervalFollows
  <1>4. Cardinality(S) \in counts
    BY <1>0, <1>3
  <1>5. QED
    BY <1>4 DEF counts

\* What a function makes of a finite set is finite.
LEMMA ImageIsFinite ==
    ASSUME NEW S, IsFiniteSet(S), NEW f
    PROVE  IsFiniteSet({f[x] : x \in S})
  <1> DEFINE T == {f[x] : x \in S}
             g == [x \in S |-> f[x]]
  <1>1. g \in Surjection(S, T)
    BY DEF Surjection
  <1> HIDE DEF g
  <1>2. QED
    BY <1>1, FS_Surjection

\* What is numbered one to one has the same number of members.
LEMMA SameNumber ==
    ASSUME NEW S, IsFiniteSet(S), NEW T, NEW f \in [S -> T],
           \A x, y \in S : f[x] = f[y] => x = y, \A t \in T : \E x \in S : f[x] = t
    PROVE  Cardinality(T) = Cardinality(S)
  <1>1. f \in Injection(S, T) /\ f \in Surjection(S, T)
    BY DEF Injection, IsInjective, Surjection
  <1>2. QED
    BY <1>1, FS_Surjection

\* The members of two sets that have none in common.
LEMMA DisjointNumber ==
    ASSUME NEW A, IsFiniteSet(A), NEW B, IsFiniteSet(B), A \cap B = {}
    PROVE  Cardinality(A \cup B) = Cardinality(A) + Cardinality(B)
  <1>1. Cardinality(A) \in Nat /\ Cardinality(B) \in Nat
    BY FS_CardinalityType
  <1>2. Cardinality(A \cup B) = Cardinality(A) + Cardinality(B) - Cardinality(A \cap B)
    BY FS_Union
  <1>3. Cardinality(A \cap B) = 0
    BY FS_EmptySet, Zenon
  <1>4. QED
    BY <1>1, <1>2, <1>3

\* Strong induction over the parts of a finite set.
LEMMA PartsFollow ==
    ASSUME NEW S, IsFiniteSet(S), NEW Family,
           \A T \in SUBSET S : (\A U \in SUBSET T : U # T => U \in Family) => T \in Family
    PROVE  \A T \in SUBSET S : T \in Family
  <1> SUFFICES ASSUME NEW T \in SUBSET S, T \notin Family PROVE FALSE
    OBVIOUS
  <1> DEFINE sizes == {Cardinality(U) : U \in {V \in SUBSET S : V \notin Family}}
  <1>1. \A U \in SUBSET S : IsFiniteSet(U) /\ Cardinality(U) \in Nat
    BY FS_Subset, FS_CardinalityType
  <1>2. sizes \in SUBSET Nat /\ sizes # {}
    BY <1>1
  <1>3. PICK m \in sizes : \A n \in sizes : m <= n
    <2> HIDE DEF sizes
    <2>1. QED
      BY <1>2, NaturalsHaveSmallest
  <1>4. PICK U \in SUBSET S : U \notin Family /\ Cardinality(U) = m
    BY <1>3
  <1>5. ASSUME NEW V \in SUBSET U, V # U PROVE V \in Family
    <2>1. Cardinality(V) < Cardinality(U)
      BY <1>1, <1>5, FS_Subset
    <2>2. V \in SUBSET S /\ Cardinality(V) \in Nat /\ Cardinality(U) \in Nat
      BY <1>1
    <2>3. V \notin Family => Cardinality(V) \in sizes
      BY <2>2
    <2>4. QED
      BY <1>3, <1>4, <2>1, <2>2, <2>3
  <1>6. QED
    BY <1>4, <1>5

\* A function from 0..n to T that is defined by recursion: f[i] is G[i] of f[i - 1].
IsRecursive(f, T, first, n, G) ==
    /\ f \in [0..n -> T]
    /\ f[0] = first
    /\ \A i \in 1..n : f[i] = G[i][f[i - 1]]

LEMMA RecursionExists ==
    ASSUME NEW T, NEW first \in T, NEW n \in Nat, NEW G \in [1..n -> [T -> T]]
    PROVE  \E f : IsRecursive(f, T, first, n, G)
  <1> DEFINE Upto(f, k) == f[0] = first /\ \A i \in 1..k : f[i] = G[i][f[i - 1]]
             known == {k \in 0..n : \E f \in [0..k -> T] : Upto(f, k)}
  <1>1. 0 \in known
    <2>1. [i \in 0..0 |-> first] \in [0..0 -> T] /\ Upto([i \in 0..0 |-> first], 0)
      OBVIOUS
    <2>2. \E f \in [0..0 -> T] : Upto(f, 0)
      BY <2>1, Zenon
    <2>3. 0 \in 0..n
      OBVIOUS
    <2>4. QED
      BY <2>2, <2>3
  <1>2. ASSUME NEW k \in 0..n, k \in known, k < n PROVE k + 1 \in known
    <2>1. PICK f \in [0..k -> T] : Upto(f, k)
      BY <1>2
    <2> DEFINE g == [i \in 0..(k + 1) |-> IF i = k + 1 THEN G[k + 1][f[k]] ELSE f[i]]
    <2>2. G[k + 1][f[k]] \in T
      <3>1. k + 1 \in 1..n /\ k \in 0..k /\ f[k] \in T
        BY <1>2, <2>1
      <3>2. QED
        BY <3>1
    <2>3. g \in [0..(k + 1) -> T]
      <3>1. ASSUME NEW i \in 0..(k + 1) PROVE g[i] \in T
        <4>1. i = k + 1 \/ i \in 0..k
          OBVIOUS
        <4>2. QED
          BY <2>2, <4>1
      <3>2. QED
        BY <3>1
    <2>4. Upto(g, k + 1)
      <3>1. g[0] = first /\ g[k + 1] = G[k + 1][f[k]] /\ g[k] = f[k]
        BY <2>1
      <3>2. ASSUME NEW i \in 1..(k + 1) PROVE g[i] = G[i][g[i - 1]]
        <4>1. CASE i = k + 1
          BY <3>1, <4>1
        <4>2. CASE i # k + 1
          <5>1. i \in 1..k /\ i - 1 \in 0..k /\ i \in 0..(k + 1) /\ i - 1 \in 0..(k + 1)
                /\ i - 1 # k + 1
            BY <4>2
          <5>2. g[i] = f[i] /\ g[i - 1] = f[i - 1]
            BY <4>2, <5>1
          <5>3. QED
            BY <2>1, <5>1, <5>2
        <4>3. QED
          BY <4>1, <4>2
      <3>3. QED
        BY <3>1, <3>2
    <2>5. QED
      <3>1. k + 1 \in 0..n
        BY <1>2
      <3>2. QED
        BY <2>3, <2>4, <3>1
  <1>3. n \in known
    <2> HIDE DEF known
    <2>1. \A k \in 0..n : k \in known
      BY <1>1, <1>2, IntervalFollows
    <2>2. QED
      BY <2>1
  <1>4. PICK f \in [0..n -> T] : Upto(f, n)
    BY <1>3
  <1>5. IsRecursive(f, T, first, n, G)
    BY <1>4 DEF IsRecursive
  <1>6. QED
    BY <1>5

(***************************************************************************)
(* Sums.                                                                   *)
(***************************************************************************)
Picked(s) == CHOOSE x \in s : TRUE

\* What SumFunction(f) applies to the domain S of f.
IsSummation(iter, f, S) ==
    iter = [s \in SUBSET S |-> IF s = {} THEN 0 ELSE f[Picked(s)] + iter[s \ {Picked(s)}]]

LEMMA SumIsSummation ==
    ASSUME NEW S, NEW f, DOMAIN f = S, NEW iter, IsSummation(iter, f, S)
    PROVE  \E sum : IsSummation(sum, f, S) /\ SumFunction(f) = sum[S]
  <1>1. SumFunction(f) = (CHOOSE sum : IsSummation(sum, f, S))[S]
    BY DEF SumFunction, SumFunctionOnSet, FoldFunctionOnSet, MapThenFoldSet, IsSummation, Picked
  <1>2. IsSummation((CHOOSE sum : IsSummation(sum, f, S)), f, S)
    BY Zenon
  <1>3. QED
    BY <1>1, <1>2

LEMMA SummationExists ==
    ASSUME NEW S, IsFiniteSet(S), NEW f \in [S -> Int]
    PROVE  \E iter : IsSummation(iter, f, S)
  <1> DEFINE Sums == [SUBSET S -> Int]
             zero == [s \in SUBSET S |-> 0]
             Next(h) == [s \in SUBSET S |->
                           IF s = {} THEN 0 ELSE f[Picked(s)] + h[s \ {Picked(s)}]]
             steps == Cardinality(S) + 1
             Add == [i \in 1..steps |-> [h \in Sums |-> Next(h)]]
  <1>0. steps \in Nat /\ \A s \in SUBSET S : IsFiniteSet(s) /\ Cardinality(s) \in 0..Cardinality(S)
    <2>1. Cardinality(S) \in Nat
      BY FS_CardinalityType
    <2>2. ASSUME NEW s \in SUBSET S PROVE IsFiniteSet(s) /\ Cardinality(s) \in 0..Cardinality(S)
      <3>1. IsFiniteSet(s) /\ Cardinality(s) <= Cardinality(S)
        BY FS_Subset
      <3>2. Cardinality(s) \in Nat
        BY <3>1, FS_CardinalityType
      <3>3. QED
        BY <2>1, <3>1, <3>2
    <2>3. QED
      BY <2>1, <2>2
  <1>1. \A s \in SUBSET S : s # {} => Picked(s) \in s /\ s \ {Picked(s)} \in SUBSET S
    BY DEF Picked
  <1>2. ASSUME NEW h \in Sums PROVE Next(h) \in Sums
    <2>1. ASSUME NEW s \in SUBSET S, s # {} PROVE f[Picked(s)] + h[s \ {Picked(s)}] \in Int
      <3>1. Picked(s) \in S /\ s \ {Picked(s)} \in SUBSET S
        BY <1>1, <2>1
      <3>2. f[Picked(s)] \in Int /\ h[s \ {Picked(s)}] \in Int
        BY <3>1
      <3>3. QED
        BY <3>2
    <2>2. QED
      BY <2>1
  <1>3. zero \in Sums /\ Add \in [1..steps -> [Sums -> Sums]]
    <2>1. zero \in Sums
      OBVIOUS
    <2>2. [h \in Sums |-> Next(h)] \in [Sums -> Sums]
      BY <1>2
    <2>3. QED
      BY <2>1, <2>2
  <1>4. \A i \in 1..steps, h \in Sums : Add[i][h] = Next(h)
    OBVIOUS
  <1> HIDE DEF Sums, zero, steps, Add
  <1>5. PICK rec : IsRecursive(rec, Sums, zero, steps, Add)
    <2>1. zero \in Sums /\ steps \in Nat /\ Add \in [1..steps -> [Sums -> Sums]]
      BY <1>0, <1>3
    <2>2. QED
      BY <2>1, RecursionExists, Zenon
  <1> USE DEF IsRecursive
  <1>6. \A i \in 1..steps : i \in 0..steps /\ i - 1 \in 0..steps /\ rec[i - 1] \in Sums /\ rec[i] = Next(rec[i - 1])
    <2>1. ASSUME NEW i \in 1..steps
          PROVE  i \in 0..steps /\ i - 1 \in 0..steps /\ rec[i - 1] \in Sums /\ rec[i] = Next(rec[i - 1])
      <3>1. i \in 0..steps /\ i - 1 \in 0..steps /\ i # 0
        BY <1>0
      <3>2. rec[i - 1] \in Sums
        BY <1>5, <3>1
      <3>3. rec[i] = Add[i][rec[i - 1]]
        BY <1>5, <3>1
      <3>4. QED
        BY <1>4, <3>1, <3>2, <3>3
    <2>2. QED
      BY <2>1
  \* From the size of s on, the steps leave the value of s.
  <1> DEFINE stable == {i \in 0..(steps - 1) : \A s \in SUBSET S :
                          Cardinality(s) <= i => rec[i][s] = rec[i + 1][s]}
  <1>7. 0 \in stable
    <2>1. ASSUME NEW s \in SUBSET S, Cardinality(s) <= 0 PROVE rec[0][s] = rec[1][s]
      <3>1. s = {}
        BY <1>0, <2>1, FS_EmptySet
      <3>2. 1 \in 1..steps /\ 0 \in 0..steps
        BY <1>0 DEF steps
      <3>3. rec[1] = Next(rec[0])
        <4>1. rec[1] = Next(rec[1 - 1])
          BY <1>6, <3>2
        <4>2. QED
          BY <4>1
      <3>4. rec[0] = zero
        BY <1>5, <3>2
      <3>5. QED
        BY <3>1, <3>3, <3>4 DEF zero
    <2>2. 0 \in 0..(steps - 1)
      BY <1>0 DEF steps
    <2>3. QED
      BY <2>1, <2>2
  <1>8. ASSUME NEW i \in 0..(steps - 1), i \in stable, i < steps - 1 PROVE i + 1 \in stable
    <2>1. i + 1 \in 1..steps /\ (i + 1) + 1 \in 1..steps /\ i + 1 \in 0..(steps - 1)
          /\ (i + 1) - 1 = i /\ ((i + 1) + 1) - 1 = i + 1
      BY <1>0, <1>8
    <2>2. rec[i + 1] = Next(rec[i]) /\ rec[(i + 1) + 1] = Next(rec[i + 1])
      BY <1>6, <2>1
    <2>3. ASSUME NEW s \in SUBSET S, Cardinality(s) <= i + 1
          PROVE  rec[i + 1][s] = rec[(i + 1) + 1][s]
      <3>1. CASE s = {}
        BY <2>2, <3>1
      <3>2. CASE s # {}
        <4> DEFINE rest == s \ {Picked(s)}
        <4>1. Picked(s) \in s /\ rest \in SUBSET S
          BY <1>1, <3>2
        <4>2. Cardinality(rest) = Cardinality(s) - 1
          BY <1>0, <4>1, FS_RemoveElement
        <4>3. Cardinality(rest) <= i
          BY <1>0, <2>3, <4>1, <4>2
        <4>4. rec[i][rest] = rec[i + 1][rest]
          BY <1>8, <4>1, <4>3
        <4>5. rec[i + 1][s] = f[Picked(s)] + rec[i][rest]
          BY <2>2, <3>2
        <4>6. rec[(i + 1) + 1][s] = f[Picked(s)] + rec[i + 1][rest]
          BY <2>2, <3>2
        <4>7. QED
          BY <4>4, <4>5, <4>6
      <3>3. QED
        BY <3>1, <3>2
    <2>4. QED
      BY <2>1, <2>3
  <1>9. \A i \in 0..(steps - 1) : i \in stable
    <2> HIDE DEF stable
    <2>1. steps - 1 \in Nat
      BY <1>0 DEF steps
    <2>2. QED
      BY <1>7, <1>8, <2>1, IntervalFollows
  <1> DEFINE iter == rec[steps]
  <1>10. steps \in 1..steps /\ steps - 1 \in 0..(steps - 1) /\ (steps - 1) + 1 = steps /\ steps - 1 = Cardinality(S)
    BY <1>0, FS_CardinalityType DEF steps
  <1>11. iter = Next(rec[steps - 1])
    BY <1>6, <1>10
  <1>12. \A s \in SUBSET S : rec[steps - 1][s] = iter[s]
    BY <1>0, <1>9, <1>10
  <1>13. ASSUME NEW s \in SUBSET S, s # {}
         PROVE  rec[steps - 1][s \ {Picked(s)}] = iter[s \ {Picked(s)}]
    BY <1>1, <1>12, <1>13
  <1>14. Next(rec[steps - 1]) = Next(iter)
    <2> HIDE DEF iter
    <2>1. QED
      BY <1>13
  <1>15. IsSummation(iter, f, S)
    BY <1>11, <1>14 DEF IsSummation
  <1>16. QED
    BY <1>15

\* A summation may take any member first.
TakesAnyFirst(iter, f, S) ==
    /\ iter[{}] = 0
    /\ \A s \in SUBSET S : iter[s] \in Int /\ \A x \in s : iter[s] = f[x] + iter[s \ {x}]

LEMMA SummationLaws ==
    ASSUME NEW S, IsFiniteSet(S), NEW f \in [S -> Int], NEW iter, IsSummation(iter, f, S)
    PROVE  TakesAnyFirst(iter, f, S)
  <1> DEFINE Family == {s \in SUBSET S :
                          iter[s] \in Int /\ \A x \in s : iter[s] = f[x] + iter[s \ {x}]}
  <1>1. iter[{}] = 0
    BY DEF IsSummation
  <1>2. ASSUME NEW T \in SUBSET S, \A U \in SUBSET T : U # T => U \in Family
        PROVE  T \in Family
    <2>1. CASE T = {}
      BY <1>1, <2>1
    <2>2. CASE T # {}
      <3> DEFINE y == Picked(T)
      <3>1. y \in T /\ f[y] \in Int /\ iter[T] = f[y] + iter[T \ {y}]
        BY <2>2 DEF Picked, IsSummation
      <3> HIDE DEF y
      <3>2. \A x \in T : T \ {x} \in Family
        BY <1>2
      <3>3. iter[T \ {y}] \in Int
        BY <3>1, <3>2
      <3>4. ASSUME NEW x \in T, x # y PROVE iter[T] = f[x] + iter[T \ {x}]
        <4> DEFINE rest == T \ {x, y}
        <4>1. (T \ {y}) \ {x} = rest /\ (T \ {x}) \ {y} = rest
          OBVIOUS
        <4>2. rest \in SUBSET T /\ rest # T
          BY <3>4
        <4>3. rest \in Family
          BY <1>2, <4>2
        <4>4. iter[T \ {y}] = f[x] + iter[(T \ {y}) \ {x}]
          BY <3>1, <3>2, <3>4
        <4>5. iter[T \ {x}] = f[y] + iter[(T \ {x}) \ {y}]
          BY <3>1, <3>2, <3>4
        <4>6. iter[rest] \in Int /\ f[x] \in Int
          BY <4>3
        <4> HIDE DEF rest
        <4>7. iter[T \ {y}] = f[x] + iter[rest] /\ iter[T \ {x}] = f[y] + iter[rest]
          BY <4>1, <4>4, <4>5
        <4>8. f[y] + (f[x] + iter[rest]) = f[x] + (f[y] + iter[rest])
          BY <3>1, <4>6
        <4>9. QED
          BY <3>1, <4>7, <4>8, Zenon
      <3>5. iter[T] \in Int
        BY <3>1, <3>3
      <3>6. QED
        BY <3>1, <3>4, <3>5
    <2>3. QED
      BY <2>1, <2>2
  <1>3. \A T \in SUBSET S : T \in Family
    <2> HIDE DEF Family
    <2>1. QED
      BY <1>2, PartsFollow
  <1>4. QED
    BY <1>1, <1>3 DEF TakesAnyFirst

\* Summations of functions agree where the functions do.
LEMMA SummationsAgree ==
    ASSUME NEW S, IsFiniteSet(S), NEW f \in [S -> Int], NEW iter, IsSummation(iter, f, S),
           NEW A \in SUBSET S, NEW g \in [A -> Int], NEW part, IsSummation(part, g, A),
           \A x \in A : f[x] = g[x]
    PROVE  \A s \in SUBSET A : iter[s] = part[s]
  <1> DEFINE Family == {s \in SUBSET A : iter[s] = part[s]}
  <1>1. IsFiniteSet(A)
    BY FS_Subset
  <1>2. ASSUME NEW T \in SUBSET A, \A U \in SUBSET T : U # T => U \in Family
        PROVE  T \in Family
    <2>1. CASE T = {}
      BY <2>1 DEF IsSummation
    <2>2. CASE T # {}
      <3> DEFINE y == Picked(T)
      <3>1. y \in T
        BY <2>2 DEF Picked
      <3>2. iter[T] = f[y] + iter[T \ {y}] /\ part[T] = g[y] + part[T \ {y}]
        BY <2>2 DEF IsSummation
      <3> HIDE DEF y
      <3>3. iter[T \ {y}] = part[T \ {y}]
        BY <1>2, <3>1
      <3>4. QED
        BY <3>1, <3>2, <3>3
    <2>3. QED
      BY <2>1, <2>2
  <1>3. \A T \in SUBSET A : T \in Family
    <2> HIDE DEF Family
    <2>1. QED
      BY <1>1, <1>2, PartsFollow
  <1>4. QED
    BY <1>3

\* The sum of an integer function over a finite set.
LEMMA SumLaws ==
    ASSUME NEW S, IsFiniteSet(S), NEW f \in [S -> Int]
    PROVE  /\ SumFunction(f) \in Int
           /\ S = {} => SumFunction(f) = 0
           /\ \A x \in S : SumFunction(f) = f[x] + SumFunction(Restrict(f, S \ {x}))
  <1>1. PICK sum : IsSummation(sum, f, S) /\ SumFunction(f) = sum[S]
    <2>1. PICK iter : IsSummation(iter, f, S)
      BY SummationExists
    <2>2. QED
      BY <2>1, SumIsSummation
  <1>2. /\ sum[{}] = 0
        /\ \A s \in SUBSET S : sum[s] \in Int /\ \A x \in s : sum[s] = f[x] + sum[s \ {x}]
    <2>1. IsSummation(sum, f, S)
      BY <1>1
    <2>2. TakesAnyFirst(sum, f, S)
      BY <2>1, SummationLaws, Zenon
    <2>3. QED
      BY <2>2 DEF TakesAnyFirst
  <1>3. ASSUME NEW x \in S PROVE SumFunction(Restrict(f, S \ {x})) = sum[S \ {x}]
    <2> DEFINE A == S \ {x}
               g == Restrict(f, A)
    <2>1. A \in SUBSET S /\ IsFiniteSet(A)
      BY FS_Subset
    <2>2. g \in [A -> Int] /\ DOMAIN g = A /\ \A y \in A : f[y] = g[y]
      BY DEF Restrict
    <2> HIDE DEF A, g
    <2>3. PICK iter : IsSummation(iter, g, A)
      BY <2>1, <2>2, SummationExists
    <2>4. PICK part : IsSummation(part, g, A) /\ SumFunction(g) = part[A]
      BY <2>2, <2>3, SumIsSummation
    <2>5. \A s \in SUBSET A : sum[s] = part[s]
      BY <1>1, <2>1, <2>2, <2>4, SummationsAgree
    <2>6. SumFunction(g) = sum[A]
      BY <2>4, <2>5
    <2>7. QED
      BY <2>6 DEF A, g
  <1>4. QED
    BY <1>1, <1>2, <1>3

\* One more summand.
LEMMA SumAdd ==
    ASSUME NEW S, IsFiniteSet(S), NEW f \in [S -> Int], NEW A \in SUBSET S, NEW x \in S \ A
    PROVE  SumFunction(Restrict(f, A \cup {x})) = f[x] + SumFunction(Restrict(f, A))
  <1> DEFINE B == A \cup {x}
             g == Restrict(f, B)
  <1>1. IsFiniteSet(B) /\ x \in B
    BY FS_Subset
  <1>2. g \in [B -> Int] /\ g[x] = f[x]
    BY DEF Restrict
  <1>3. Restrict(g, B \ {x}) = Restrict(f, A)
    <2>1. B \ {x} = A /\ \A y \in A : g[y] = f[y]
      BY DEF Restrict
    <2>2. QED
      BY <2>1 DEF Restrict
  <1> HIDE DEF B, g
  <1>4. SumFunction(g) = g[x] + SumFunction(Restrict(g, B \ {x}))
    BY <1>1, <1>2, SumLaws
  <1>5. SumFunction(g) = f[x] + SumFunction(Restrict(f, A))
    BY <1>2, <1>3, <1>4
  <1>6. QED
    BY <1>5 DEF g, B

LEMMA SumAdds ==
    ASSUME NEW S, IsFiniteSet(S), NEW f \in [S -> Int]
    PROVE  \A A \in SUBSET S, x \in S : x \notin A =>
              SumFunction(Restrict(f, A \cup {x})) = f[x] + SumFunction(Restrict(f, A))
  BY SumAdd

\* The parts of a sum.
LEMMA SumUnion ==
    ASSUME NEW S, IsFiniteSet(S), NEW f \in [S -> Int],
           NEW A \in SUBSET S, NEW B \in SUBSET S, A \cap B = {}
    PROVE  SumFunction(Restrict(f, A \cup B)) =
           SumFunction(Restrict(f, A)) + SumFunction(Restrict(f, B))
  <1> DEFINE Sum(s) == SumFunction(Restrict(f, s))
             Family == {s \in SUBSET B : Sum(A \cup s) = Sum(A) + Sum(s)}
  <1>1. \A s \in SUBSET S : Sum(s) \in Int
    <2>1. ASSUME NEW s \in SUBSET S PROVE Sum(s) \in Int
      <3>1. Restrict(f, s) \in [s -> Int] /\ IsFiniteSet(s)
        BY FS_Subset DEF Restrict
      <3>2. QED
        BY <3>1, SumLaws
    <2>2. QED
      BY <2>1
  <1>2. \A s \in SUBSET S, x \in S : x \notin s => Sum(s \cup {x}) = f[x] + Sum(s)
    BY SumAdd
  <1>3. {} \in Family
    <2>1. Sum({}) = 0
      <3>1. Restrict(f, {}) \in [{} -> Int] /\ IsFiniteSet({})
        BY FS_EmptySet DEF Restrict
      <3>2. QED
        BY <3>1, SumLaws
    <2>2. A \cup {} = A /\ Sum(A) \in Int
      BY <1>1
    <2> HIDE DEF Sum
    <2>3. QED
      BY <2>1, <2>2
  <1> HIDE DEF Sum
  <1>4. ASSUME NEW T \in SUBSET B, NEW x \in B, T \in Family, x \notin T
        PROVE  T \cup {x} \in Family
    <2>1. A \cup (T \cup {x}) = (A \cup T) \cup {x} /\ x \notin A \cup T
          /\ A \cup T \in SUBSET S /\ T \in SUBSET S /\ x \in S
      BY <1>4
    <2>2. Sum(A \cup (T \cup {x})) = f[x] + Sum(A \cup T) /\ Sum(T \cup {x}) = f[x] + Sum(T)
      BY <1>2, <1>4, <2>1
    <2>3. Sum(A \cup T) = Sum(A) + Sum(T)
      BY <1>4
    <2>4. Sum(A) \in Int /\ Sum(T) \in Int /\ f[x] \in Int
      BY <1>1, <2>1
    <2>5. Sum(A \cup (T \cup {x})) = Sum(A) + Sum(T \cup {x})
      BY <2>2, <2>3, <2>4
    <2>6. QED
      BY <2>1, <2>5
  <1>5. IsFiniteSet(B)
    BY FS_Subset
  <1>6. B \in Family
    <2> HIDE DEF Family
    <2>1. QED
      BY <1>3, <1>4, <1>5, FiniteSetsFollow
  <1>7. Sum(A \cup B) = Sum(A) + Sum(B)
    BY <1>6
  <1>8. QED
    BY <1>7 DEF Sum

\* A sum of natural numbers.
LEMMA SumNat ==
    ASSUME NEW S, IsFiniteSet(S), NEW f \in [S -> Nat]
    PROVE  SumFunction(f) \in Nat
  <1> DEFINE Family == {s \in SUBSET S : SumFunction(Restrict(f, s)) \in Nat}
  <1>0. f \in [S -> Int]
    OBVIOUS
  <1>1. {} \in Family
    <2>1. Restrict(f, {}) \in [{} -> Int] /\ IsFiniteSet({})
      BY FS_EmptySet DEF Restrict
    <2>2. SumFunction(Restrict(f, {})) = 0
      BY <2>1, SumLaws
    <2>3. QED
      BY <2>2
  <1>2. ASSUME NEW T \in SUBSET S, NEW x \in S, T \in Family, x \notin T
        PROVE  T \cup {x} \in Family
    <2>1. SumFunction(Restrict(f, T \cup {x})) = f[x] + SumFunction(Restrict(f, T))
      BY <1>0, <1>2, SumAdd
    <2>2. QED
      BY <1>2, <2>1
  <1>3. S \in Family
    <2> HIDE DEF Family
    <2>1. QED
      BY <1>1, <1>2, FiniteSetsFollow
  <1>4. Restrict(f, S) = f
    BY DEF Restrict
  <1>5. QED
    BY <1>3, <1>4

\* It is positive when one of them is.
LEMMA SumPositive ==
    ASSUME NEW S, IsFiniteSet(S), NEW f \in [S -> Nat]
    PROVE  SumFunction(f) > 0 <=> \E x \in S : f[x] > 0
  <1> DEFINE Sum(s) == SumFunction(Restrict(f, s))
             Family == {s \in SUBSET S : (\A x \in s : f[x] = 0) => Sum(s) = 0}
  <1>1. f \in [S -> Int] /\ SumFunction(f) \in Nat
    BY SumNat
  <1>2. ASSUME NEW x \in S, f[x] > 0 PROVE SumFunction(f) > 0
    <2> DEFINE rest == Restrict(f, S \ {x})
    <2>1. rest \in [S \ {x} -> Nat] /\ IsFiniteSet(S \ {x})
      BY FS_Subset DEF Restrict
    <2>2. SumFunction(f) = f[x] + SumFunction(rest)
      BY <1>1, SumLaws
    <2> HIDE DEF rest
    <2>3. SumFunction(rest) \in Nat
      BY <2>1, SumNat
    <2>4. f[x] \in Nat
      OBVIOUS
    <2>5. QED
      BY <1>2, <2>2, <2>3, <2>4
  <1>3. {} \in Family
    <2>1. Restrict(f, {}) \in [{} -> Int] /\ IsFiniteSet({})
      BY FS_EmptySet DEF Restrict
    <2>2. Sum({}) = 0
      BY <2>1, SumLaws
    <2>3. QED
      BY <2>2
  <1>4. \A s \in SUBSET S, x \in S : x \notin s => Sum(s \cup {x}) = f[x] + Sum(s)
    BY <1>1, SumAdds
  <1> HIDE DEF Sum
  <1>5. ASSUME NEW T \in SUBSET S, NEW x \in S, T \in Family, x \notin T
        PROVE  T \cup {x} \in Family
    <2>1. SUFFICES ASSUME \A y \in T \cup {x} : f[y] = 0 PROVE Sum(T \cup {x}) = 0
      BY DEF Family
    <2>2. Sum(T) = 0 /\ f[x] = 0
      BY <1>5, <2>1
    <2>3. QED
      BY <1>4, <1>5, <2>2
  <1>6. S \in Family
    <2> HIDE DEF Family
    <2>1. QED
      BY <1>3, <1>5, FiniteSetsFollow
  <1>7. Restrict(f, S) = f
    BY DEF Restrict
  <1>8. (\A x \in S : f[x] = 0) => SumFunction(f) = 0
    BY <1>6, <1>7 DEF Sum
  <1>9. \A x \in S : f[x] = 0 \/ f[x] > 0
    OBVIOUS
  <1>10. QED
    BY <1>1, <1>2, <1>8, <1>9

\* A sum is the sum of the sums over the classes of its summands.
LEMMA SumByClass ==
    ASSUME NEW S, IsFiniteSet(S), NEW f \in [S -> Int],
           NEW C, IsFiniteSet(C), NEW class \in [S -> C]
    PROVE  SumFunction([c \in C |-> SumFunction(Restrict(f, {x \in S : class[x] = c}))])
             = SumFunction(f)
  <1> DEFINE Sum(s) == SumFunction(Restrict(f, s))
             Of(c) == {x \in S : class[x] = c}
             In(A) == {x \in S : class[x] \in A}
             g == [c \in C |-> Sum(Of(c))]
             Outer(A) == SumFunction(Restrict(g, A))
             Family == {A \in SUBSET C : Outer(A) = Sum(In(A))}
  <1>1. \A s \in SUBSET S : Sum(s) \in Int
    <2>1. ASSUME NEW s \in SUBSET S PROVE Sum(s) \in Int
      <3>1. Restrict(f, s) \in [s -> Int] /\ IsFiniteSet(s)
        BY FS_Subset DEF Restrict
      <3>2. QED
        BY <3>1, SumLaws
    <2>2. QED
      BY <2>1
  <1>2. g \in [C -> Int]
    BY <1>1
  <1>3. Sum({}) = 0 /\ Outer({}) = 0
    <2>1. Restrict(f, {}) \in [{} -> Int] /\ Restrict(g, {}) \in [{} -> Int] /\ IsFiniteSet({})
      BY FS_EmptySet DEF Restrict
    <2>2. QED
      BY <2>1, SumLaws
  <1>4. \A A \in SUBSET S, B \in SUBSET S : A \cap B = {} => Sum(A \cup B) = Sum(A) + Sum(B)
    BY SumUnion
  <1>5. \A A \in SUBSET C, c \in C : c \notin A => Outer(A \cup {c}) = g[c] + Outer(A)
    <2> HIDE DEF g
    <2>1. QED
      BY <1>2, SumAdds
  <1>6. \A c \in C : g[c] = Sum(Of(c))
    OBVIOUS
  <1> HIDE DEF Sum, g, Outer
  <1>7. {} \in Family
    <2>1. In({}) = {}
      OBVIOUS
    <2>2. QED
      BY <1>3, <2>1
  <1>8. ASSUME NEW A \in SUBSET C, NEW c \in C, A \in Family, c \notin A
        PROVE  A \cup {c} \in Family
    <2>1. In(A \cup {c}) = Of(c) \cup In(A) /\ Of(c) \cap In(A) = {}
          /\ Of(c) \in SUBSET S /\ In(A) \in SUBSET S
      BY <1>8
    <2>2. Outer(A) = Sum(In(A))
      BY <1>8
    <2> HIDE DEF Of, In
    <2>3. Sum(In(A \cup {c})) = Sum(Of(c)) + Sum(In(A))
      BY <1>4, <2>1
    <2>4. Outer(A \cup {c}) = Sum(Of(c)) + Sum(In(A))
      BY <1>5, <1>6, <1>8, <2>2
    <2>5. QED
      BY <1>8, <2>3, <2>4
  <1>9. C \in Family
    <2> HIDE DEF Family
    <2>1. QED
      BY <1>7, <1>8, FiniteSetsFollow
  <1>10. In(C) = S /\ Restrict(f, S) = f /\ Restrict(g, C) = g
    BY <1>2 DEF Restrict
  <1>11. Outer(C) = Sum(In(C))
    BY <1>9
  <1>12. SumFunction(g) = SumFunction(f)
    BY <1>10, <1>11, Zenon DEF Outer, Sum
  <1>13. QED
    BY <1>12 DEF g, Sum

\* So is the number of members of a set.
LEMMA CountByClass ==
    ASSUME NEW S, IsFiniteSet(S), NEW C, IsFiniteSet(C), NEW class \in [S -> C]
    PROVE  SumFunction([c \in C |-> Cardinality({x \in S : class[x] = c})]) = Cardinality(S)
  <1> DEFINE Of(c) == {x \in S : class[x] = c}
             In(A) == {x \in S : class[x] \in A}
             g == [c \in C |-> Cardinality(Of(c))]
             Outer(A) == SumFunction(Restrict(g, A))
             Family == {A \in SUBSET C : Outer(A) = Cardinality(In(A))}
  <1>1. \A s \in SUBSET S : IsFiniteSet(s) /\ Cardinality(s) \in Nat
    BY FS_Subset, FS_CardinalityType
  <1>2. g \in [C -> Int]
    BY <1>1
  <1>3. Outer({}) = 0 /\ Cardinality({}) = 0
    <2>1. Restrict(g, {}) \in [{} -> Int] /\ IsFiniteSet({}) /\ Cardinality({}) = 0
      BY FS_EmptySet DEF Restrict
    <2>2. QED
      BY <2>1, SumLaws
  <1>5. \A A \in SUBSET C, c \in C : c \notin A => Outer(A \cup {c}) = g[c] + Outer(A)
    <2> HIDE DEF g
    <2>1. QED
      BY <1>2, SumAdds
  <1>6. \A c \in C : g[c] = Cardinality(Of(c))
    OBVIOUS
  <1> HIDE DEF g, Outer
  <1>7. {} \in Family
    <2>1. In({}) = {}
      OBVIOUS
    <2>2. QED
      BY <1>3, <2>1
  <1>8. ASSUME NEW A \in SUBSET C, NEW c \in C, A \in Family, c \notin A
        PROVE  A \cup {c} \in Family
    <2>1. In(A \cup {c}) = Of(c) \cup In(A) /\ Of(c) \cap In(A) = {}
          /\ Of(c) \in SUBSET S /\ In(A) \in SUBSET S
      BY <1>8
    <2>2. Outer(A) = Cardinality(In(A))
      BY <1>8
    <2> HIDE DEF Of, In
    <2>3. Cardinality(In(A \cup {c})) = Cardinality(Of(c)) + Cardinality(In(A))
      <3>1. IsFiniteSet(Of(c)) /\ IsFiniteSet(In(A))
            /\ Cardinality(Of(c)) \in Nat /\ Cardinality(In(A)) \in Nat
        BY <1>1, <2>1
      <3>4. Cardinality(Of(c) \cup In(A)) = Cardinality(Of(c)) + Cardinality(In(A))
        BY <2>1, <3>1, DisjointNumber
      <3>5. QED
        BY <2>1, <3>4, Zenon
    <2>4. Outer(A \cup {c}) = Cardinality(Of(c)) + Cardinality(In(A))
      BY <1>5, <1>6, <1>8, <2>2
    <2>5. QED
      BY <1>8, <2>3, <2>4
  <1>9. C \in Family
    <2> HIDE DEF Family
    <2>1. QED
      BY <1>7, <1>8, FiniteSetsFollow
  <1>10. In(C) = S /\ Restrict(g, C) = g
    BY <1>2 DEF Restrict
  <1>11. Outer(C) = Cardinality(In(C))
    BY <1>9
  <1>12. SumFunction(g) = Cardinality(S)
    BY <1>10, <1>11, Zenon DEF Outer
  <1>13. QED
    BY <1>12 DEF g

\* Pairs may be counted by their first or by their second members.
ByFirst(A, B, P) == [a \in A |-> Cardinality({b \in B : <<a, b>> \in P})]
BySecond(A, B, P) == [b \in B |-> Cardinality({a \in A : <<a, b>> \in P})]

LEMMA PairsCountedTwice ==
    ASSUME NEW A, IsFiniteSet(A), NEW B, IsFiniteSet(B), NEW P \in SUBSET (A \X B)
    PROVE  SumFunction(ByFirst(A, B, P)) = SumFunction(BySecond(A, B, P))
  <1>1. IsFiniteSet(P) /\ \A T \in SUBSET P : IsFiniteSet(T)
    BY FS_Product, FS_Subset
  <1>2. ASSUME NEW a \in A
        PROVE  Cardinality({b \in B : <<a, b>> \in P}) = Cardinality({p \in P : p[1] = a})
    <2> DEFINE S == {p \in P : p[1] = a}
               T == {b \in B : <<a, b>> \in P}
               f == [p \in S |-> p[2]]
    <2>1. \A p \in S : p = <<a, p[2]>> /\ p[2] \in T
      OBVIOUS
    <2>2. \A b \in T : <<a, b>> \in S
      OBVIOUS
    <2>3. f \in [S -> T] /\ \A p \in S : f[p] = p[2]
      BY <2>1
    <2>4. IsFiniteSet(S)
      BY <1>1
    <2> HIDE DEF S, T, f
    <2>5. \A p, q \in S : f[p] = f[q] => p = q
      BY <2>1, <2>3
    <2>6. \A b \in T : \E p \in S : f[p] = b
      <3>1. ASSUME NEW b \in T PROVE f[<<a, b>>] = b
        BY <2>2, <2>3
      <3>2. QED
        BY <2>2, <3>1
    <2>7. Cardinality(T) = Cardinality(S)
      BY <2>3, <2>4, <2>5, <2>6, SameNumber
    <2>8. QED
      BY <2>7 DEF S, T
  <1>3. ASSUME NEW b \in B
        PROVE  Cardinality({a \in A : <<a, b>> \in P}) = Cardinality({p \in P : p[2] = b})
    <2> DEFINE S == {p \in P : p[2] = b}
               T == {a \in A : <<a, b>> \in P}
               f == [p \in S |-> p[1]]
    <2>1. \A p \in S : p = <<p[1], b>> /\ p[1] \in T
      OBVIOUS
    <2>2. \A a \in T : <<a, b>> \in S
      OBVIOUS
    <2>3. f \in [S -> T] /\ \A p \in S : f[p] = p[1]
      BY <2>1
    <2>4. IsFiniteSet(S)
      BY <1>1
    <2> HIDE DEF S, T, f
    <2>5. \A p, q \in S : f[p] = f[q] => p = q
      BY <2>1, <2>3
    <2>6. \A a \in T : \E p \in S : f[p] = a
      <3>1. ASSUME NEW a \in T PROVE f[<<a, b>>] = a
        BY <2>2, <2>3
      <3>2. QED
        BY <2>2, <3>1
    <2>7. Cardinality(T) = Cardinality(S)
      BY <2>3, <2>4, <2>5, <2>6, SameNumber
    <2>8. QED
      BY <2>7 DEF S, T
  <1>4. SumFunction([a \in A |-> Cardinality({p \in P : p[1] = a})]) = Cardinality(P)
    <2> DEFINE first == [p \in P |-> p[1]]
    <2>1. first \in [P -> A] /\ \A p \in P : first[p] = p[1]
      OBVIOUS
    <2> HIDE DEF first
    <2>2. SumFunction([a \in A |-> Cardinality({p \in P : first[p] = a})]) = Cardinality(P)
      BY <1>1, <2>1, CountByClass
    <2>3. \A a \in A : {p \in P : first[p] = a} = {p \in P : p[1] = a}
      BY <2>1
    <2>4. [a \in A |-> Cardinality({p \in P : first[p] = a})]
            = [a \in A |-> Cardinality({p \in P : p[1] = a})]
      BY <2>3
    <2>5. QED
      BY <2>2, <2>4, Zenon
  <1>5. SumFunction([b \in B |-> Cardinality({p \in P : p[2] = b})]) = Cardinality(P)
    <2> DEFINE second == [p \in P |-> p[2]]
    <2>1. second \in [P -> B] /\ \A p \in P : second[p] = p[2]
      OBVIOUS
    <2> HIDE DEF second
    <2>2. SumFunction([b \in B |-> Cardinality({p \in P : second[p] = b})]) = Cardinality(P)
      BY <1>1, <2>1, CountByClass
    <2>3. \A b \in B : {p \in P : second[p] = b} = {p \in P : p[2] = b}
      BY <2>1
    <2>4. [b \in B |-> Cardinality({p \in P : second[p] = b})]
            = [b \in B |-> Cardinality({p \in P : p[2] = b})]
      BY <2>3
    <2>5. QED
      BY <2>2, <2>4, Zenon
  <1>6. /\ ByFirst(A, B, P) = [a \in A |-> Cardinality({p \in P : p[1] = a})]
        /\ BySecond(A, B, P) = [b \in B |-> Cardinality({p \in P : p[2] = b})]
    BY <1>2, <1>3 DEF ByFirst, BySecond
  <1>7. QED
    BY <1>4, <1>5, <1>6, Zenon

\* The sum of the differences of successive numbers.
LEMMA SumTelescopes ==
    ASSUME NEW n \in Nat, NEW f \in [1..n -> Int], NEW g \in [0..n -> Int], g[0] = 0,
           \A i \in 1..n : f[i] = g[i] - g[i - 1]
    PROVE  SumFunction(f) = g[n]
  <1> DEFINE Family == {k \in 0..n : SumFunction(Restrict(f, 1..k)) = g[k]}
  <1>0. IsFiniteSet(1..n)
    BY FS_Interval
  <1>a. \A A \in SUBSET (1..n), x \in 1..n : x \notin A =>
           SumFunction(Restrict(f, A \cup {x})) = f[x] + SumFunction(Restrict(f, A))
    BY <1>0, SumAdds
  <1>1. 0 \in Family
    <2>1. 1..0 = {}
      OBVIOUS
    <2>2. Restrict(f, {}) \in [{} -> Int] /\ IsFiniteSet({})
      BY FS_EmptySet DEF Restrict
    <2>3. SumFunction(Restrict(f, {})) = 0
      BY <2>2, SumLaws
    <2>4. QED
      BY <2>1, <2>3
  <1>2. ASSUME NEW k \in 0..n, k \in Family, k < n PROVE k + 1 \in Family
    <2>0. k \in Nat /\ k < n
      BY <1>2
    <2>1. /\ 1..k \in SUBSET (1..n)
          /\ k + 1 \in (1..n) \ (1..k)
          /\ 1..(k + 1) = (1..k) \cup {k + 1}
      <3>1. 1..k \in SUBSET (1..n) /\ k + 1 \in (1..n) \ (1..k)
        BY <2>0
      <3>2. \A j : j \in 1..(k + 1) <=> j \in (1..k) \cup {k + 1}
        BY <2>0
      <3>3. QED
        BY <3>1, <3>2
    <2>2. SumFunction(Restrict(f, (1..k) \cup {k + 1})) = f[k + 1] + SumFunction(Restrict(f, 1..k))
      BY <1>a, <2>1
    <2>3. f[k + 1] = g[k + 1] - g[k] /\ g[k] \in Int /\ g[k + 1] \in Int /\ k + 1 \in 0..n
      <3>1. k + 1 \in 1..n /\ (k + 1) - 1 = k /\ k + 1 \in 0..n /\ k \in 0..n
        BY <2>0
      <3>2. QED
        BY <3>1
    <2>4. SumFunction(Restrict(f, 1..k)) = g[k]
      BY <1>2
    <2>5. SumFunction(Restrict(f, 1..(k + 1))) = g[k + 1]
      <3>1. SumFunction(Restrict(f, 1..(k + 1))) = SumFunction(Restrict(f, (1..k) \cup {k + 1}))
        BY <2>1, Zenon
      <3>2. SumFunction(Restrict(f, (1..k) \cup {k + 1})) = f[k + 1] + g[k]
        BY <2>2, <2>4, Zenon
      <3>3. QED
        BY <2>3, <3>1, <3>2
    <2>6. QED
      BY <2>3, <2>5
  <1>3. n \in Family
    <2> HIDE DEF Family
    <2>1. \A k \in 0..n : k \in Family
      BY <1>1, <1>2, IntervalFollows
    <2>2. QED
      BY <2>1
  <1>4. Restrict(f, 1..n) = f
    BY DEF Restrict
  <1>5. QED
    BY <1>3, <1>4

\* Before orders S: it is transitive, and of two members one is before the other.
TotallyOrders(Before, S) ==
    /\ \A x, y \in S : x # y => <<x, y>> \in Before \/ <<y, x>> \in Before
    /\ \A x, y, z \in S : <<x, y>> \in Before /\ <<y, z>> \in Before => <<x, z>> \in Before

LEMMA LastExists ==
    ASSUME NEW S, IsFiniteSet(S), S # {}, NEW Before, TotallyOrders(Before, S)
    PROVE  \E x \in S : \A y \in S : y # x => <<y, x>> \in Before
  <1> DEFINE IsLast(x, T) == \A y \in T : y # x => <<y, x>> \in Before
             Family == {T \in SUBSET S : T # {} => \E x \in T : IsLast(x, T)}
  <1>1. {} \in Family
    OBVIOUS
  <1>2. ASSUME NEW T \in SUBSET S, NEW x \in S, T \in Family, x \notin T
        PROVE  T \cup {x} \in Family
    <2>1. CASE T = {}
      <3>1. IsLast(x, T \cup {x})
        BY <2>1
      <3>2. QED
        BY <3>1
    <2>2. CASE T # {}
      <3>1. PICK m \in T : IsLast(m, T)
        BY <1>2, <2>2
      <3>2. CASE <<x, m>> \in Before
        <4>1. IsLast(m, T \cup {x})
          BY <3>1, <3>2
        <4>2. QED
          BY <4>1
      <3>3. CASE <<m, x>> \in Before
        <4>1. ASSUME NEW y \in T \cup {x}, y # x PROVE <<y, x>> \in Before
          <5>1. CASE y = m
            BY <3>3, <5>1
          <5>2. CASE y # m
            <6>1. y \in S /\ m \in S /\ x \in S /\ <<y, m>> \in Before
              BY <3>1, <4>1, <5>2
            <6>2. QED
              BY <3>3, <6>1 DEF TotallyOrders
          <5>3. QED
            BY <5>1, <5>2
        <4>2. IsLast(x, T \cup {x})
          BY <4>1
        <4>3. QED
          BY <4>2
      <3>4. <<x, m>> \in Before \/ <<m, x>> \in Before
        <4>1. x \in S /\ m \in S /\ x # m
          BY <1>2
        <4>2. QED
          BY <4>1 DEF TotallyOrders
      <3>5. QED
        BY <3>2, <3>3, <3>4
    <2>3. QED
      BY <2>1, <2>2
  <1>3. S \in Family
    <2> HIDE DEF Family
    <2>1. QED
      BY <1>1, <1>2, FiniteSetsFollow
  <1>4. QED
    BY <1>3

\* The members of a finite set, each in its place.
Sorts(order, S, Before) ==
    /\ order \in [1..Cardinality(S) -> S]
    /\ \A i, j \in 1..Cardinality(S) : i < j => <<order[i], order[j]>> \in Before

LEMMA OrderExists ==
    ASSUME NEW S, IsFiniteSet(S), NEW Before, TotallyOrders(Before, S)
    PROVE  \E order : Sorts(order, S, Before)
  <1> DEFINE Family == {T \in SUBSET S : \E order : Sorts(order, T, Before)}
  <1>1. ASSUME NEW T \in SUBSET S, \A U \in SUBSET T : U # T => U \in Family
        PROVE  T \in Family
    <2>0. IsFiniteSet(T) /\ Cardinality(T) \in Nat
      BY FS_Subset, FS_CardinalityType
    <2>1. CASE T = {}
      <3>1. Cardinality(T) = 0
        BY <2>1, FS_EmptySet
      <3>2. Sorts([i \in 1..0 |-> i], T, Before)
        BY <2>1, <3>1 DEF Sorts
      <3>3. QED
        BY <3>2
    <2>2. CASE T # {}
      <3>1. TotallyOrders(Before, T)
        BY DEF TotallyOrders
      <3>2. PICK m \in T : \A y \in T : y # m => <<y, m>> \in Before
        BY <2>0, <2>2, <3>1, LastExists
      <3> DEFINE rest == T \ {m}
                 n == Cardinality(rest)
      <3>3. rest \in Family
        BY <1>1, <3>2
      <3>4. PICK order : Sorts(order, rest, Before)
        BY <3>3
      <3>5. n \in Nat /\ Cardinality(T) = n + 1
        <4>1. IsFiniteSet(rest) /\ rest \in SUBSET T
          BY <2>0, FS_Subset
        <4>2. n \in Nat
          BY <4>1, FS_CardinalityType
        <4>3. n = Cardinality(T) - 1
          BY <2>0, <3>2, FS_RemoveElement
        <4>4. QED
          BY <2>0, <4>2, <4>3
      <3> DEFINE all == [i \in 1..(n + 1) |-> IF i = n + 1 THEN m ELSE order[i]]
      <3>6. order \in [1..n -> rest] /\ \A i, j \in 1..n : i < j => <<order[i], order[j]>> \in Before
        BY <3>4 DEF Sorts
      <3> HIDE DEF n
      <3>7. \A i \in 1..(n + 1) : i # n + 1 => i \in 1..n /\ order[i] \in rest /\ all[i] = order[i]
        BY <3>5, <3>6
      <3>8. all[n + 1] = m /\ rest \in SUBSET T /\ \A y \in rest : y # m /\ y \in T
        BY <3>5
      <3>9. all \in [1..(n + 1) -> T]
        BY <3>2, <3>7, <3>8
      <3>10. ASSUME NEW i \in 1..(n + 1), NEW j \in 1..(n + 1), i < j
             PROVE  <<all[i], all[j]>> \in Before
        <4>1. i # n + 1 /\ i \in 1..n /\ all[i] = order[i] /\ order[i] \in rest
          BY <3>5, <3>7, <3>10
        <4>2. CASE j = n + 1
          <5>1. all[j] = m /\ all[i] \in T /\ all[i] # m
            BY <3>8, <4>1, <4>2
          <5>2. QED
            BY <3>2, <5>1
        <4>3. CASE j # n + 1
          BY <3>6, <3>7, <3>10, <4>1, <4>3
        <4>4. QED
          BY <4>2, <4>3
      <3> HIDE DEF all
      <3>11. Sorts(all, T, Before)
        BY <3>5, <3>9, <3>10 DEF Sorts
      <3>12. QED
        BY <3>11
    <2>3. QED
      BY <2>1, <2>2
  <1>2. \A T \in SUBSET S : T \in Family
    <2> HIDE DEF Family
    <2>1. QED
      BY <1>1, PartsFollow
  <1>3. QED
    BY <1>2

\* The members that a sequence without repetitions has before a place are as many as the
\* places.
LEMMA PlacesBefore ==
    ASSUME NEW n \in Nat, NEW S, NEW f \in Injection(1..n, S), NEW i \in 1..n
    PROVE  Cardinality({f[j] : j \in 1..(i - 1)}) = i - 1
  <1> DEFINE T == {f[j] : j \in 1..(i - 1)}
             g == [j \in 1..(i - 1) |-> f[j]]
  <1>1. /\ f \in [1..n -> S]
        /\ \A j, k \in 1..n : f[j] = f[k] => j = k
    BY DEF Injection, IsInjective
  <1>2. i - 1 \in Nat /\ \A j \in 1..(i - 1) : j \in 1..n
    OBVIOUS
  <1>3. g \in [1..(i - 1) -> T] /\ \A t \in T : \E j \in 1..(i - 1) : g[j] = t
    OBVIOUS
  <1>4. \A j, k \in 1..(i - 1) : g[j] = g[k] => j = k
    BY <1>1, <1>2
  <1>5. g \in Bijection(1..(i - 1), T)
    BY <1>3, <1>4 DEF Bijection, Injection, Surjection, IsInjective
  <1>6. ExistsBijection(1..(i - 1), T)
    BY <1>5, Zenon DEF ExistsBijection
  <1>7. QED
    BY <1>2, <1>6, FS_CountingElements

\* Each number below the cardinality of an ordered set is the rank of one of its members.
LEMMA RanksExist ==
    ASSUME NEW S, IsFiniteSet(S), NEW Before, TotallyOrders(Before, S),
           \A x, y \in S : <<x, y>> \in Before => <<y, x>> \notin Before
    PROVE  \A i \in 1..Cardinality(S) :
              \E x \in S : Cardinality({y \in S : <<y, x>> \in Before}) = i - 1
  <1> DEFINE n == Cardinality(S)
  <1>0. n \in Nat
    BY FS_CardinalityType
  <1>1. PICK order : Sorts(order, S, Before)
    BY OrderExists
  <1> HIDE DEF n
  <1>2. /\ order \in [1..n -> S]
        /\ \A i, j \in 1..n : i < j => <<order[i], order[j]>> \in Before
    BY <1>1 DEF Sorts, n
  <1>3. ASSUME NEW i \in 1..n, NEW j \in 1..n, order[i] = order[j], i # j
        PROVE  FALSE
    <2>1. i < j \/ j < i
      BY <1>0, <1>3
    <2>2. order[i] \in S /\ order[j] \in S
      BY <1>2
    <2>3. QED
      BY <1>2, <1>3, <2>1, <2>2
  <1>4. order \in Injection(1..n, S)
    BY <1>2, <1>3 DEF Injection, IsInjective
  <1>5. order \in Surjection(1..n, S)
    <2>1. Cardinality(1..n) = n
      BY <1>0, FS_Interval
    <2>2. QED
      BY <1>4, <2>1, FS_Injection DEF n
  <1>6. \A x \in S : \E j \in 1..n : order[j] = x
    BY <1>5 DEF Surjection
  <1>7. ASSUME NEW i \in 1..n
        PROVE  \E x \in S : Cardinality({y \in S : <<y, x>> \in Before}) = i - 1
    <2>1. order[i] \in S
      BY <1>2
    <2>2. ASSUME NEW y \in S, <<y, order[i]>> \in Before
          PROVE  y \in {order[j] : j \in 1..(i - 1)}
      <3>1. PICK k \in 1..n : order[k] = y
        BY <1>6
      <3>2. ~(i < k) /\ i # k
        BY <1>2, <2>1, <2>2, <3>1
      <3>3. k \in 1..(i - 1)
        BY <1>0, <3>2
      <3>4. QED
        BY <3>1, <3>3
    <2>3. ASSUME NEW j \in 1..(i - 1)
          PROVE  order[j] \in S /\ <<order[j], order[i]>> \in Before
      BY <1>0, <1>2
    <2>4. {y \in S : <<y, order[i]>> \in Before} = {order[j] : j \in 1..(i - 1)}
      BY <2>2, <2>3
    <2>5. Cardinality({order[j] : j \in 1..(i - 1)}) = i - 1
      BY <1>0, <1>4, PlacesBefore
    <2>6. QED
      BY <2>1, <2>4, <2>5
  <1>8. QED
    BY <1>7 DEF n

\* The sequences of a sequence, one after the other, are a sequence of their members.
LEMMA FlattenedType ==
    ASSUME NEW T, NEW seqs \in Seq(Seq(T))
    PROVE  FlattenSeq(seqs) \in Seq(T)
  <1> DEFINE IsFlat(h) == h = [i \in 1..Len(seqs) |->
                                 IF i = 1 THEN seqs[i] ELSE h[i - 1] \o seqs[i]]
  <1>1. CASE Len(seqs) = 0
    BY <1>1 DEF FlattenSeq
  <1>2. CASE Len(seqs) # 0
    <2>0. Len(seqs) \in Nat \ {0}
      BY <1>2
    <2> DEFINE n == Len(seqs) - 1
               Add == [i \in 1..n |-> [s \in Seq(T) |-> s \o seqs[i + 1]]]
    <2>1. seqs[1] \in Seq(T) /\ n \in Nat /\ \A i \in 1..n : i + 1 \in 1..Len(seqs) /\ seqs[i + 1] \in Seq(T)
      BY <2>0
    <2>2. Add \in [1..n -> [Seq(T) -> Seq(T)]]
      <3>1. ASSUME NEW i \in 1..n PROVE [s \in Seq(T) |-> s \o seqs[i + 1]] \in [Seq(T) -> Seq(T)]
        <4>1. seqs[i + 1] \in Seq(T)
          BY <2>1
        <4>2. \A s \in Seq(T) : s \o seqs[i + 1] \in Seq(T)
          BY <4>1
        <4>3. QED
          BY <4>2
      <3>2. QED
        BY <3>1
    <2>3. \A i \in 1..n, s \in Seq(T) : Add[i][s] = s \o seqs[i + 1]
      OBVIOUS
    <2> HIDE DEF n, Add
    <2>4. PICK rec : IsRecursive(rec, Seq(T), seqs[1], n, Add)
      BY <2>1, <2>2, RecursionExists, Zenon
    <2> DEFINE h0 == [i \in 1..Len(seqs) |-> rec[i - 1]]
    <2>5. Len(seqs) = n + 1
      BY <2>0 DEF n
    <2>6. ASSUME NEW i \in 1..Len(seqs)
          PROVE  h0[i] = IF i = 1 THEN seqs[i] ELSE h0[i - 1] \o seqs[i]
      <3>1. CASE i = 1
        BY <2>4, <3>1 DEF IsRecursive
      <3>2. CASE i # 1
        <4>1. i - 1 \in 1..n /\ (i - 1) + 1 = i /\ (i - 1) - 1 \in 0..n /\ i - 1 \in 1..Len(seqs)
          BY <2>1, <2>5, <3>2
        <4>2. rec[i - 1] = Add[i - 1][rec[(i - 1) - 1]] /\ rec[(i - 1) - 1] \in Seq(T)
          BY <2>4, <4>1 DEF IsRecursive
        <4>3. rec[i - 1] = rec[(i - 1) - 1] \o seqs[i]
          BY <2>3, <4>1, <4>2
        <4>4. QED
          BY <3>2, <4>1, <4>3
      <3>3. QED
        BY <3>1, <3>2
    <2>7. IsFlat(h0)
      BY <2>6
    <2> DEFINE flat == CHOOSE h : IsFlat(h)
    <2>8. IsFlat(flat)
      <3>1. \E h : IsFlat(h)
        BY <2>7
      <3> HIDE DEF IsFlat
      <3>2. QED
        BY <3>1
    <2>9. FlattenSeq(seqs) = flat[Len(seqs)]
      BY <2>0 DEF FlattenSeq
    <2> HIDE DEF flat
    <2> DEFINE typed == {i \in 0..n : flat[i + 1] \in Seq(T)}
    <2>10. 0 \in typed
      <3>1. 1 \in 1..Len(seqs) /\ 0 \in 0..n
        BY <2>0, <2>1
      <3>2. flat[1] = seqs[1]
        BY <2>8, <3>1
      <3>3. QED
        BY <2>1, <3>1, <3>2
    <2>11. ASSUME NEW i \in 0..n, i \in typed, i < n PROVE i + 1 \in typed
      <3>1. i + 1 \in 1..n /\ i + 1 \in 0..n /\ (i + 1) + 1 \in 1..Len(seqs) /\ ((i + 1) + 1) - 1 = i + 1
            /\ (i + 1) + 1 # 1
        BY <2>1, <2>5, <2>11
      <3>2. flat[(i + 1) + 1] = flat[i + 1] \o seqs[(i + 1) + 1]
        BY <2>8, <3>1
      <3>3. flat[i + 1] \in Seq(T) /\ seqs[(i + 1) + 1] \in Seq(T)
        BY <2>1, <2>11, <3>1
      <3>4. QED
        <4>1. flat[(i + 1) + 1] \in Seq(T)
          <5>1. \A s, t \in Seq(T) : s \o t \in Seq(T)
            OBVIOUS
          <5>2. QED
            BY <3>2, <3>3, <5>1, Zenon
        <4>2. QED
          BY <3>1, <4>1
    <2>12. \A i \in 0..n : i \in typed
      <3> HIDE DEF typed
      <3>1. QED
        BY <2>1, <2>10, <2>11, IntervalFollows
    <2>13. n \in 0..n
      BY <2>1
    <2>14. QED
      BY <2>5, <2>9, <2>12, <2>13
  <1>3. QED
    BY <1>1, <1>2

=============================================================================

--------------------------- MODULE TrainerProofs ----------------------------
(***************************************************************************)
(* The dictionary trainer for every corpus, dmer and segment length and    *)
(* size: the sliding search of a round is exact, the segments it picks lie *)
(* in one sample and add coverage, and the dictionary fits.                *)
(***************************************************************************)
EXTENDS Trainer, DataLemmas, FiniteSetTheorems

-----------------------------------------------------------------------------
(* Folding over a finite set.                                              *)

(* F folds g over the subsets of U, taking the element c[t] out of t.      *)
Folded(F, U, base, c, g) ==
  \A t \in SUBSET U : F[t] = IF t = {} THEN base ELSE g[<<c[t], F[t \ {c[t]}]>>]
Picks(c, U) == \A t \in SUBSET U : t # {} => c[t] \in t

(* Taking an element out of a finite set.                                  *)
LEMMA TakeOut ==
  ASSUME NEW U, IsFiniteSet(U), NEW t \in SUBSET U, NEW x \in t
  PROVE  /\ t \ {x} \in SUBSET U /\ Cardinality(t) \in Nat /\ Cardinality(t) # 0
         /\ Cardinality(t \ {x}) = Cardinality(t) - 1
         /\ Cardinality(t) <= Cardinality(U) /\ Cardinality(U) \in Nat
<1>1. IsFiniteSet(t) /\ Cardinality(t) <= Cardinality(U)
  BY FS_Subset
<1>2. Cardinality(t) \in Nat /\ Cardinality(U) \in Nat
  BY <1>1, FS_CardinalityType
<1>3. Cardinality(t) # 0
  BY <1>1, FS_EmptySet
<1>4. Cardinality(t \ {x}) = Cardinality(t) - 1
  BY <1>1, FS_RemoveElement
<1> QED BY <1>1, <1>2, <1>3, <1>4

(* A step and a base define a fold.                                        *)
LEMMA SetRecursion ==
  ASSUME NEW U, IsFiniteSet(U), NEW V, NEW base \in V, NEW c, Picks(c, U),
         NEW g \in [U \X V -> V]
  PROVE  \E F \in [SUBSET U -> V] : Folded(F, U, base, c, g)
<1> DEFINE N == Cardinality(U)
           P == [SUBSET U -> V]
           Step(f) == [t \in SUBSET U |-> IF t = {} THEN base ELSE g[<<c[t], f[t \ {c[t]}]>>]]
           step == [p \in (1..(N + 1)) \X P |-> Step(p[2])]
           none == [t \in SUBSET U |-> base]
<1>1. N \in Nat /\ N + 1 \in Nat
  BY FS_CardinalityType
<1>2. ASSUME NEW f \in P
      PROVE  Step(f) \in P
  <2>1. ASSUME NEW t \in SUBSET U, t # {}
        PROVE  g[<<c[t], f[t \ {c[t]}]>>] \in V
    <3>1. c[t] \in U /\ t \ {c[t]} \in SUBSET U
      BY <2>1, Zenon DEF Picks
    <3>2. <<c[t], f[t \ {c[t]}]>> \in U \X V
      BY <3>1, Zenon
    <3> QED BY <3>2, Zenon
  <2> QED BY <2>1, Zenon
<1>3. step \in [(1..(N + 1)) \X P -> P] /\ none \in P
  <2> HIDE DEF N, P
  <2>1. none \in P
    BY Zenon DEF P
  <2> HIDE DEF Step
  <2>2. \A p \in (1..(N + 1)) \X P : Step(p[2]) \in P
    BY <1>2
  <2> QED BY <2>1, <2>2
<1>4. PICK s \in [0..(N + 1) -> P] : Iterates(s, N + 1, none, step)
  <2> HIDE DEF N, P, none, step
  <2> QED BY <1>1, <1>3, Recursion, Zenon
<1>5. ASSUME NEW i \in 1..(N + 1)
      PROVE  s[i] = Step(s[i - 1]) /\ i \in 0..(N + 1) /\ i - 1 \in 0..(N + 1)
  <2>1. i \in 0..(N + 1) /\ i - 1 \in 0..(N + 1)
    BY <1>1
  <2>2. s[i] = step[<<i, s[i - 1]>>]
    BY <1>4, Zenon DEF Iterates
  <2>3. <<i, s[i - 1]>> \in (1..(N + 1)) \X P
    <3> HIDE DEF N, P
    <3> QED BY <1>4, <2>1, Zenon
  <2>4. step[<<i, s[i - 1]>>] = Step(s[i - 1])
    <3> HIDE DEF N, P, Step
    <3> QED BY <2>3
  <2> HIDE DEF Step, step, N
  <2> QED BY <2>1, <2>2, <2>4, Zenon
<1>6. s[0] = none
  BY <1>4, Zenon DEF Iterates
<1> DEFINE T == {n \in 0..N : \A t \in SUBSET U : Cardinality(t) <= n => s[n + 1][t] = s[n][t]}
<1>7. \A i \in 1..(N + 1), t \in SUBSET U :
         s[i][t] = IF t = {} THEN base ELSE g[<<c[t], s[i - 1][t \ {c[t]}]>>]
  <2> TAKE i \in 1..(N + 1), t \in SUBSET U
  <2>1. s[i] = Step(s[i - 1])
    BY <1>5
  <2>2. Step(s[i - 1])[t] = IF t = {} THEN base ELSE g[<<c[t], s[i - 1][t \ {c[t]}]>>]
    OBVIOUS
  <2> HIDE DEF Step, N
  <2> QED BY <2>1, <2>2, Zenon
<1>8. 0 \in T
  <2>1. 0 \in 0..N /\ 0 + 1 = 1 /\ 1 \in 1..(N + 1)
    BY <1>1
  <2>2. ASSUME NEW t \in SUBSET U, Cardinality(t) <= 0
        PROVE  s[1][t] = s[0][t]
    <3>1. IsFiniteSet(t)
      BY FS_Subset
    <3>2. Cardinality(t) = 0
      BY <2>2, <3>1, FS_CardinalityType
    <3>3. t = {}
      BY <3>1, <3>2, FS_EmptySet, Zenon
    <3>4. s[1][t] = base
      BY <1>7, <2>1, <3>3, Zenon
    <3> QED BY <1>6, <3>4, Zenon
  <2> QED BY <2>1, <2>2
<1>9. ASSUME NEW n \in 1..N, n - 1 \in T
      PROVE  n \in T
  <2>1. /\ n \in 0..N /\ n \in 1..(N + 1) /\ n + 1 \in 1..(N + 1) /\ (n + 1) - 1 = n
        /\ (n - 1) + 1 = n /\ n \in Nat
    BY <1>1
  <2>2. ASSUME NEW t \in SUBSET U, Cardinality(t) <= n
        PROVE  s[n + 1][t] = s[n][t]
    <3>1. CASE t = {}
      BY <1>7, <2>1, <3>1, Zenon
    <3>2. CASE t # {}
      <4> DEFINE u == t \ {c[t]}
      <4>1. c[t] \in t
        BY <3>2, Zenon DEF Picks
      <4>2. u \in SUBSET U /\ Cardinality(u) = Cardinality(t) - 1 /\ Cardinality(t) \in Nat
        <5> DEFINE x == c[t]
        <5>1. x \in t
          BY <4>1
        <5> HIDE DEF x
        <5>2. /\ t \ {x} \in SUBSET U /\ Cardinality(t \ {x}) = Cardinality(t) - 1
              /\ Cardinality(t) \in Nat
          BY <5>1, TakeOut, SMTT(30)
        <5> QED BY <5>2 DEF x
      <4>3. Cardinality(u) <= n - 1
        BY <2>1, <2>2, <4>2
      <4>4. s[n][u] = s[n - 1][u]
        <5>1. s[(n - 1) + 1][u] = s[n - 1][u]
          <6> HIDE DEF u
          <6> QED BY <1>9, <4>2, <4>3, Zenon
        <5> QED BY <2>1, <5>1, Zenon
      <4>5. s[n + 1][t] = g[<<c[t], s[n][u]>>]
        <5>1. s[n + 1][t] = IF t = {} THEN base
                            ELSE g[<<c[t], s[(n + 1) - 1][t \ {c[t]}]>>]
          BY <1>7, <2>1, Zenon
        <5> QED BY <2>1, <3>2, <5>1, Zenon
      <4>6. s[n][t] = g[<<c[t], s[n - 1][u]>>]
        BY <1>7, <2>1, <3>2, Zenon
      <4> QED BY <4>4, <4>5, <4>6, Zenon
    <3> QED BY <3>1, <3>2, Zenon
  <2> QED BY <2>1, <2>2, Zenon
<1>10. 0..N \subseteq T
  <2> HIDE DEF T, N
  <2> QED BY <1>1, <1>8, <1>9, UpTo, Zenon
<1>11. ASSUME NEW t \in SUBSET U
       PROVE  s[N + 1][t] = s[N][t]
  <2>1. N \in T
    <3>1. N \in 0..N
      BY <1>1
    <3> HIDE DEF T, N
    <3> QED BY <1>10, <3>1, Zenon
  <2>2. Cardinality(t) <= N
    BY FS_Subset
  <2> HIDE DEF N
  <2> QED BY <2>1, <2>2, Zenon
<1>12. N + 1 \in 1..(N + 1) /\ (N + 1) - 1 = N /\ N \in 0..(N + 1)
  BY <1>1
<1>13. s[N] \in [SUBSET U -> V]
  <2> HIDE DEF N
  <2> QED BY <1>4, <1>12, Zenon
<1>14. ASSUME NEW t \in SUBSET U
       PROVE  s[N][t] = IF t = {} THEN base ELSE g[<<c[t], s[N][t \ {c[t]}]>>]
  <2> HIDE DEF N
  <2>1. s[N + 1][t] = IF t = {} THEN base ELSE g[<<c[t], s[(N + 1) - 1][t \ {c[t]}]>>]
    BY <1>7, <1>12, Zenon
  <2> QED BY <1>11, <1>12, <2>1, Zenon
<1> QED BY <1>13, <1>14, Zenon DEF Folded

(* Induction over the subsets of a finite set.                             *)
LEMMA SubsetInduction ==
  ASSUME NEW U, IsFiniteSet(U), NEW Good, {} \in Good,
         \A t \in SUBSET U : t # {} /\ (\A x \in t : t \ {x} \in Good) => t \in Good
  PROVE  SUBSET U \subseteq Good
<1> DEFINE N == Cardinality(U)
           T == {n \in 0..N : \A t \in SUBSET U : Cardinality(t) <= n => t \in Good}
<1>1. N \in Nat
  BY FS_CardinalityType
<1>2. 0 \in T
  <2>1. 0 \in 0..N
    BY <1>1
  <2>2. ASSUME NEW t \in SUBSET U, Cardinality(t) <= 0
        PROVE  t \in Good
    <3>1. IsFiniteSet(t)
      BY FS_Subset
    <3>2. Cardinality(t) = 0
      BY <2>2, <3>1, FS_CardinalityType
    <3>3. t = {}
      BY <3>1, <3>2, FS_EmptySet, Zenon
    <3> QED BY <3>3, Zenon
  <2> QED BY <2>1, <2>2
<1>3. ASSUME NEW n \in 1..N, n - 1 \in T
      PROVE  n \in T
  <2>1. n \in 0..N /\ n \in Nat
    BY <1>1
  <2>2. ASSUME NEW t \in SUBSET U, Cardinality(t) <= n
        PROVE  t \in Good
    <3>1. ASSUME NEW x \in t
          PROVE  t \ {x} \in Good
      <4>1. t \ {x} \in SUBSET U /\ Cardinality(t \ {x}) <= n - 1
        BY <2>1, <2>2, TakeOut
      <4> QED BY <1>3, <4>1, Zenon
    <3> QED BY <3>1, Zenon
  <2> QED BY <2>1, <2>2, Zenon
<1>4. 0..N \subseteq T
  <2> HIDE DEF T, N
  <2> QED BY <1>1, <1>2, <1>3, UpTo, Zenon
<1>5. N \in T
  <2>1. N \in 0..N
    BY <1>1
  <2> HIDE DEF T, N
  <2> QED BY <1>4, <2>1, Zenon
<1>6. ASSUME NEW t \in SUBSET U
      PROVE  t \in Good
  <2>1. Cardinality(t) <= N
    BY FS_Subset
  <2> HIDE DEF N
  <2> QED BY <1>5, <2>1, Zenon
<1> QED BY <1>6

(* F[t] is the sum of f over t, whatever the order.                        *)
Adds(F, f, U) ==
  /\ F \in [SUBSET U -> Nat] /\ F[{}] = 0
  /\ \A t \in SUBSET U : \A x \in t : F[t] = f[x] + F[t \ {x}]

(* SumOf is that sum.                                                      *)
LEMMA SumIs ==
  ASSUME NEW U, IsFiniteSet(U), NEW f \in [U -> Nat]
  PROVE  \E F : /\ Adds(F, f, U)
                /\ \A S \in SUBSET U : SumOf(f, S) = F[S]
<1> DEFINE c == [t \in SUBSET U |-> CHOOSE x \in t : TRUE]
           g == [p \in U \X Nat |-> f[p[1]] + p[2]]
<1>1. Picks(c, U)
  <2>1. ASSUME NEW t \in SUBSET U, t # {}
        PROVE  c[t] \in t
    <3>1. \E x \in t : TRUE
      BY <2>1
    <3> QED BY <3>1, Zenon
  <2> HIDE DEF c
  <2> QED BY <2>1, Zenon DEF Picks
<1>2. g \in [U \X Nat -> Nat]
  <2>1. ASSUME NEW p \in U \X Nat
        PROVE  f[p[1]] + p[2] \in Nat
    <3>1. p[1] \in U /\ p[2] \in Nat
      OBVIOUS
    <3>2. f[p[1]] \in Nat
      BY <3>1, Zenon
    <3> QED BY <3>1, <3>2
  <2> QED BY <2>1
<1>3. PICK F \in [SUBSET U -> Nat] : Folded(F, U, 0, c, g)
  <2> HIDE DEF c, g
  <2> QED BY <1>1, <1>2, SetRecursion, Zenon
<1>4. {} \in SUBSET U
  OBVIOUS
<1>5. F[{}] = 0
  BY <1>3, <1>4, Zenon DEF Folded
<1>6. ASSUME NEW t \in SUBSET U, t # {}
      PROVE  LET y == CHOOSE x \in t : TRUE
             IN  y \in t /\ y \in U /\ t \ {y} \in SUBSET U /\ F[t] = f[y] + F[t \ {y}]
  <2> DEFINE y == CHOOSE x \in t : TRUE
  <2>1. c[t] = y
    OBVIOUS
  <2>2. y \in t
    BY <1>1, <1>6, <2>1, Zenon DEF Picks
  <2>3. y \in U /\ t \ {y} \in SUBSET U
    BY <2>2, Zenon
  <2>4. F[t \ {y}] \in Nat
    BY <2>3, Zenon
  <2>5. F[t] = g[<<y, F[t \ {y}]>>]
    <3> HIDE DEF g, c
    <3> QED BY <1>3, <1>6, <2>1, Zenon DEF Folded
  <2>6. g[<<y, F[t \ {y}]>>] = f[y] + F[t \ {y}]
    <3> DEFINE v == F[t \ {y}]
    <3>1. v \in Nat
      BY <2>4, Zenon
    <3>2. y \in U
      BY <2>3, Zenon
    <3> HIDE DEF v, y
    <3>3. <<y, v>> \in U \X Nat
      BY <3>1, <3>2
    <3> QED BY <3>3
  <2>7. F[t] = f[y] + F[t \ {y}]
    <3> HIDE DEF y, g
    <3> QED BY <2>5, <2>6, Zenon
  <2> QED BY <2>2, <2>3, <2>7
<1>7. \A t \in SUBSET U : \A x \in t : F[t] = f[x] + F[t \ {x}]
  <2> DEFINE Good == {t \in SUBSET U : \A x \in t : F[t] = f[x] + F[t \ {x}]}
  <2>1. {} \in Good
    OBVIOUS
  <2>2. ASSUME NEW t \in SUBSET U, t # {}, \A x \in t : t \ {x} \in Good
        PROVE  t \in Good
    <3>1. ASSUME NEW x \in t
          PROVE  F[t] = f[x] + F[t \ {x}]
      <4> DEFINE y == CHOOSE z \in t : TRUE
      <4>1. y \in t /\ y \in U /\ t \ {y} \in SUBSET U /\ F[t] = f[y] + F[t \ {y}]
        BY <1>6, <2>2
      <4> HIDE DEF y
      <4>2. CASE x = y
        BY <4>1, <4>2, Zenon
      <4>3. CASE x # y
        <5> DEFINE w == (t \ {y}) \ {x}
        <5>1. x \in t \ {y} /\ y \in t \ {x} /\ w = (t \ {x}) \ {y} /\ w \in SUBSET U /\ x \in U
          BY <4>1, <4>3
        <5>2. F[t \ {y}] = f[x] + F[w]
          BY <2>2, <4>1, <5>1
        <5>3. F[t \ {x}] = f[y] + F[w]
          <6>1. t \ {x} \in Good
            BY <2>2, Zenon
          <6> HIDE DEF w
          <6>2. F[t \ {x}] = f[y] + F[(t \ {x}) \ {y}]
            BY <5>1, <6>1
          <6> QED BY <5>1, <6>2, Zenon
        <5>4. F[w] \in Nat /\ f[x] \in Nat /\ f[y] \in Nat
          BY <4>1, <5>1, Zenon
        <5> DEFINE a == F[t]
                   b == F[t \ {y}]
                   d == F[t \ {x}]
                   p == f[x]
                   q == f[y]
                   r == F[w]
        <5>5. a = q + b /\ b = p + r /\ d = q + r /\ p \in Nat /\ q \in Nat /\ r \in Nat
          BY <4>1, <5>2, <5>3, <5>4, Zenon
        <5> HIDE DEF a, b, d, p, q, r
        <5>6. a = p + d
          BY <5>5
        <5> QED BY <5>6, Zenon DEF a, d, p
      <4> QED BY <4>2, <4>3, Zenon
    <3> QED BY <3>1, Zenon
  <2>3. SUBSET U \subseteq Good
    <3> HIDE DEF Good
    <3> QED BY <2>1, <2>2, SubsetInduction, Zenon
  <2> QED BY <2>3, Zenon
<1>8. ASSUME NEW S \in SUBSET U
      PROVE  SumOf(f, S) = F[S]
  <2> DEFINE Sum(h) == [s \in SUBSET S |-> IF s = {} THEN 0
                                           ELSE LET x == CHOOSE x \in s : TRUE
                                                IN  f[x] + h[s \ {x}]]
             h == CHOOSE h : h = Sum(h)
             v == [s \in SUBSET S |-> F[s]]
  <2>1. SumOf(f, S) = h[S]
    BY Zenon DEF SumOf, MapThenSumSet, MapThenFoldSet
  <2>2. v = Sum(v)
    <3>1. ASSUME NEW s \in SUBSET S
          PROVE  v[s] = IF s = {} THEN 0
                        ELSE LET x == CHOOSE x \in s : TRUE
                             IN  f[x] + v[s \ {x}]
      <4>1. s \in SUBSET U
        OBVIOUS
      <4>2. CASE s = {}
        BY <1>5, <4>2, Zenon
      <4>3. CASE s # {}
        <5> DEFINE y == CHOOSE x \in s : TRUE
        <5>1. F[s] = f[y] + F[s \ {y}]
          BY <1>6, <4>1, <4>3
        <5>2. v[s] = F[s] /\ v[s \ {y}] = F[s \ {y}]
          <6>1. s \ {y} \in SUBSET S
            OBVIOUS
          <6> HIDE DEF y
          <6> QED BY <6>1, Zenon
        <5> HIDE DEF v
        <5>3. v[s] = f[y] + v[s \ {y}]
          BY <5>1, <5>2, Zenon
        <5> QED BY <4>3, <5>3, Zenon DEF y
      <4> QED BY <4>2, <4>3, Zenon
    <3> QED BY <3>1, Zenon
  <2>3. h = Sum(h)
    BY <2>2, Zenon
  <2> HIDE DEF h
  <2>4. \A s \in SUBSET S : h[s] = IF s = {} THEN 0
                                   ELSE LET x == CHOOSE x \in s : TRUE
                                        IN  f[x] + h[s \ {x}]
    <3> TAKE s \in SUBSET S
    <3>1. Sum(h)[s] = IF s = {} THEN 0
                      ELSE LET x == CHOOSE x \in s : TRUE
                           IN  f[x] + h[s \ {x}]
      BY Zenon
    <3> HIDE DEF Sum
    <3> QED BY <2>3, <3>1, Zenon
  <2> DEFINE Good == {s \in SUBSET S : h[s] = F[s]}
  <2>5. {} \in Good
    <3>1. {} \in SUBSET S
      OBVIOUS
    <3> QED BY <1>5, <2>4, <3>1, Zenon
  <2>6. ASSUME NEW s \in SUBSET S, s # {}, \A x \in s : s \ {x} \in Good
        PROVE  s \in Good
    <3> DEFINE y == CHOOSE x \in s : TRUE
    <3>1. s \in SUBSET U
      OBVIOUS
    <3>2. y \in s /\ F[s] = f[y] + F[s \ {y}]
      BY <1>6, <2>6, <3>1
    <3>3. h[s] = f[y] + h[s \ {y}]
      BY <2>4, <2>6, Zenon
    <3> HIDE DEF y
    <3>4. h[s \ {y}] = F[s \ {y}]
      BY <2>6, <3>2, Zenon
    <3>5. h[s] = F[s]
      BY <3>2, <3>3, <3>4, Zenon
    <3> QED BY <3>5, Zenon
  <2>7. SUBSET S \subseteq Good
    <3>1. IsFiniteSet(S)
      BY FS_Subset
    <3> HIDE DEF Good
    <3> QED BY <2>5, <2>6, <3>1, SubsetInduction, Zenon
  <2>8. S \in Good
    <3>1. S \in SUBSET S
      OBVIOUS
    <3> HIDE DEF Good
    <3> QED BY <2>7, <3>1, Zenon
  <2> QED BY <2>1, <2>8, Zenon
<1>9. Adds(F, f, U)
  BY <1>3, <1>5, <1>7, Zenon DEF Adds
<1> HIDE DEF c, g
<1> QED BY <1>8, <1>9, Zenon

-----------------------------------------------------------------------------
(* The corpus.                                                             *)

(* A nonempty set of numbers up to some bound has a greatest.              *)
LEMMA Greatest ==
  ASSUME NEW n \in Nat, NEW f, \A i \in 1..n : f[i] \in Nat
  PROVE  \E m \in {0} \cup {f[i] : i \in 1..n} :
           m \in Nat /\ \A y \in {0} \cup {f[i] : i \in 1..n} : m >= y
<1> DEFINE R(j) == {0} \cup {f[i] : i \in 1..j}
           S == {j \in 0..n : \E m \in R(j) : m \in Nat /\ \A y \in R(j) : m >= y}
<1>1. 0 \in S
  <2>1. R(0) = {0} /\ 0 \in 0..n
    OBVIOUS
  <2>2. \E m \in {0} : m \in Nat /\ \A y \in {0} : m >= y
    OBVIOUS
  <2> HIDE DEF R
  <2> QED BY <2>1, <2>2, Zenon
<1>2. ASSUME NEW j \in 1..n, j - 1 \in S
      PROVE  j \in S
  <2>1. PICK m \in R(j - 1) : m \in Nat /\ \A y \in R(j - 1) : m >= y
    BY <1>2
  <2>2. R(j) = R(j - 1) \cup {f[j]} /\ j \in 0..n
    <3>1. \A i : i \in 1..j <=> i \in 1..(j - 1) \/ i = j
      OBVIOUS
    <3>2. j \in 0..n
      OBVIOUS
    <3> QED BY <3>1, <3>2, Zenon
  <2>3. f[j] \in Nat
    OBVIOUS
  <2>4. R(j - 1) \subseteq Nat
    <3>1. \A i \in 1..(j - 1) : i \in 1..n
      OBVIOUS
    <3>2. 0 \in Nat
      OBVIOUS
    <3> QED BY <3>1, <3>2, Zenon
  <2> DEFINE z == IF m >= f[j] THEN m ELSE f[j]
  <2>5. z \in R(j)
    <3> HIDE DEF R
    <3> QED BY <2>2, Zenon
  <2>6. z \in Nat /\ z >= m /\ z >= f[j]
    BY <2>1, <2>3
  <2>7. \A y \in R(j) : z >= y
    <3> HIDE DEF R, z
    <3>1. ASSUME NEW y \in R(j)
          PROVE  z >= y
      <4>1. y \in R(j - 1) \/ y = f[j]
        BY <2>2, Zenon
      <4>2. CASE y \in R(j - 1)
        <5>1. y \in Nat /\ m >= y
          BY <2>1, <2>4, <4>2, Zenon
        <5> QED BY <2>1, <2>6, <5>1
      <4> QED BY <2>6, <4>1, <4>2, Zenon
    <3> QED BY <3>1
  <2> HIDE DEF R, z
  <2> QED BY <2>2, <2>5, <2>6, <2>7, Zenon
<1>3. n \in S
  <2>1. 0..n \subseteq S
    <3> HIDE DEF S
    <3> QED BY <1>1, <1>2, UpTo, Zenon
  <2>2. n \in 0..n
    OBVIOUS
  <2> HIDE DEF S
  <2> QED BY <2>1, <2>2, Zenon
<1> QED BY <1>3, Zenon

(* The greater and the smaller of two numbers.                             *)
LEMMA TwoMax ==
  ASSUME NEW a \in Nat, NEW b \in Nat
  PROVE  /\ Max({a, b}) \in Nat /\ Max({a, b}) >= a /\ Max({a, b}) >= b
         /\ Min({a, b}) \in Nat /\ Min({a, b}) <= a /\ Min({a, b}) <= b
         /\ Min({a, b}) = a \/ Min({a, b}) = b
<1>1. \E x \in {a, b} : \A y \in {a, b} : x >= y
  OBVIOUS
<1>2. \E x \in {a, b} : \A y \in {a, b} : x =< y
  OBVIOUS
<1>3. Max({a, b}) \in {a, b} /\ \A y \in {a, b} : Max({a, b}) >= y
  BY <1>1, Zenon DEF Max
<1>4. Min({a, b}) \in {a, b} /\ \A y \in {a, b} : Min({a, b}) =< y
  BY <1>2, Zenon DEF Min
<1> HIDE DEF Max, Min
<1> QED BY <1>3, <1>4

(* The samples, their concatenation and the lengths made of them.          *)
LEMMA CorpusIs ==
  ASSUME samples \in Corpora
  PROVE  /\ samples \in Seq(Seq(Byte)) /\ buf \in Seq(Byte) /\ total \in Nat
         /\ D \in Nat \ {0} /\ k \in Nat /\ k >= D
         /\ seg_dmers \in Nat \ {0} /\ last_start \in Int
<1>1. samples \in Seq(Seq(Byte)) /\ D \in Nat \ {0} /\ SegmentLen \in Nat
  BY TrainerAssumption
<1>2. buf \in Seq(Byte)
  BY <1>1, FlattenType, Zenon DEF buf
<1>3. total \in Nat
  BY <1>2 DEF total
<1> DEFINE lens == {Len(samples[w]) : w \in DOMAIN samples}
           longest == Max({0} \cup lens)
<1>4. longest \in Nat
  <2> DEFINE f == [i \in DOMAIN samples |-> Len(samples[i])]
             n == Len(samples)
  <2>1. n \in Nat /\ DOMAIN samples = 1..n
    BY <1>1
  <2>2. \A i \in 1..n : f[i] \in Nat /\ f[i] = Len(samples[i])
    <3>1. \A i \in 1..n : samples[i] \in Seq(Byte)
      BY <1>1
    <3> QED BY <2>1, <3>1
  <2>3. lens = {f[i] : i \in 1..n}
    <3> HIDE DEF f, n
    <3> QED BY <2>1, <2>2, Zenon
  <2>4. \E m \in {0} \cup {f[i] : i \in 1..n} :
          m \in Nat /\ \A y \in {0} \cup {f[i] : i \in 1..n} : m >= y
    <3> HIDE DEF f, n
    <3> QED BY <2>1, <2>2, Greatest, Zenon
  <2>5. \E m \in {0} \cup lens : m \in Nat /\ \A y \in {0} \cup lens : m >= y
    <3> HIDE DEF f, n, lens
    <3> QED BY <2>3, <2>4, Zenon
  <2>6. longest \in {0} \cup lens
    <3> HIDE DEF lens
    <3> QED BY <2>5, Zenon DEF Max
  <2>7. \A y \in {0} \cup lens : y \in Nat
    <3>1. \A y \in lens : y \in Nat
      <4> HIDE DEF f, n, lens
      <4> QED BY <2>2, <2>3, Zenon
    <3>2. 0 \in Nat
      OBVIOUS
    <3> HIDE DEF lens
    <3> QED BY <3>1, <3>2, Zenon
  <2> QED BY <2>6, <2>7, Zenon
<1>5. k \in Nat /\ k >= D
  <2> DEFINE x == Min({SegmentLen, longest})
  <2>1. x \in Nat
    <3> HIDE DEF longest
    <3> QED BY <1>1, <1>4, TwoMax
  <2>2. k = Max({x, D})
    BY Zenon DEF k
  <2> HIDE DEF x
  <2>3. Max({x, D}) \in Nat /\ Max({x, D}) >= D
    BY <1>1, <2>1, TwoMax
  <2> QED BY <2>2, <2>3, Zenon
<1>6. seg_dmers \in Nat \ {0} /\ last_start \in Int
  BY <1>1, <1>3, <1>5 DEF seg_dmers, last_start
<1> QED BY <1>1, <1>2, <1>3, <1>5, <1>6

(* There are finitely many dmers.                                          *)
LEMMA DmersFinite ==
  ASSUME samples \in Corpora
  PROVE  IsFiniteSet(Dmers)
<1> DEFINE J == {j \in 0..(total - D) : Within(j, D)}
           f == [j \in J |-> dmer_at(j)]
<1>1. IsFiniteSet(J)
  <2>1. 0 \in Int /\ total - D \in Int
    BY CorpusIs
  <2>2. IsFiniteSet(0..(total - D))
    BY <2>1, FS_Interval
  <2>3. J \in SUBSET (0..(total - D))
    BY Zenon
  <2> HIDE DEF J
  <2> QED BY <2>2, <2>3, FS_Subset
<1>2. Dmers = {dmer_at(i) : i \in J}
  BY Zenon DEF Dmers
<1>3. f \in Surjection(J, Dmers)
  <2> HIDE DEF J
  <2> QED BY <1>2, Zenon DEF Surjection
<1> HIDE DEF J, f
<1> QED BY <1>1, <1>3, FS_Surjection

-----------------------------------------------------------------------------
(* The window.                                                             *)

(* Where dm is within the positions from lo to hi, and what is there.      *)
Places(dm, lo, hi) == {i \in lo..(hi - 1) : Within(i, D) /\ dmer_at(i) = dm}
SeenIn(lo, hi)     == {dmer_at(i) : i \in {j \in lo..(hi - 1) : Within(j, D)}}
Worth(lo, hi)      == SumOf(freq, SeenIn(lo, hi))

(* win counts the dmers from lo to hi, and scores each of them once.       *)
Windows == [count : [Dmers -> Nat], score : Nat]
Counted(win, lo, hi) ==
  /\ win \in Windows
  /\ \A dm \in Dmers : win.count[dm] = Cardinality(Places(dm, lo, hi))
  /\ win.score = Worth(lo, hi)

Trained == samples \in Corpora /\ freq \in [Dmers -> Nat] /\ k <= total

LEMMA WindowIs ==
  ASSUME NEW lo, NEW hi, NEW win, Counted(win, lo, hi)
  PROVE  /\ win.count \in [Dmers -> Nat] /\ win.score \in Nat /\ win.score = Worth(lo, hi)
         /\ \A dm \in Dmers : win.count[dm] = Cardinality(Places(dm, lo, hi))
<1>1. win \in Windows
  BY Zenon DEF Counted
<1>2. win.count \in [Dmers -> Nat] /\ win.score \in Nat
  BY ONLY <1>1 DEF Windows
<1> QED BY <1>2, Zenon DEF Counted

LEMMA DmerIn ==
  ASSUME NEW i \in 0..(total - D), Within(i, D)
  PROVE  dmer_at(i) \in Dmers
BY Zenon DEF Dmers

(* A dmer has been seen if it has a place.                                 *)
LEMMA SeenIff ==
  ASSUME NEW lo \in Nat, NEW hi \in Nat, NEW dm
  PROVE  /\ IsFiniteSet(Places(dm, lo, hi)) /\ Cardinality(Places(dm, lo, hi)) \in Nat
         /\ dm \in SeenIn(lo, hi) <=> Cardinality(Places(dm, lo, hi)) # 0
<1>1. lo \in Int /\ hi - 1 \in Int
  OBVIOUS
<1>2. IsFiniteSet(lo..(hi - 1))
  BY <1>1, FS_Interval
<1>3. Places(dm, lo, hi) \in SUBSET (lo..(hi - 1))
  BY Zenon DEF Places
<1>4. IsFiniteSet(Places(dm, lo, hi))
  BY <1>2, <1>3, FS_Subset
<1>5. Cardinality(Places(dm, lo, hi)) \in Nat
  BY <1>4, FS_CardinalityType
<1>6. Cardinality(Places(dm, lo, hi)) = 0 <=> Places(dm, lo, hi) = {}
  BY <1>4, FS_EmptySet, Zenon
<1>7. dm \in SeenIn(lo, hi) <=> Places(dm, lo, hi) # {}
  BY Zenon DEF SeenIn, Places
<1> QED BY <1>4, <1>5, <1>6, <1>7, Zenon

LEMMA SeenDmers ==
  ASSUME samples \in Corpora, NEW lo \in Nat, NEW hi \in Nat, hi <= total - D + 1
  PROVE  SeenIn(lo, hi) \in SUBSET Dmers
<1>1. \A j \in lo..(hi - 1) : j \in 0..(total - D)
  BY CorpusIs
<1> QED BY <1>1, Zenon DEF SeenIn, Dmers

(* One position more at the end, and one less in front.                    *)
LEMMA PlacesGrow ==
  ASSUME NEW lo \in Nat, NEW hi \in Nat, lo <= hi, NEW dm
  PROVE  LET here == Within(hi, D) /\ dmer_at(hi) = dm
         IN  /\ Cardinality(Places(dm, lo, hi + 1)) =
                  IF here THEN Cardinality(Places(dm, lo, hi)) + 1
                  ELSE Cardinality(Places(dm, lo, hi))
             /\ dm \in SeenIn(lo, hi + 1) <=> here \/ dm \in SeenIn(lo, hi)
<1> DEFINE here == Within(hi, D) /\ dmer_at(hi) = dm
           P == Places(dm, lo, hi)
           Q == Places(dm, lo, hi + 1)
<1>1. \A i : i \in lo..((hi + 1) - 1) <=> i \in lo..(hi - 1) \/ i = hi
  OBVIOUS
<1>2. hi \notin lo..(hi - 1)
  OBVIOUS
<1>3. IsFiniteSet(P)
  BY SeenIff
<1>4. hi \notin P
  BY <1>2, Zenon DEF Places
<1>5. here => Q = P \cup {hi}
  BY <1>1, Zenon DEF Places
<1>6. ~here => Q = P
  BY <1>1, Zenon DEF Places
<1>7. dm \in SeenIn(lo, hi + 1) <=> here \/ dm \in SeenIn(lo, hi)
  BY <1>1, Zenon DEF SeenIn
<1>8. Cardinality(P \cup {hi}) = Cardinality(P) + 1
  <2> HIDE DEF P
  <2> QED BY <1>3, <1>4, FS_AddElement
<1>9. Cardinality(Q) = IF here THEN Cardinality(P) + 1 ELSE Cardinality(P)
  <2> HIDE DEF P, Q, here
  <2> QED BY <1>5, <1>6, <1>8, Zenon
<1> QED BY <1>7, <1>9

LEMMA PlacesShrink ==
  ASSUME NEW lo \in Nat, NEW hi \in Nat, lo < hi, NEW dm
  PROVE  LET here == Within(lo, D) /\ dmer_at(lo) = dm
         IN  /\ Cardinality(Places(dm, lo, hi)) =
                  IF here THEN Cardinality(Places(dm, lo + 1, hi)) + 1
                  ELSE Cardinality(Places(dm, lo + 1, hi))
             /\ dm \in SeenIn(lo, hi) <=> here \/ dm \in SeenIn(lo + 1, hi)
<1> DEFINE here == Within(lo, D) /\ dmer_at(lo) = dm
           P == Places(dm, lo + 1, hi)
           Q == Places(dm, lo, hi)
<1>1. \A i : i \in lo..(hi - 1) <=> i \in (lo + 1)..(hi - 1) \/ i = lo
  OBVIOUS
<1>2. lo \notin (lo + 1)..(hi - 1) /\ lo + 1 \in Nat
  OBVIOUS
<1>3. IsFiniteSet(P)
  BY <1>2, SeenIff
<1>4. lo \notin P
  BY <1>2, Zenon DEF Places
<1>5. here => Q = P \cup {lo}
  BY <1>1, Zenon DEF Places
<1>6. ~here => Q = P
  BY <1>1, Zenon DEF Places
<1>7. dm \in SeenIn(lo, hi) <=> here \/ dm \in SeenIn(lo + 1, hi)
  BY <1>1, Zenon DEF SeenIn
<1>8. Cardinality(P \cup {lo}) = Cardinality(P) + 1
  <2> HIDE DEF P
  <2> QED BY <1>3, <1>4, FS_AddElement
<1>9. Cardinality(Q) = IF here THEN Cardinality(P) + 1 ELSE Cardinality(P)
  <2> HIDE DEF P, Q, here
  <2> QED BY <1>5, <1>6, <1>8, Zenon
<1> QED BY <1>7, <1>9

(* What a set of dmers is worth, and what one more adds.                   *)
LEMMA WorthIs ==
  ASSUME Trained, NEW A \in SUBSET Dmers, NEW B \in SUBSET Dmers, NEW dm \in Dmers,
         dm \notin A, B = A \cup {dm}
  PROVE  /\ SumOf(freq, B) = SumOf(freq, A) + freq[dm]
         /\ SumOf(freq, A) \in Nat /\ SumOf(freq, B) \in Nat /\ freq[dm] \in Nat
<1>1. freq \in [Dmers -> Nat] /\ IsFiniteSet(Dmers)
  BY DmersFinite, Zenon DEF Trained
<1>2. PICK F : /\ Adds(F, freq, Dmers)
               /\ \A S \in SUBSET Dmers : SumOf(freq, S) = F[S]
  BY <1>1, SumIs, Zenon
<1>3. F[A] \in Nat /\ F[B] \in Nat /\ freq[dm] \in Nat
  BY <1>1, <1>2, Zenon DEF Adds
<1>4. B \ {dm} = A /\ dm \in B
  BY Zenon
<1>5. F[B] = freq[dm] + F[A]
  <2>1. \A t \in SUBSET Dmers : \A x \in t : F[t] = freq[x] + F[t \ {x}]
    BY <1>2 DEF Adds
  <2>2. F[B] = freq[dm] + F[B \ {dm}]
    BY <1>4, <2>1
  <2> QED BY <1>4, <2>2
<1>6. F[B] = F[A] + freq[dm]
  BY <1>3, <1>5
<1>7. SumOf(freq, A) = F[A] /\ SumOf(freq, B) = F[B]
  BY <1>2, Zenon
<1> QED BY <1>3, <1>6, <1>7, Zenon

(* A dmer enters.                                                          *)
LEMMA EnteringIs ==
  ASSUME Trained, NEW lo \in Nat, NEW hi \in Nat, lo <= hi, hi <= total - D,
         NEW win, Counted(win, lo, hi)
  PROVE  Counted(Entering(win, hi), lo, hi + 1)
<1>1. /\ win.count \in [Dmers -> Nat] /\ win.score \in Nat /\ win.score = Worth(lo, hi)
      /\ \A dm \in Dmers : win.count[dm] = Cardinality(Places(dm, lo, hi))
  BY WindowIs
<1>2. /\ total \in Nat /\ D \in Nat /\ samples \in Corpora /\ freq \in [Dmers -> Nat]
      /\ hi \in 0..(total - D) /\ hi + 1 \in Nat /\ hi + 1 <= total - D + 1
      /\ hi <= total - D + 1
  BY CorpusIs DEF Trained
<1>3. \A dm : /\ Cardinality(Places(dm, lo, hi + 1)) =
                   IF Within(hi, D) /\ dmer_at(hi) = dm THEN Cardinality(Places(dm, lo, hi)) + 1
                   ELSE Cardinality(Places(dm, lo, hi))
              /\ dm \in SeenIn(lo, hi + 1)
                   <=> (Within(hi, D) /\ dmer_at(hi) = dm) \/ dm \in SeenIn(lo, hi)
  BY PlacesGrow
<1>4. SeenIn(lo, hi) \in SUBSET Dmers /\ SeenIn(lo, hi + 1) \in SUBSET Dmers
  BY <1>2, SeenDmers
<1>5. CASE ~Within(hi, D)
  <2>1. Entering(win, hi) = win
    BY <1>5, Zenon DEF Entering
  <2>2. SeenIn(lo, hi + 1) = SeenIn(lo, hi)
    BY <1>3, <1>5, Zenon
  <2>3. \A dm \in Dmers : win.count[dm] = Cardinality(Places(dm, lo, hi + 1))
    BY <1>1, <1>3, <1>5, Zenon
  <2>4. win \in Windows
    BY Zenon DEF Counted
  <2>5. win.score = Worth(lo, hi + 1)
    BY <1>1, <2>2, Zenon DEF Worth
  <2> QED BY <2>1, <2>3, <2>4, <2>5, Zenon DEF Counted
<1>6. CASE Within(hi, D)
  <2> DEFINE d == dmer_at(hi)
             cnt == [win.count EXCEPT ![d] = @ + 1]
             add == IF win.count[d] = 0 THEN freq[d] ELSE 0
             u == [count |-> cnt, score |-> win.score + add]
  <2>1. Entering(win, hi) = u
    BY <1>6, Zenon DEF Entering
  <2>2. d \in Dmers
    BY <1>2, <1>6, DmerIn, Zenon
  <2>3. \A dm \in Dmers : cnt[dm] = IF dm = d THEN win.count[dm] + 1 ELSE win.count[dm]
    <3> HIDE DEF d
    <3> QED BY <1>1
  <2>4. win.count[d] \in Nat /\ freq[d] \in Nat
    BY <1>1, <1>2, <2>2, Zenon
  <2>5. cnt \in [Dmers -> Nat]
    <3>1. win.count[d] + 1 \in Nat
      BY <2>4
    <3> HIDE DEF d
    <3> QED BY <1>1, <3>1
  <2>6. \A dm \in Dmers : cnt[dm] = Cardinality(Places(dm, lo, hi + 1))
    <3>1. ASSUME NEW dm \in Dmers
          PROVE  cnt[dm] = Cardinality(Places(dm, lo, hi + 1))
      <4>1. win.count[dm] = Cardinality(Places(dm, lo, hi))
        BY <1>1
      <4> HIDE DEF cnt
      <4>2. CASE dm = d
        BY <1>3, <1>6, <2>3, <4>1, <4>2
      <4>3. CASE dm # d
        BY <1>3, <2>3, <4>1, <4>3, Zenon
      <4> QED BY <4>2, <4>3, Zenon
    <3> QED BY <3>1, Zenon
  <2>7. win.score + add = Worth(lo, hi + 1) /\ win.score + add \in Nat
    <3>1. win.count[d] = 0 <=> d \notin SeenIn(lo, hi)
      BY <1>1, <2>2, SeenIff
    <3>2. CASE d \in SeenIn(lo, hi)
      <4>1. SeenIn(lo, hi + 1) = SeenIn(lo, hi)
        BY <1>3, <3>2, Zenon
      <4>2. Worth(lo, hi + 1) = Worth(lo, hi)
        BY <4>1, Zenon DEF Worth
      <4>3. add = 0
        BY <3>1, <3>2, Zenon
      <4> HIDE DEF add
      <4> QED BY <1>1, <4>2, <4>3
    <3>3. CASE d \notin SeenIn(lo, hi)
      <4>1. SeenIn(lo, hi + 1) = SeenIn(lo, hi) \cup {d}
        BY <1>3, <1>6, Zenon
      <4>2. /\ Worth(lo, hi + 1) = Worth(lo, hi) + freq[d]
            /\ Worth(lo, hi) \in Nat /\ Worth(lo, hi + 1) \in Nat
        <5> HIDE DEF d
        <5> QED BY <1>4, <2>2, <3>3, <4>1, WorthIs DEF Worth
      <4>3. add = freq[d]
        BY <3>1, <3>3, Zenon
      <4> HIDE DEF add
      <4> QED BY <1>1, <4>2, <4>3
    <3> QED BY <3>2, <3>3, Zenon
  <2>8. u \in Windows /\ u.count = cnt /\ u.score = win.score + add
    <3> HIDE DEF cnt, add
    <3> QED BY <2>5, <2>7 DEF Windows
  <2> HIDE DEF u, cnt, add
  <2>9. Counted(u, lo, hi + 1)
    BY <2>6, <2>7, <2>8 DEF Counted
  <2> QED BY <2>1, <2>9, Zenon
<1> QED BY <1>5, <1>6, Zenon

(* A dmer leaves.                                                          *)
LEMMA LeavingIs ==
  ASSUME Trained, NEW lo \in Nat, NEW hi \in Nat, lo < hi, hi <= total - D + 1,
         NEW win, Counted(win, lo, hi)
  PROVE  Counted(Leaving(win, lo), lo + 1, hi)
<1>1. /\ win.count \in [Dmers -> Nat] /\ win.score \in Nat /\ win.score = Worth(lo, hi)
      /\ \A dm \in Dmers : win.count[dm] = Cardinality(Places(dm, lo, hi))
  BY WindowIs
<1>2. /\ total \in Nat /\ D \in Nat /\ samples \in Corpora /\ freq \in [Dmers -> Nat]
      /\ lo \in 0..(total - D) /\ lo + 1 \in Nat
  BY CorpusIs DEF Trained
<1>3. \A dm : /\ Cardinality(Places(dm, lo, hi)) =
                   IF Within(lo, D) /\ dmer_at(lo) = dm
                   THEN Cardinality(Places(dm, lo + 1, hi)) + 1
                   ELSE Cardinality(Places(dm, lo + 1, hi))
              /\ dm \in SeenIn(lo, hi)
                   <=> (Within(lo, D) /\ dmer_at(lo) = dm) \/ dm \in SeenIn(lo + 1, hi)
  BY PlacesShrink
<1>4. SeenIn(lo, hi) \in SUBSET Dmers /\ SeenIn(lo + 1, hi) \in SUBSET Dmers
  BY <1>2, SeenDmers
<1>5. CASE ~Within(lo, D)
  <2>1. Leaving(win, lo) = win
    BY <1>5, Zenon DEF Leaving
  <2>2. SeenIn(lo, hi) = SeenIn(lo + 1, hi)
    BY <1>3, <1>5, Zenon
  <2>3. \A dm \in Dmers : win.count[dm] = Cardinality(Places(dm, lo + 1, hi))
    BY <1>1, <1>3, <1>5, Zenon
  <2>4. win \in Windows
    BY Zenon DEF Counted
  <2>5. win.score = Worth(lo + 1, hi)
    BY <1>1, <2>2, Zenon DEF Worth
  <2> QED BY <2>1, <2>3, <2>4, <2>5, Zenon DEF Counted
<1>6. CASE Within(lo, D)
  <2> DEFINE d == dmer_at(lo)
             rest == Cardinality(Places(d, lo + 1, hi))
             cnt == [win.count EXCEPT ![d] = @ - 1]
             less == IF win.count[d] = 1 THEN freq[d] ELSE 0
             u == [count |-> cnt, score |-> win.score - less]
  <2>1. d \in Dmers
    BY <1>2, <1>6, DmerIn, Zenon
  <2>2. win.count[d] = rest + 1 /\ rest \in Nat /\ freq[d] \in Nat
    <3>1. win.count[d] = Cardinality(Places(d, lo, hi))
      BY <1>1, <2>1
    <3>2. Cardinality(Places(d, lo, hi)) = rest + 1
      BY <1>3, <1>6
    <3>3. rest \in Nat
      BY <1>2, SeenIff
    <3>4. freq[d] \in Nat
      BY <1>2, <2>1, Zenon
    <3> HIDE DEF rest, d
    <3> QED BY <3>1, <3>2, <3>3, <3>4
  <2>3. Leaving(win, lo) = u
    <3>1. win.count[d] # 0
      <4> HIDE DEF rest
      <4> QED BY <2>2
    <3> QED BY <1>6, <3>1, Zenon DEF Leaving
  <2>4. \A dm \in Dmers : cnt[dm] = IF dm = d THEN win.count[dm] - 1 ELSE win.count[dm]
    <3> HIDE DEF d
    <3> QED BY <1>1
  <2>5. cnt \in [Dmers -> Nat]
    <3>1. win.count[d] - 1 \in Nat
      <4> HIDE DEF rest
      <4> QED BY <2>2
    <3> HIDE DEF d
    <3> QED BY <1>1, <3>1
  <2>6. \A dm \in Dmers : cnt[dm] = Cardinality(Places(dm, lo + 1, hi))
    <3>1. ASSUME NEW dm \in Dmers
          PROVE  cnt[dm] = Cardinality(Places(dm, lo + 1, hi))
      <4>1. win.count[dm] = Cardinality(Places(dm, lo, hi))
        BY <1>1
      <4>2. CASE dm = d
        <5>1. cnt[d] = win.count[d] - 1
          <6> HIDE DEF cnt
          <6> QED BY <2>1, <2>4
        <5> HIDE DEF cnt
        <5>2. cnt[d] = rest
          <6> HIDE DEF rest
          <6> QED BY <2>2, <5>1
        <5> QED BY <4>2, <5>2, Zenon
      <4>3. CASE dm # d
        <5> HIDE DEF cnt
        <5> QED BY <1>3, <2>4, <4>1, <4>3, Zenon
      <4> QED BY <4>2, <4>3, Zenon
    <3> QED BY <3>1, Zenon
  <2>7. win.score - less = Worth(lo + 1, hi) /\ win.score - less \in Nat
    <3>1. rest = 0 <=> d \notin SeenIn(lo + 1, hi)
      BY <1>2, SeenIff
    <3>2. CASE d \in SeenIn(lo + 1, hi)
      <4>1. SeenIn(lo, hi) = SeenIn(lo + 1, hi)
        BY <1>3, <3>2, Zenon
      <4>2. Worth(lo + 1, hi) = Worth(lo, hi)
        BY <4>1, Zenon DEF Worth
      <4>3. less = 0
        <5>1. rest # 0
          BY <3>1, <3>2, Zenon
        <5>2. win.count[d] # 1
          <6> HIDE DEF rest
          <6> QED BY <2>2, <5>1
        <5> QED BY <5>2, Zenon
      <4> HIDE DEF less
      <4> QED BY <1>1, <4>2, <4>3
    <3>3. CASE d \notin SeenIn(lo + 1, hi)
      <4>1. SeenIn(lo, hi) = SeenIn(lo + 1, hi) \cup {d}
        BY <1>3, <1>6, Zenon
      <4>2. /\ Worth(lo, hi) = Worth(lo + 1, hi) + freq[d]
            /\ Worth(lo, hi) \in Nat /\ Worth(lo + 1, hi) \in Nat
        <5> HIDE DEF d
        <5> QED BY <1>4, <2>1, <3>3, <4>1, WorthIs DEF Worth
      <4>3. less = freq[d]
        <5>1. rest = 0
          BY <3>1, <3>3, Zenon
        <5>2. win.count[d] = 1
          <6> HIDE DEF rest
          <6> QED BY <2>2, <5>1
        <5> QED BY <5>2, Zenon
      <4> HIDE DEF less
      <4> QED BY <1>1, <2>2, <4>2, <4>3
    <3> QED BY <3>2, <3>3, Zenon
  <2>8. u \in Windows /\ u.count = cnt /\ u.score = win.score - less
    <3> HIDE DEF cnt, less
    <3> QED BY <2>5, <2>7 DEF Windows
  <2> HIDE DEF u, cnt, less
  <2>9. Counted(u, lo + 1, hi)
    BY <2>6, <2>7, <2>8 DEF Counted
  <2> QED BY <2>3, <2>9, Zenon
<1> QED BY <1>5, <1>6, Zenon

(* Nothing has been seen yet.                                              *)
LEMMA EmptyWindow ==
  ASSUME Trained
  PROVE  Counted([count |-> [dm \in Dmers |-> 0], score |-> 0], 0, 0)
<1> DEFINE cnt == [dm \in Dmers |-> 0]
           e == [count |-> cnt, score |-> 0]
<1>1. e \in Windows /\ e.count = cnt /\ e.score = 0
  BY DEF Windows
<1>2. 0..(0 - 1) = {}
  OBVIOUS
<1>3. ASSUME NEW dm \in Dmers
      PROVE  cnt[dm] = Cardinality(Places(dm, 0, 0))
  <2>1. Places(dm, 0, 0) = {}
    BY <1>2, Zenon DEF Places
  <2> QED BY <2>1, FS_EmptySet
<1>4. SeenIn(0, 0) = {}
  BY <1>2, Zenon DEF SeenIn
<1>5. Worth(0, 0) = 0
  <2>1. freq \in [Dmers -> Nat] /\ IsFiniteSet(Dmers)
    BY DmersFinite, Zenon DEF Trained
  <2>2. PICK F : /\ Adds(F, freq, Dmers)
                 /\ \A S \in SUBSET Dmers : SumOf(freq, S) = F[S]
    BY <2>1, SumIs
  <2>3. {} \in SUBSET Dmers
    OBVIOUS
  <2> QED BY <1>4, <2>2, <2>3, Zenon DEF Adds, Worth
<1> HIDE DEF e
<1>6. \A dm \in Dmers : e.count[dm] = Cardinality(Places(dm, 0, 0))
  <2> HIDE DEF cnt
  <2> QED BY <1>1, <1>3, Zenon
<1>7. Counted(e, 0, 0)
  BY <1>1, <1>5, <1>6, Zenon DEF Counted
<1> QED BY <1>7, Zenon DEF e

(* Entering keeps a window a window.                                       *)
LEMMA EnteringType ==
  ASSUME Trained, NEW win \in Windows, NEW i \in 0..(total - D)
  PROVE  Entering(win, i) \in Windows
<1>1. win.count \in [Dmers -> Nat] /\ win.score \in Nat /\ freq \in [Dmers -> Nat]
  <2>1. win.count \in [Dmers -> Nat] /\ win.score \in Nat
    BY ONLY win \in Windows DEF Windows
  <2> QED BY <2>1 DEF Trained
<1>2. CASE ~Within(i, D)
  BY <1>2, Zenon DEF Entering
<1>3. CASE Within(i, D)
  <2> DEFINE d == dmer_at(i)
             cnt == [win.count EXCEPT ![d] = @ + 1]
             add == IF win.count[d] = 0 THEN freq[d] ELSE 0
             u == [count |-> cnt, score |-> win.score + add]
  <2>1. d \in Dmers
    BY <1>3, DmerIn, Zenon
  <2>2. win.count[d] \in Nat /\ freq[d] \in Nat
    BY <1>1, <2>1, Zenon
  <2>3. cnt \in [Dmers -> Nat]
    <3>1. win.count[d] + 1 \in Nat
      BY <2>2
    <3> HIDE DEF d
    <3> QED BY <1>1, <3>1
  <2>4. win.score + add \in Nat
    <3> HIDE DEF d
    <3> QED BY <1>1, <2>2
  <2>5. u \in Windows
    <3> HIDE DEF cnt, add
    <3> QED BY <2>3, <2>4 DEF Windows
  <2>6. Entering(win, i) = u
    BY <1>3, Zenon DEF Entering
  <2> HIDE DEF u
  <2> QED BY <2>5, <2>6, Zenon
<1> QED BY <1>2, <1>3, Zenon

(* The greatest index of a set of indices.                                 *)
LEMMA MaxIndex ==
  ASSUME NEW n \in Nat, NEW t \in SUBSET (1..n), t # {}
  PROVE  Max(t) \in t
<1> DEFINE f == [i \in 1..n |-> IF i \in t THEN i ELSE 0]
<1>1. \A i \in 1..n : f[i] \in Nat /\ f[i] = IF i \in t THEN i ELSE 0
  OBVIOUS
<1> HIDE DEF f
<1>2. PICK m \in {0} \cup {f[i] : i \in 1..n} :
         m \in Nat /\ \A y \in {0} \cup {f[i] : i \in 1..n} : m >= y
  BY <1>1, Greatest, Zenon
<1>3. \A y \in t : m >= y
  <2>1. ASSUME NEW y \in t
        PROVE  m >= y
    <3>1. y \in 1..n /\ f[y] = y
      BY <1>1, Zenon
    <3>2. y \in {0} \cup {f[i] : i \in 1..n}
      BY <3>1, Zenon
    <3> QED BY <1>2, <3>2, Zenon
  <2> QED BY <2>1, Zenon
<1>4. m \in t
  <2>1. PICK x \in t : TRUE
    OBVIOUS
  <2>2. m >= x /\ x \in 1..n
    BY <1>3, <2>1, Zenon
  <2>3. m # 0
    BY <1>2, <2>2
  <2>4. PICK i \in 1..n : m = f[i]
    BY <1>2, <2>3, Zenon
  <2> QED BY <1>1, <2>3, <2>4, Zenon
<1>5. \E x \in t : \A y \in t : x >= y
  BY <1>3, <1>4, Zenon
<1> QED BY <1>5, Zenon DEF Max

(* The last index is the greatest.                                         *)
LEMMA MaxOfAll ==
  ASSUME NEW j \in Nat \ {0}
  PROVE  Max(1..j) = j
<1>1. j \in 1..j /\ \A y \in 1..j : j >= y
  OBVIOUS
<1>2. Max(1..j) \in 1..j /\ \A y \in 1..j : Max(1..j) >= y
  <2>1. \E x \in 1..j : \A y \in 1..j : x >= y
    BY <1>1, Zenon
  <2> QED BY <2>1, Zenon DEF Max
<1> DEFINE x == Max(1..j)
<1>3. x \in 1..j /\ x >= j
  BY <1>1, <1>2, Zenon
<1> HIDE DEF x
<1>4. x = j
  BY <1>3
<1> QED BY <1>4, Zenon DEF x

(* The first window of a round.                                            *)
FirstWindow ==
  FoldLeft(Entering, [count |-> [dm \in Dmers |-> 0], score |-> 0],
           [i \in 1..seg_dmers |-> i - 1])

LEMMA SeedIs ==
  ASSUME Trained
  PROVE  Counted(FirstWindow, 0, seg_dmers)
<1> DEFINE m == seg_dmers
           e == [count |-> [dm \in Dmers |-> 0], score |-> 0]
           q == [i \in 1..m |-> i - 1]
           U == DOMAIN q
           Fold(h) == [s \in SUBSET U |-> IF s = {} THEN e
                                          ELSE LET x == Max(s) IN Entering(h[s \ {x}], q[x])]
           h == CHOOSE h : h = Fold(h)
<1>1. m \in Nat \ {0} /\ \A i \in 1..m : i - 1 \in 0..(total - D)
  <2>1. /\ total \in Nat /\ D \in Nat /\ k \in Nat /\ m \in Nat \ {0} /\ k <= total
    BY CorpusIs DEF Trained
  <2>2. m = k - D + 1
    BY Zenon DEF seg_dmers
  <2> HIDE DEF m
  <2> QED BY <2>1, <2>2
<1>2. U = 1..m /\ IsFiniteSet(U) /\ \A i \in U : q[i] = i - 1
  <2>1. U = 1..m
    OBVIOUS
  <2>2. IsFiniteSet(1..m)
    <3>1. 1 \in Int /\ m \in Int
      BY <1>1
    <3> QED BY <3>1, FS_Interval
  <2> QED BY <2>1, <2>2
<1>3. FirstWindow = h[U]
  BY Zenon DEF FirstWindow, FoldLeft, MapThenFoldSet
<1>4. Counted(e, 0, 0) /\ e \in Windows
  <2>1. Counted(e, 0, 0)
    BY EmptyWindow, Zenon
  <2> QED BY <2>1, Zenon DEF Counted
<1> HIDE DEF e, q, m
<1>5. h = Fold(h)
  <2> DEFINE c == [t \in SUBSET U |-> Max(t)]
             g == [p \in U \X Windows |-> Entering(p[2], q[p[1]])]
  <2>1. Picks(c, U)
    <3>1. \A t \in SUBSET U : t # {} => Max(t) \in t
      BY <1>1, <1>2, MaxIndex
    <3> QED BY <3>1, Zenon DEF Picks
  <2>2. g \in [U \X Windows -> Windows]
    <3>1. ASSUME NEW p \in U \X Windows
          PROVE  Entering(p[2], q[p[1]]) \in Windows
      <4>1. p[1] \in U /\ p[2] \in Windows
        OBVIOUS
      <4>2. q[p[1]] \in 0..(total - D)
        BY <1>1, <1>2, <4>1
      <4> QED BY <4>1, <4>2, EnteringType, Zenon
    <3> QED BY <3>1
  <2>3. PICK F \in [SUBSET U -> Windows] : Folded(F, U, e, c, g)
    <3> HIDE DEF c, g, U
    <3> QED BY <1>2, <1>4, <2>1, <2>2, SetRecursion, Zenon
  <2>4. ASSUME NEW s \in SUBSET U
        PROVE  F[s] = IF s = {} THEN e ELSE LET x == Max(s) IN Entering(F[s \ {x}], q[x])
    <3>1. CASE s = {}
      BY <2>3, <3>1, Zenon DEF Folded
    <3>2. CASE s # {}
      <4> DEFINE x == Max(s)
                 w == F[s \ {x}]
      <4>1. x \in s
        BY <1>1, <1>2, <3>2, MaxIndex
      <4>2. x \in U /\ s \ {x} \in SUBSET U
        BY <4>1, Zenon
      <4>3. w \in Windows
        BY <4>2, Zenon
      <4>4. c[s] = x
        OBVIOUS
      <4>5. F[s] = g[<<x, w>>]
        <5> HIDE DEF g, c, x
        <5> QED BY <2>3, <3>2, <4>4, Zenon DEF Folded
      <4>6. g[<<x, w>>] = Entering(w, q[x])
        <5> HIDE DEF x, w
        <5>1. <<x, w>> \in U \X Windows
          BY <4>2, <4>3
        <5> QED BY <5>1
      <4> HIDE DEF g
      <4> QED BY <3>2, <4>5, <4>6, Zenon
    <3> QED BY <3>1, <3>2, Zenon
  <2>5. F = Fold(F)
    <3> HIDE DEF U
    <3> QED BY <2>4, Zenon
  <2> QED BY <2>5, Zenon
<1> HIDE DEF h
<1>6. \A s \in SUBSET U : h[s] = IF s = {} THEN e
                                 ELSE LET x == Max(s) IN Entering(h[s \ {x}], q[x])
  <2> TAKE s \in SUBSET U
  <2>1. Fold(h)[s] = IF s = {} THEN e ELSE LET x == Max(s) IN Entering(h[s \ {x}], q[x])
    <3> HIDE DEF U
    <3> QED BY Zenon
  <2> HIDE DEF Fold
  <2> QED BY <1>5, <2>1, Zenon
<1> HIDE DEF U
<1> DEFINE T == {j \in 0..m : Counted(h[1..j], 0, j)}
<1>7. 0 \in T
  <2>1. 1..0 = {} /\ 0 \in 0..m /\ {} \in SUBSET U
    BY <1>1
  <2>2. h[1..0] = e
    BY <1>6, <2>1, Zenon
  <2> QED BY <1>4, <2>1, <2>2, Zenon
<1>8. ASSUME NEW j \in 1..m, j - 1 \in T
      PROVE  j \in T
  <2>1. /\ j \in 0..m /\ 1..j # {} /\ 1..j \in SUBSET U /\ (1..j) \ {j} = 1..(j - 1)
        /\ j - 1 \in Nat /\ (j - 1) + 1 = j /\ 0 <= j - 1 /\ j - 1 <= total - D /\ j \in U
        /\ j \in Nat \ {0}
    BY <1>1, <1>2
  <2>2. Max(1..j) = j
    BY <2>1, MaxOfAll, Zenon
  <2>3. h[1..j] = Entering(h[1..(j - 1)], j - 1)
    BY <1>2, <1>6, <2>1, <2>2, Zenon
  <2>4. Counted(h[1..(j - 1)], 0, j - 1)
    BY <1>8, Zenon
  <2>5. Counted(h[1..j], 0, j)
    <3> DEFINE w == h[1..(j - 1)]
               i == j - 1
    <3>1. Counted(w, 0, i) /\ i \in Nat /\ 0 <= i /\ i <= total - D /\ 0 \in Nat
      BY <2>1, <2>4
    <3> HIDE DEF w, i
    <3>2. Counted(Entering(w, i), 0, i + 1)
      BY <3>1, EnteringIs
    <3> QED BY <2>1, <2>3, <3>2, Zenon DEF w, i
  <2> QED BY <2>1, <2>5, Zenon
<1>9. m \in T
  <2>1. 0..m \subseteq T
    <3>1. m \in Nat
      BY <1>1
    <3> HIDE DEF T
    <3> QED BY <1>7, <1>8, <3>1, UpTo, Zenon
  <2>2. m \in 0..m
    BY <1>1
  <2> HIDE DEF T
  <2> QED BY <2>1, <2>2, Zenon
<1>10. Counted(h[U], 0, m)
  BY <1>2, <1>9, Zenon
<1> QED BY <1>3, <1>10, Zenon DEF m

(* The score of the segment at s is what a window there is worth.          *)
LEMMA ScoreIs ==
  ASSUME samples \in Corpora, NEW s \in Nat
  PROVE  ScoreOf(s) = Worth(s, s + seg_dmers) /\ Covered(s) = SeenIn(s, s + seg_dmers)
<1>1. Covered(s) = SeenIn(s, s + seg_dmers)
  <2>1. s + seg_dmers - 1 = (s + seg_dmers) - 1
    BY CorpusIs
  <2> QED BY <2>1, Zenon DEF Covered, SeenIn
<1>2. ScoreOf(s) = SumOf(freq, Covered(s))
  BY Zenon DEF ScoreOf
<1> QED BY <1>1, <1>2, Zenon DEF Worth

(* A segment's dmers are dmers, and what it scores is a number: if that is *)
(* not 0, then one of them is still worth something.                       *)
LEMMA SegmentIs ==
  ASSUME Trained, NEW s \in 0..last_start
  PROVE  /\ Covered(s) \in SUBSET Dmers /\ ScoreOf(s) \in Nat
         /\ ScoreOf(s) # 0 => \E dm \in Covered(s) : freq[dm] # 0
<1>1. /\ samples \in Corpora /\ freq \in [Dmers -> Nat] /\ IsFiniteSet(Dmers)
  BY DmersFinite, Zenon DEF Trained
<1>2. Covered(s) \in SUBSET Dmers
  <2> DEFINE hi == s + seg_dmers
  <2>1. s \in Nat /\ hi \in Nat /\ hi <= total - D + 1
    <3>1. /\ total \in Nat /\ D \in Nat /\ k \in Nat /\ k >= D /\ last_start = total - k
          /\ seg_dmers = k - D + 1
      BY <1>1, CorpusIs DEF seg_dmers, last_start
    <3>2. s \in 0..(total - k)
      BY <3>1
    <3> QED BY <3>1, <3>2
  <2>2. Covered(s) = SeenIn(s, hi)
    BY <1>1, <2>1, ScoreIs, Zenon
  <2> HIDE DEF hi
  <2> QED BY <1>1, <2>1, <2>2, SeenDmers
<1>3. PICK F : Adds(F, freq, Dmers) /\ \A S \in SUBSET Dmers : SumOf(freq, S) = F[S]
  BY <1>1, SumIs, Zenon
<1>4. ScoreOf(s) = F[Covered(s)]
  <2>1. ScoreOf(s) = SumOf(freq, Covered(s))
    BY Zenon DEF ScoreOf
  <2> QED BY <1>2, <1>3, <2>1, Zenon
<1>5. F[Covered(s)] \in Nat
  BY <1>2, <1>3, Zenon DEF Adds
<1>6. ASSUME \A dm \in Covered(s) : freq[dm] = 0
      PROVE  F[Covered(s)] = 0
  <2> DEFINE Good == {t \in SUBSET Covered(s) : F[t] = 0}
  <2>1. {} \in Good
    <3>1. {} \in SUBSET Covered(s)
      OBVIOUS
    <3> QED BY <1>3, <3>1, Zenon DEF Adds
  <2>2. ASSUME NEW t \in SUBSET Covered(s), t # {}, \A x \in t : t \ {x} \in Good
        PROVE  t \in Good
    <3>1. PICK x \in t : TRUE
      BY <2>2
    <3>2. t \in SUBSET Dmers /\ x \in Covered(s)
      BY <1>2, <3>1
    <3>3. F[t] = freq[x] + F[t \ {x}]
      <4>1. \A u \in SUBSET Dmers : \A y \in u : F[u] = freq[y] + F[u \ {y}]
        BY <1>3 DEF Adds
      <4> QED BY <3>1, <3>2, <4>1
    <3>4. F[t \ {x}] = 0 /\ freq[x] = 0
      BY <1>6, <2>2, <3>1, <3>2, Zenon
    <3>5. F[t] = 0
      BY <3>3, <3>4
    <3> QED BY <3>5, Zenon
  <2>3. IsFiniteSet(Covered(s))
    BY <1>1, <1>2, FS_Subset
  <2>4. SUBSET Covered(s) \subseteq Good
    <3> HIDE DEF Good
    <3>1. \A t \in SUBSET Covered(s) : t # {} /\ (\A x \in t : t \ {x} \in Good) => t \in Good
      BY <2>2
    <3> QED BY <2>1, <2>3, <3>1, SubsetInduction, Zenon
  <2>5. Covered(s) \in Good
    <3>1. Covered(s) \in SUBSET Covered(s)
      OBVIOUS
    <3> HIDE DEF Good
    <3> QED BY <2>4, <3>1, Zenon
  <2> QED BY <2>5, Zenon
<1> QED BY <1>2, <1>4, <1>5, <1>6, Zenon

-----------------------------------------------------------------------------
(* The steps.                                                              *)

(* The corpus stays, and with it all that is made of it.                   *)
LEMMA SameCorpus ==
  ASSUME samples' = samples
  PROVE  /\ buf' = buf /\ total' = total /\ k' = k /\ seg_dmers' = seg_dmers
         /\ last_start' = last_start /\ Dmers' = Dmers
         /\ \A i, n : Within(i, n)' = Within(i, n)
         /\ \A s : Covered(s)' = Covered(s)
         /\ \A lo, hi : SeenIn(lo, hi)' = SeenIn(lo, hi)
         /\ \A dm, lo, hi : Places(dm, lo, hi)' = Places(dm, lo, hi)
<1>1. buf' = buf
  BY Zenon DEF buf
<1>2. total' = total
  BY <1>1, Zenon DEF total
<1>3. k' = k
  BY Zenon DEF k
<1>4. seg_dmers' = seg_dmers /\ last_start' = last_start
  BY <1>2, <1>3, Zenon DEF seg_dmers, last_start
<1>5. ASSUME NEW w
      PROVE  bounds(w)' = bounds(w)
  BY Zenon DEF bounds
<1>6. ASSUME NEW i, NEW n
      PROVE  Within(i, n)' = Within(i, n)
  BY <1>5, Zenon DEF Within
<1>7. ASSUME NEW i
      PROVE  dmer_at(i)' = dmer_at(i)
  BY <1>1, Zenon DEF dmer_at
<1>8. Dmers' = Dmers
  BY <1>2, <1>6, <1>7, Zenon DEF Dmers
<1>9. ASSUME NEW s
      PROVE  Covered(s)' = Covered(s)
  BY <1>4, <1>6, <1>7, Zenon DEF Covered
<1>10. ASSUME NEW lo, NEW hi
       PROVE  SeenIn(lo, hi)' = SeenIn(lo, hi)
  BY <1>6, <1>7, Zenon DEF SeenIn
<1>11. ASSUME NEW dm, NEW lo, NEW hi
       PROVE  Places(dm, lo, hi)' = Places(dm, lo, hi)
  BY <1>6, <1>7, Zenon DEF Places
<1> QED BY <1>1, <1>2, <1>3, <1>4, <1>6, <1>8, <1>9, <1>10, <1>11, Zenon

-----------------------------------------------------------------------------
(* The inductive invariant.                                                *)

(* The call is one of the calls, and the search has begun.                 *)
CallInv ==
  /\ samples \in Corpora /\ max_size \in MaxSizes
  /\ pc \in {"begin", "round", "slide", "trained", "done"}
  /\ pc \in {"round", "slide"} => Trained

(* What a picked segment covers is spent.                                  *)
PickedInv ==
  /\ selected \in Seq(0..last_start)
  /\ pc \in {"round", "slide"} =>
       \A i \in DOMAIN selected : \A dm \in Covered(selected[i]) : freq[dm] = 0
  /\ pc = "begin" => selected = <<>>

(* The window counts what stands in it, and the best start is a start.     *)
WindowInv ==
  pc = "slide" =>
    /\ start \in 0..last_start /\ best_start \in 0..last_start /\ best_score \in Nat
    /\ Counted([count |-> wcount, score |-> score], start, start + seg_dmers)

(* The content is cut to what was asked for.                               *)
ContentInv == content \in Seq(Byte) /\ Len(content) <= max_size

IInv ==
  /\ CallInv /\ PickedInv /\ WindowInv /\ ContentInv
  /\ BestSoFar /\ SegmentsWithin /\ NewCoverage /\ DictFits

(* With the worth of the dmers, the scores stay.                           *)
LEMMA SameWorth ==
  ASSUME samples' = samples, freq' = freq
  PROVE  /\ Trained' <=> Trained
         /\ \A s : ScoreOf(s)' = ScoreOf(s)
         /\ ScoreOf(best_start)' = ScoreOf(best_start')
<1>1. /\ total' = total /\ k' = k /\ Dmers' = Dmers /\ seg_dmers' = seg_dmers
      /\ \A s : Covered(s)' = Covered(s)
  BY SameCorpus
<1>2. Trained' <=> Trained
  BY <1>1, Zenon DEF Trained
<1>3. \A i, n : Within(i, n)' = Within(i, n)
  BY SameCorpus
<1>4. ASSUME NEW i
      PROVE  dmer_at(i)' = dmer_at(i)
  <2>1. buf' = buf
    BY SameCorpus
  <2> QED BY <2>1, Zenon DEF dmer_at
<1>5. ASSUME NEW s
      PROVE  ScoreOf(s)' = ScoreOf(s)
  BY <1>1, Zenon DEF ScoreOf
<1>6. Covered(best_start)' = Covered(best_start')
  BY <1>1, <1>3, <1>4, Zenon DEF Covered
<1>7. ScoreOf(best_start)' = ScoreOf(best_start')
  BY <1>6, Zenon DEF ScoreOf
<1> QED BY <1>2, <1>5, <1>7, Zenon

(* What holds of the next values with the corpus of now holds in the next  *)
(* state.                                                                  *)
LEMMA NextSelected ==
  ASSUME samples' = samples
  PROVE  /\ \A s : Within(s, k)' <=> Within(s, k)
         /\ Within(best_start, k)' <=> Within(best_start', k)
         /\ \A i : Within(selected[i], k)' <=> Within(selected'[i], k)
         /\ \A i : Covered(selected[i])' = Covered(selected'[i])
<1>1. /\ k' = k /\ seg_dmers' = seg_dmers /\ \A i, n : Within(i, n)' = Within(i, n)
  BY SameCorpus
<1>2. ASSUME NEW w
      PROVE  bounds(w)' = bounds(w)
  BY Zenon DEF bounds
<1>3. Within(best_start, k)' <=> Within(best_start', k)
  BY <1>1, <1>2, Zenon DEF Within
<1>4. ASSUME NEW s
      PROVE  Within(s, k)' <=> Within(s, k)
  BY <1>1, <1>2, Zenon DEF Within
<1>5. ASSUME NEW i
      PROVE  Within(selected[i], k)' <=> Within(selected'[i], k)
  BY <1>1, <1>2, Zenon DEF Within
<1>6. ASSUME NEW i
      PROVE  dmer_at(i)' = dmer_at(i)
  <2>1. buf' = buf
    BY SameCorpus
  <2> QED BY <2>1, Zenon DEF dmer_at
<1>7. ASSUME NEW i
      PROVE  Covered(selected[i])' = Covered(selected'[i])
  BY <1>1, <1>6, Zenon DEF Covered
<1> QED BY <1>3, <1>4, <1>5, <1>7, Zenon

LEMMA NextWindow ==
  ASSUME samples' = samples, freq' = freq,
         Counted([count |-> wcount', score |-> score'], start', start' + seg_dmers)
  PROVE  Counted([count |-> wcount, score |-> score], start, start + seg_dmers)'
<1> DEFINE win == [count |-> wcount', score |-> score']
           lo == start'
           hi == start' + seg_dmers
<1>1. /\ Dmers' = Dmers /\ seg_dmers' = seg_dmers /\ \A i, n : Within(i, n)' = Within(i, n)
  BY SameCorpus
<1>2. ASSUME NEW i
      PROVE  dmer_at(i)' = dmer_at(i)
  <2>1. buf' = buf
    BY SameCorpus
  <2> QED BY <2>1, Zenon DEF dmer_at
<1>3. /\ win \in Windows /\ win.score = Worth(lo, hi)
      /\ \A dm \in Dmers : win.count[dm] = Cardinality(Places(dm, lo, hi))
  BY Zenon DEF Counted
<1>4. [count |-> wcount, score |-> score]' \in Windows'
  BY <1>1, <1>3, Zenon DEF Windows
<1>5. ASSUME NEW dm
      PROVE  Places(dm, start, start + seg_dmers)' = Places(dm, lo, hi)
  BY <1>1, <1>2, Zenon DEF Places
<1>6. SeenIn(start, start + seg_dmers)' = SeenIn(lo, hi)
  BY <1>1, <1>2, Zenon DEF SeenIn
<1>7. Worth(start, start + seg_dmers)' = Worth(lo, hi)
  BY <1>6, Zenon DEF Worth
<1>8. \A dm \in Dmers' : [count |-> wcount, score |-> score]'.count[dm]
                           = Cardinality(Places(dm, start, start + seg_dmers)')
  BY <1>1, <1>3, <1>5, Zenon
<1> QED BY <1>3, <1>4, <1>7, <1>8, Zenon DEF Counted

(* A call begins in the invariant.                                         *)
LEMMA Starts ==
  ASSUME Init
  PROVE  IInv
<1>1. samples \in Corpora /\ max_size \in MaxSizes /\ pc = "begin" /\ selected = <<>>
      /\ content = <<>>
  BY Zenon DEF Init
<1>2. max_size \in Nat
  BY <1>1, TrainerAssumption
<1>3. CallInv
  BY <1>1, Zenon DEF CallInv
<1>4. <<>> \in Seq(0..last_start) /\ <<>> \in Seq(Byte) /\ Len(<<>>) = 0 /\ DOMAIN <<>> = {}
  OBVIOUS
<1>5. PickedInv /\ SegmentsWithin /\ NewCoverage
  <2>1. "begin" \notin {"round", "slide"}
    OBVIOUS
  <2> QED BY <1>1, <1>4, <2>1, Zenon DEF PickedInv, SegmentsWithin, NewCoverage
<1>6. ContentInv
  <2>1. Len(content) = 0 /\ content \in Seq(Byte)
    BY <1>1, <1>4, Zenon
  <2> QED BY <1>2, <2>1 DEF ContentInv
<1>7. WindowInv /\ BestSoFar /\ DictFits
  <2>1. "begin" # "slide" /\ "begin" # "done"
    OBVIOUS
  <2> QED BY <1>1, <2>1, Zenon DEF WindowInv, BestSoFar, DictFits, SizeHonored, Loadable
<1> QED BY <1>3, <1>5, <1>6, <1>7, Zenon DEF IInv

(* What was picked stays good while nothing is picked.                     *)
LEMMA SelectedStays ==
  ASSUME IInv, samples' = samples, selected' = selected
  PROVE  selected' \in Seq(0..last_start') /\ SegmentsWithin' /\ NewCoverage'
<1>1. selected \in Seq(0..last_start) /\ SegmentsWithin /\ NewCoverage
  BY Zenon DEF IInv, PickedInv
<1>2. last_start' = last_start
  BY SameCorpus
<1>3. /\ \A i : Within(selected[i], k)' <=> Within(selected[i], k)
      /\ \A i : Covered(selected[i])' = Covered(selected[i])
  BY NextSelected
<1>4. SegmentsWithin'
  BY <1>1, <1>3, Zenon DEF SegmentsWithin
<1>5. NewCoverage'
  <2>1. \A j : UNION {Covered(selected[i])' : i \in 1..(j - 1)}
                 = UNION {Covered(selected[i]) : i \in 1..(j - 1)}
    BY <1>3, Zenon
  <2>2. ASSUME NEW j \in DOMAIN selected'
        PROVE  ~(Covered(selected[j])' \subseteq
                   UNION {Covered(selected[i])' : i \in 1..(j - 1)})
    BY <1>1, <1>3, <2>1, <2>2, Zenon DEF NewCoverage
  <2> QED BY <2>2, Zenon DEF NewCoverage
<1> QED BY <1>1, <1>2, <1>4, <1>5, Zenon

(* Each action keeps the invariant.                                        *)
LEMMA BeginStep ==
  ASSUME IInv, Begin
  PROVE  IInv'
<1>1. /\ samples' = samples /\ max_size' = max_size /\ selected' = selected
      /\ content' = content /\ result' = result /\ pc = "begin"
      /\ pc' = (IF max_size = 0 \/ total < D \/ total < k THEN "trained" ELSE "round")
      /\ freq' = (IF pc' = "round" THEN CountFreq ELSE freq)
  BY Zenon DEF Begin
<1>2. samples \in Corpora /\ max_size \in MaxSizes
  BY Zenon DEF IInv, CallInv
<1>3. pc' \in {"trained", "round"} /\ pc' # "slide" /\ pc' # "done"
      /\ pc' \in {"begin", "round", "slide", "trained", "done"}
  BY <1>1
<1>4. pc' \in {"round", "slide"} => pc' = "round" /\ k <= total
  <2>1. k \in Nat /\ total \in Nat
    BY <1>2, CorpusIs
  <2>2. ~(total < k) => k <= total
    BY <2>1
  <2>3. pc' \in {"round", "slide"} => pc' = "round"
    BY <1>3
  <2>4. "trained" # "round"
    OBVIOUS
  <2> QED BY <1>1, <2>2, <2>3, <2>4, Zenon
<1>5. CountFreq \in [Dmers -> Nat]
  <2> DEFINE seen(dm) == {w \in DOMAIN samples :
                       \E i \in bounds(w)..(bounds(w) + Len(samples[w]) - D) : dmer_at(i) = dm}
  <2>1. IsFiniteSet(DOMAIN samples)
    <3>1. DOMAIN samples = 1..Len(samples) /\ 1 \in Int /\ Len(samples) \in Int
      BY <1>2, CorpusIs
    <3>2. IsFiniteSet(1..Len(samples))
      BY <3>1, FS_Interval
    <3> QED BY <3>1, <3>2, Zenon
  <2>2. ASSUME NEW dm \in Dmers
        PROVE  Cardinality(seen(dm)) \in Nat
    <3>1. seen(dm) \in SUBSET DOMAIN samples
      BY Zenon
    <3> HIDE DEF seen
    <3>2. IsFiniteSet(seen(dm))
      BY <2>1, <3>1, FS_Subset
    <3> QED BY <3>2, FS_CardinalityType
  <2>3. CountFreq = [dm \in Dmers |-> Cardinality(seen(dm))]
    BY Zenon DEF CountFreq
  <2> HIDE DEF seen
  <2> QED BY <2>2, <2>3, Zenon
<1>6. /\ total' = total /\ k' = k /\ Dmers' = Dmers /\ last_start' = last_start
  BY <1>1, SameCorpus
<1>7. pc' \in {"round", "slide"} => Trained'
  BY <1>1, <1>2, <1>4, <1>5, <1>6, Zenon DEF Trained
<1>8. CallInv'
  BY <1>1, <1>2, <1>3, <1>7, Zenon DEF CallInv
<1>9. /\ selected' \in Seq(0..last_start') /\ SegmentsWithin' /\ NewCoverage'
  BY <1>1, SelectedStays
<1>10. PickedInv'
  <2>1. selected = <<>> /\ pc' # "begin"
    BY <1>1, <1>3 DEF IInv, PickedInv
  <2>2. DOMAIN <<>> = {}
    OBVIOUS
  <2> QED BY <1>1, <1>9, <2>1, <2>2, Zenon DEF PickedInv
<1>11. WindowInv' /\ BestSoFar' /\ DictFits'
  BY <1>3, Zenon DEF WindowInv, BestSoFar, DictFits, SizeHonored, Loadable
<1>12. ContentInv'
  BY <1>1, Zenon DEF IInv, ContentInv
<1> QED BY <1>8, <1>9, <1>10, <1>11, <1>12, Zenon DEF IInv

(* The window that is kept in the variables.                               *)
LEMMA PairIs ==
  ASSUME NEW win \in Windows
  PROVE  [count |-> win.count, score |-> win.score] = win
BY ONLY win \in Windows DEF Windows

(* The invariant of the call while nothing but the search moves.           *)
LEMMA SearchStays ==
  ASSUME IInv, samples' = samples, max_size' = max_size, freq' = freq, selected' = selected,
         content' = content, pc \in {"round", "slide"}, pc' = "slide"
  PROVE  /\ CallInv' /\ PickedInv' /\ ContentInv'
         /\ SegmentsWithin' /\ NewCoverage' /\ DictFits'
         /\ Trained /\ samples \in Corpora
<1>1. /\ samples \in Corpora /\ max_size \in MaxSizes /\ Trained
      /\ \A i \in DOMAIN selected : \A dm \in Covered(selected[i]) : freq[dm] = 0
      /\ ContentInv
  BY Zenon DEF IInv, CallInv, PickedInv
<1>2. pc' \in {"begin", "round", "slide", "trained", "done"} /\ pc' # "done" /\ pc' # "begin"
  OBVIOUS
<1>3. Trained' <=> Trained
  BY SameWorth
<1>4. CallInv'
  BY <1>1, <1>2, <1>3, Zenon DEF CallInv
<1>5. selected' \in Seq(0..last_start') /\ SegmentsWithin' /\ NewCoverage'
  BY SelectedStays
<1>6. \A i : Covered(selected[i])' = Covered(selected[i])
  BY NextSelected
<1>7. PickedInv'
  BY <1>1, <1>2, <1>5, <1>6, Zenon DEF PickedInv
<1>8. ContentInv'
  BY <1>1, Zenon DEF ContentInv
<1>9. DictFits'
  BY <1>2, Zenon DEF DictFits, SizeHonored, Loadable
<1> QED BY <1>1, <1>4, <1>5, <1>7, <1>8, <1>9, Zenon

LEMMA RoundStep ==
  ASSUME IInv, Round
  PROVE  IInv'
<1>1. /\ samples' = samples /\ max_size' = max_size /\ freq' = freq /\ selected' = selected
      /\ content' = content /\ pc = "round" /\ pc' = "slide"
      /\ wcount' = FirstWindow.count /\ score' = FirstWindow.score
      /\ best_score' = SeedBest(score') /\ best_start' = 0 /\ start' = 0
  BY Zenon DEF Round, Window, FirstWindow
<1>2. /\ CallInv' /\ PickedInv' /\ ContentInv'
      /\ SegmentsWithin' /\ NewCoverage' /\ DictFits'
      /\ Trained /\ samples \in Corpora
  BY <1>1, SearchStays
<1>3. /\ total \in Nat /\ k \in Nat /\ k <= total /\ seg_dmers \in Nat
      /\ 0 + seg_dmers = seg_dmers /\ 0 \in 0..last_start /\ 0 \in Nat
  BY <1>2, CorpusIs DEF Trained, last_start
<1>4. Counted(FirstWindow, 0, seg_dmers) /\ FirstWindow \in Windows
  BY <1>2, SeedIs, Zenon DEF Counted
<1>5. Counted([count |-> wcount', score |-> score'], start', start' + seg_dmers)
  <2>1. [count |-> wcount', score |-> score'] = FirstWindow
    BY <1>1, <1>4, PairIs, Zenon
  <2>2. start' + seg_dmers = seg_dmers
    BY <1>1, <1>3
  <2> QED BY <1>1, <1>4, <2>1, <2>2, Zenon
<1>6. Counted([count |-> wcount, score |-> score], start, start + seg_dmers)'
  BY <1>1, <1>5, NextWindow
<1>7. last_start' = last_start /\ \A s : Within(s, k)' <=> Within(s, k)
  <2>1. last_start' = last_start
    BY <1>1, SameCorpus
  <2>2. \A s : Within(s, k)' <=> Within(s, k)
    BY <1>1, NextSelected
  <2> QED BY <2>1, <2>2
<1>8. score' = ScoreOf(0) /\ score' \in Nat
  <2>1. FirstWindow.score = Worth(0, seg_dmers) /\ FirstWindow.score \in Nat
    BY <1>4, WindowIs
  <2>2. ScoreOf(0) = Worth(0, 0 + seg_dmers)
    BY <1>2, <1>3, ScoreIs
  <2> QED BY <1>1, <1>3, <2>1, <2>2, Zenon
<1>9. best_score' = (IF Within(0, k) THEN score' ELSE 0) /\ best_score' \in Nat
  <2>1. best_score' = (IF Within(0, k) THEN score' ELSE 0)
    BY <1>1, Zenon DEF SeedBest
  <2> QED BY <1>8, <2>1
<1>10. WindowInv'
  BY <1>1, <1>3, <1>6, <1>7, <1>9, Zenon DEF WindowInv
<1>11. BestSoFar'
  <2>1. /\ \A s : ScoreOf(s)' = ScoreOf(s)
        /\ ScoreOf(best_start)' = ScoreOf(best_start')
    BY <1>1, SameWorth
  <2>2. Within(best_start, k)' <=> Within(best_start', k)
    BY <1>1, NextSelected
  <2>3. ASSUME NEW s \in 0..start', Within(s, k)'
        PROVE  ScoreOf(s)' <= best_score'
    <3>1. s = 0
      BY <1>1
    <3>2. Within(0, k)
      BY <1>7, <2>3, <3>1, Zenon
    <3>3. best_score' = score' /\ ScoreOf(s)' = score'
      BY <1>8, <1>9, <2>1, <3>1, <3>2, Zenon
    <3> QED BY <1>8, <3>3
  <2>4. ASSUME best_score' > 0
        PROVE  Within(best_start, k)' /\ ScoreOf(best_start)' = best_score'
    <3>1. Within(0, k) /\ best_score' = score'
      BY <1>9, <2>4
    <3> QED BY <1>1, <1>8, <2>1, <2>2, <3>1, Zenon
  <2> QED BY <2>3, <2>4, Zenon DEF BestSoFar
<1> QED BY <1>2, <1>10, <1>11, Zenon DEF IInv

LEMMA SlideStep ==
  ASSUME IInv, Slide
  PROVE  IInv'
<1> DEFINE win == [count |-> wcount, score |-> score]
           hi == start + seg_dmers
           next == Entering(Leaving(win, start), hi)
<1>1. /\ samples' = samples /\ max_size' = max_size /\ freq' = freq /\ selected' = selected
      /\ content' = content /\ pc = "slide" /\ pc' = "slide"
      /\ start < last_start /\ start' = start + 1
      /\ wcount' = next.count /\ score' = next.score
      /\ best_score' = (IF Better(start + 1, score') THEN score' ELSE best_score)
      /\ best_start' = (IF Better(start + 1, score') THEN start + 1 ELSE best_start)
  BY Zenon DEF Slide, Window
<1>2. /\ CallInv' /\ PickedInv' /\ ContentInv'
      /\ SegmentsWithin' /\ NewCoverage' /\ DictFits'
      /\ Trained /\ samples \in Corpora
  BY <1>1, SearchStays
<1>3. /\ start \in 0..last_start /\ best_start \in 0..last_start /\ best_score \in Nat
      /\ Counted(win, start, hi)
  BY <1>1, Zenon DEF IInv, WindowInv
<1>4. /\ hi \in Nat /\ start \in Nat /\ start < hi /\ hi <= total - D /\ start + 1 \in Nat
      /\ start + 1 <= hi /\ hi <= total - D + 1 /\ start + 1 \in 0..last_start
      /\ (start + 1) + seg_dmers = hi + 1
  <2>1. /\ total \in Nat /\ k \in Nat /\ D \in Nat /\ seg_dmers \in Nat \ {0}
        /\ seg_dmers = k - D + 1 /\ last_start = total - k
    BY <1>2, CorpusIs DEF seg_dmers, last_start
  <2> QED BY <1>1, <1>3, <2>1
<1>5. Counted(Leaving(win, start), start + 1, hi)
  <2> HIDE DEF win, hi
  <2> QED BY <1>2, <1>3, <1>4, LeavingIs
<1>6. Counted(next, start + 1, hi + 1)
  <2> DEFINE w == Leaving(win, start)
             lo == start + 1
  <2>1. Counted(w, lo, hi) /\ lo \in Nat /\ lo <= hi
    BY <1>4, <1>5
  <2> HIDE DEF w, lo, hi
  <2>2. Counted(Entering(w, hi), lo, hi + 1)
    BY <1>2, <1>4, <2>1, EnteringIs
  <2> QED BY <2>2, Zenon DEF w, lo
<1> HIDE DEF next, hi, win
<1>7. Counted([count |-> wcount', score |-> score'], start', start' + seg_dmers)
  <2>1. next \in Windows
    BY <1>6, Zenon DEF Counted
  <2>2. [count |-> wcount', score |-> score'] = next
    BY <1>1, <2>1, PairIs, Zenon
  <2> QED BY <1>1, <1>4, <1>6, <2>2, Zenon
<1>8. Counted([count |-> wcount, score |-> score], start, start + seg_dmers)'
  BY <1>1, <1>7, NextWindow
<1>9. last_start' = last_start /\ \A s : Within(s, k)' <=> Within(s, k)
  <2>1. last_start' = last_start
    BY <1>1, SameCorpus
  <2>2. \A s : Within(s, k)' <=> Within(s, k)
    BY <1>1, NextSelected
  <2> QED BY <2>1, <2>2
<1>10. score' = ScoreOf(start + 1) /\ score' \in Nat
  <2>1. next.score = Worth(start + 1, hi + 1) /\ next.score \in Nat
    BY <1>6, WindowIs
  <2>2. ScoreOf(start + 1) = Worth(start + 1, (start + 1) + seg_dmers)
    BY <1>2, <1>4, ScoreIs
  <2> QED BY <1>1, <1>4, <2>1, <2>2, Zenon
<1>11. WindowInv'
  <2>1. /\ start' \in 0..last_start /\ best_start' \in 0..last_start /\ best_score' \in Nat
    BY <1>1, <1>3, <1>4, <1>10
  <2> QED BY <1>8, <1>9, <2>1, Zenon DEF WindowInv
<1>12. BestSoFar'
  <2>1. /\ \A s : ScoreOf(s)' = ScoreOf(s)
        /\ ScoreOf(best_start)' = ScoreOf(best_start')
    BY <1>1, SameWorth
  <2>2. Within(best_start, k)' <=> Within(best_start', k)
    BY <1>1, NextSelected
  <2>3. /\ \A s \in 0..start : Within(s, k) => ScoreOf(s) <= best_score
        /\ best_score > 0 => Within(best_start, k) /\ ScoreOf(best_start) = best_score
    BY <1>1, Zenon DEF IInv, BestSoFar
  <2>4. Better(start + 1, score') <=> Within(start + 1, k) /\ score' > best_score
    BY Zenon DEF Better
  <2>5. best_score' >= best_score /\ (Within(start + 1, k) => best_score' >= score')
    BY <1>1, <1>3, <1>10, <2>4
  <2>6. ASSUME NEW s \in 0..start', Within(s, k)'
        PROVE  ScoreOf(s)' <= best_score'
    <3>1. Within(s, k) /\ ScoreOf(s)' = ScoreOf(s)
      BY <1>9, <2>1, <2>6, Zenon
    <3>2. s \in 0..start \/ s = start + 1
      BY <1>1, <1>4
    <3>3. CASE s \in 0..start
      <4>1. s \in 0..last_start
        BY <1>2, <1>3, <3>3, CorpusIs
      <4>2. ScoreOf(s) \in Nat /\ best_score' \in Nat
        BY <1>2, <1>1, <1>3, <1>10, <4>1, SegmentIs
      <4>3. ScoreOf(s) <= best_score
        BY <2>3, <3>1, <3>3
      <4> QED BY <1>3, <2>5, <3>1, <4>2, <4>3
    <3>4. CASE s = start + 1
      <4>1. ScoreOf(s) = score' /\ best_score' >= score'
        BY <1>10, <2>5, <3>1, <3>4, Zenon
      <4> QED BY <1>1, <1>3, <1>10, <3>1, <4>1
    <3> QED BY <3>2, <3>3, <3>4, Zenon
  <2>7. ASSUME best_score' > 0
        PROVE  Within(best_start, k)' /\ ScoreOf(best_start)' = best_score'
    <3>1. CASE Better(start + 1, score')
      BY <1>1, <1>10, <2>1, <2>2, <2>4, <3>1, Zenon
    <3>2. CASE ~Better(start + 1, score')
      <4>1. best_score' = best_score /\ best_start' = best_start
        BY <1>1, <3>2, Zenon
      <4> QED BY <2>1, <2>2, <2>3, <2>7, <4>1, Zenon
    <3> QED BY <3>1, <3>2, Zenon
  <2> QED BY <2>6, <2>7, Zenon DEF BestSoFar
<1> QED BY <1>2, <1>11, <1>12, Zenon DEF IInv

LEMMA PickStep ==
  ASSUME IInv, Pick
  PROVE  IInv'
<1> DEFINE n == Len(selected)
<1>1. /\ samples' = samples /\ max_size' = max_size /\ content' = content
      /\ pc = "slide" /\ best_score > 0 /\ pc' = "round"
      /\ selected' = Append(selected, best_start) /\ freq' = Spent(best_start)
  BY Zenon DEF Pick
<1>2. /\ samples \in Corpora /\ max_size \in MaxSizes /\ Trained /\ freq \in [Dmers -> Nat]
      /\ selected \in Seq(0..last_start) /\ ContentInv /\ SegmentsWithin /\ NewCoverage
      /\ \A i \in DOMAIN selected : \A dm \in Covered(selected[i]) : freq[dm] = 0
  BY <1>1 DEF IInv, CallInv, PickedInv, Trained
<1>3. /\ best_start \in 0..last_start /\ Within(best_start, k) /\ best_score \in Nat
      /\ ScoreOf(best_start) = best_score
  BY <1>1, Zenon DEF IInv, WindowInv, BestSoFar
<1>4. /\ n \in Nat /\ selected' \in Seq(0..last_start) /\ DOMAIN selected = 1..n
      /\ DOMAIN selected' = 1..(n + 1) /\ selected'[n + 1] = best_start
      /\ \A i \in 1..n : selected'[i] = selected[i] /\ selected[i] \in 0..last_start
  <2> DEFINE S == 0..last_start
             a == Append(selected, best_start)
  <2>1. selected \in Seq(S) /\ best_start \in S
    BY <1>2, <1>3, Zenon
  <2> HIDE DEF S
  <2>2. /\ n \in Nat /\ DOMAIN selected = 1..n /\ a \in Seq(S) /\ Len(a) = n + 1
        /\ a[n + 1] = best_start /\ \A i \in 1..n : a[i] = selected[i]
    BY <2>1, AppendProperties
  <2>3. \A i \in 1..n : selected[i] \in S
    BY <2>1, ElementOfSeq
  <2>4. DOMAIN a = 1..(n + 1)
    BY <2>2
  <2> HIDE DEF a, n
  <2> QED BY <1>1, <2>2, <2>3, <2>4, Zenon DEF S, a
<1> HIDE DEF n
<1>5. /\ \A i : Within(selected[i], k)' <=> Within(selected'[i], k)
      /\ \A i : Covered(selected[i])' = Covered(selected'[i])
  BY <1>1, NextSelected
<1>6. last_start' = last_start /\ Dmers' = Dmers /\ k' = k /\ total' = total
  BY <1>1, SameCorpus
<1>7. \A dm \in Dmers : freq'[dm] = IF dm \in Covered(best_start) THEN 0 ELSE freq[dm]
  BY <1>1, Zenon DEF Spent
<1>8. freq' \in [Dmers -> Nat]
  BY <1>1, <1>2 DEF Spent
<1>9. CallInv'
  <2>1. Trained'
    BY <1>1, <1>2, <1>6, <1>8, Zenon DEF Trained
  <2>2. pc' \in {"begin", "round", "slide", "trained", "done"}
    BY <1>1
  <2> QED BY <1>1, <1>2, <2>1, <2>2, Zenon DEF CallInv
<1>10. \A i : i \in 1..(n + 1) <=> i \in 1..n \/ i = n + 1
  BY <1>4
<1>11. PickedInv'
  <2>1. ASSUME NEW i \in DOMAIN selected', NEW dm \in Covered(selected[i])'
        PROVE  freq'[dm] = 0
    <3>1. dm \in Covered(selected'[i])
      BY <1>5, <2>1, Zenon
    <3>2. CASE i \in 1..n
      <4>1. selected'[i] = selected[i] /\ selected[i] \in 0..last_start
        BY <1>4, <3>2, Zenon
      <4>2. dm \in Covered(selected[i])
        BY <3>1, <4>1, Zenon
      <4>3. freq[dm] = 0
        BY <1>2, <1>4, <3>2, <4>2, Zenon
      <4>4. dm \in Dmers
        <5>1. Covered(selected[i]) \in SUBSET Dmers
          BY <1>2, <4>1, SegmentIs
        <5> QED BY <4>2, <5>1, Zenon
      <4> QED BY <1>7, <4>3, <4>4, Zenon
    <3>3. CASE i = n + 1
      <4>1. dm \in Covered(best_start)
        BY <1>4, <3>1, <3>3, Zenon
      <4>2. dm \in Dmers
        <5>1. Covered(best_start) \in SUBSET Dmers
          BY <1>2, <1>3, SegmentIs
        <5> QED BY <4>1, <5>1, Zenon
      <4> QED BY <1>7, <4>1, <4>2, Zenon
    <3> QED BY <1>4, <1>10, <3>2, <3>3, Zenon
  <2>2. selected' \in Seq(0..last_start')
    BY <1>4, <1>6, Zenon
  <2>3. pc' # "begin"
    BY <1>1
  <2> QED BY <2>1, <2>2, <2>3, Zenon DEF PickedInv
<1>12. SegmentsWithin'
  <2>1. ASSUME NEW i \in DOMAIN selected'
        PROVE  Within(selected'[i], k)
    <3>1. CASE i \in 1..n
      BY <1>2, <1>4, <3>1, Zenon DEF SegmentsWithin
    <3>2. CASE i = n + 1
      BY <1>3, <1>4, <3>2, Zenon
    <3> QED BY <1>4, <1>10, <3>1, <3>2, Zenon
  <2> QED BY <1>5, <2>1, Zenon DEF SegmentsWithin
<1>13. NewCoverage'
  <2>1. ASSUME NEW j \in DOMAIN selected'
        PROVE  \E dm \in Covered(selected'[j]) :
                 \A i \in 1..(j - 1) : dm \notin Covered(selected'[i])
    <3>1. CASE j \in 1..n
      <4>1. \A i \in 1..(j - 1) : i \in 1..n
        BY <1>4, <3>1
      <4>2. ~(Covered(selected[j]) \subseteq UNION {Covered(selected[i]) : i \in 1..(j - 1)})
        BY <1>2, <1>4, <3>1, Zenon DEF NewCoverage
      <4>3. PICK dm \in Covered(selected[j]) :
               dm \notin UNION {Covered(selected[i]) : i \in 1..(j - 1)}
        BY <4>2, Zenon
      <4>4. \A i \in 1..(j - 1) : dm \notin Covered(selected[i])
        BY <4>3, Zenon
      <4> QED BY <1>4, <3>1, <4>1, <4>3, <4>4, Zenon
    <3>2. CASE j = n + 1
      <4>1. PICK dm \in Covered(best_start) : freq[dm] # 0
        <5>1. ScoreOf(best_start) # 0
          BY <1>1, <1>3
        <5> QED BY <1>2, <1>3, <5>1, SegmentIs
      <4>2. j - 1 = n
        BY <1>4, <3>2
      <4>3. \A i \in 1..n : dm \notin Covered(selected'[i])
        BY <1>2, <1>4, <4>1, Zenon
      <4> QED BY <1>4, <3>2, <4>1, <4>2, <4>3, Zenon
    <3> QED BY <1>4, <1>10, <3>1, <3>2, Zenon
  <2>2. ASSUME NEW j \in DOMAIN selected'
        PROVE  ~(Covered(selected[j])' \subseteq
                   UNION {Covered(selected[i])' : i \in 1..(j - 1)})
    <3>1. PICK dm \in Covered(selected'[j]) :
             \A i \in 1..(j - 1) : dm \notin Covered(selected'[i])
      BY <2>1
    <3>2. dm \in Covered(selected[j])' /\ \A i \in 1..(j - 1) : dm \notin Covered(selected[i])'
      BY <1>5, <3>1, Zenon
    <3> QED BY <3>2, Zenon
  <2> QED BY <2>2, Zenon DEF NewCoverage
<1>14. WindowInv' /\ BestSoFar' /\ DictFits'
  <2>1. pc' # "slide" /\ pc' # "done"
    BY <1>1
  <2> QED BY <2>1, Zenon DEF WindowInv, BestSoFar, DictFits, SizeHonored, Loadable
<1>15. ContentInv'
  BY <1>1, <1>2, Zenon DEF ContentInv
<1> QED BY <1>9, <1>11, <1>12, <1>13, <1>14, <1>15, Zenon DEF IInv

(* The picked segments, joined.                                            *)
LEMMA SegmentsType ==
  ASSUME samples \in Corpora, selected \in Seq(0..last_start)
  PROVE  Segments \in Seq(Byte)
<1> DEFINE n == Len(selected)
           pieces == [i \in DOMAIN selected |-> SubSeq(buf, selected[i] + 1, selected[i] + k)]
           S == Seq(Byte)
<1>1. n \in Nat /\ DOMAIN selected = 1..n
  OBVIOUS
<1>2. ASSUME NEW i \in 1..n
      PROVE  pieces[i] \in S
  <2> DEFINE lo == selected[i]
             hi == lo + k
  <2>1. lo \in 0..last_start
    BY <1>1, ElementOfSeq
  <2>2. /\ buf \in Seq(Byte) /\ lo \in Nat /\ hi \in Nat /\ lo <= hi /\ hi <= Len(buf)
    <3>1. buf \in Seq(Byte) /\ total \in Nat /\ k \in Nat /\ last_start = total - k
      BY CorpusIs, Zenon DEF last_start
    <3>2. total = Len(buf)
      BY Zenon DEF total
    <3> HIDE DEF lo
    <3>3. lo \in Nat /\ lo + k \in Nat /\ lo <= lo + k /\ lo + k <= total
      BY <2>1, <3>1
    <3> QED BY <3>1, <3>2, <3>3, Zenon
  <2>3. pieces[i] = SubSeq(buf, lo + 1, hi)
    BY <1>1, Zenon
  <2> HIDE DEF lo, hi, pieces
  <2>4. SubSeq(buf, lo + 1, hi) \in Seq(Byte)
    BY <2>2, Slice
  <2> QED BY <2>3, <2>4, Zenon
<1>3. pieces \in [1..n -> S]
  <2>1. pieces = [i \in 1..n |-> pieces[i]]
    BY <1>1, Zenon
  <2> HIDE DEF pieces, n, S
  <2> QED BY <1>2, <2>1, Zenon
<1> HIDE DEF pieces, S
<1>4. pieces \in Seq(S) /\ Len(pieces) = n
  <2> HIDE DEF n
  <2> QED BY <1>1, <1>3
<1>5. Reverse(pieces) \in Seq(S)
  <2>1. Reverse(pieces) = [i \in 1..n |-> pieces[(n - i) + 1]]
    BY <1>4, Zenon DEF Reverse
  <2> HIDE DEF n
  <2>2. \A i \in 1..n : pieces[(n - i) + 1] \in S
    <3>1. \A i \in 1..n : (n - i) + 1 \in 1..n
      BY <1>1
    <3> QED BY <1>3, <3>1, Zenon
  <2>3. Reverse(pieces) \in [1..n -> S]
    BY <2>1, <2>2, Zenon
  <2> QED BY <1>1, <2>3
<1>6. Segments = FlattenSeq(Reverse(pieces))
  BY Zenon DEF Segments, pieces
<1> QED BY <1>5, <1>6, FlattenType, Zenon DEF S

(* The end of a sequence.                                                  *)
LEMMA LastOfIs ==
  ASSUME NEW S, NEW s \in Seq(S), NEW n \in Nat, n <= Len(s)
  PROVE  LastOf(s, n) \in Seq(S) /\ Len(LastOf(s, n)) = n
<1> DEFINE lo == Len(s) - n
           hi == Len(s)
<1>1. lo \in Nat /\ hi \in Nat /\ lo <= hi /\ hi <= Len(s) /\ hi - lo = n
  OBVIOUS
<1>2. LastOf(s, n) = SubSeq(s, lo + 1, hi)
  BY Zenon DEF LastOf
<1> HIDE DEF lo, hi
<1>3. SubSeq(s, lo + 1, hi) \in Seq(S) /\ Len(SubSeq(s, lo + 1, hi)) = hi - lo
  BY <1>1, Slice
<1> QED BY <1>1, <1>2, <1>3, Zenon

LEMMA ConcatenateStep ==
  ASSUME IInv, Concatenate
  PROVE  IInv'
<1> DEFINE n == Min({Len(Segments), max_size})
<1>1. /\ samples' = samples /\ max_size' = max_size /\ selected' = selected
      /\ pc' = "trained" /\ content' = LastOf(Segments, n)
  BY Zenon DEF Concatenate
<1>2. /\ samples \in Corpora /\ max_size \in MaxSizes /\ selected \in Seq(0..last_start)
  BY Zenon DEF IInv, CallInv, PickedInv
<1>3. Segments \in Seq(Byte)
  BY <1>2, SegmentsType
<1>4. n \in Nat /\ n <= Len(Segments) /\ n <= max_size
  <2>1. Len(Segments) \in Nat /\ max_size \in Nat
    BY <1>2, <1>3, TrainerAssumption
  <2> QED BY <2>1, TwoMax
<1> HIDE DEF n
<1>5. LastOf(Segments, n) \in Seq(Byte) /\ Len(LastOf(Segments, n)) = n
  BY <1>3, <1>4, LastOfIs
<1>6. ContentInv'
  <2>1. content' \in Seq(Byte) /\ Len(content') = n
    BY <1>1, <1>5, Zenon
  <2> QED BY <1>1, <1>4, <2>1, Zenon DEF ContentInv
<1>7. /\ pc' \notin {"round", "slide"} /\ pc' # "slide" /\ pc' # "done" /\ pc' # "begin"
      /\ pc' \in {"begin", "round", "slide", "trained", "done"}
  BY <1>1
<1>8. /\ selected' \in Seq(0..last_start') /\ SegmentsWithin' /\ NewCoverage'
  BY <1>1, SelectedStays
<1>9. CallInv'
  BY <1>1, <1>2, <1>7, Zenon DEF CallInv
<1>10. PickedInv'
  BY <1>7, <1>8, Zenon DEF PickedInv
<1>11. WindowInv' /\ BestSoFar' /\ DictFits'
  BY <1>7, Zenon DEF WindowInv, BestSoFar, DictFits, SizeHonored, Loadable
<1> QED BY <1>6, <1>8, <1>9, <1>10, <1>11, Zenon DEF IInv

LEMMA FinishStep ==
  ASSUME IInv, Finish
  PROVE  IInv'
<1>1. /\ samples' = samples /\ max_size' = max_size /\ selected' = selected
      /\ content' = content /\ pc' = "done"
  BY Zenon DEF Finish
<1>2. PICK sparse \in BOOLEAN, header \in Headers :
         result' = IF Raw(sparse, header) THEN [header |-> 0, content |-> content]
                   ELSE [header |-> header, content |-> SubSeq(content, 1, Kept(header))]
  BY Zenon DEF Finish
<1>3. /\ samples \in Corpora /\ max_size \in MaxSizes
      /\ content \in Seq(Byte) /\ Len(content) <= max_size
  BY Zenon DEF IInv, CallInv, ContentInv
<1>4. max_size \in Nat /\ header \in Nat /\ LargestRep \in Nat /\ Len(content) \in Nat
  BY <1>3, TrainerAssumption
<1>5. /\ pc' \notin {"round", "slide"} /\ pc' # "slide" /\ pc' # "begin"
      /\ pc' \in {"begin", "round", "slide", "trained", "done"}
  BY <1>1
<1>6. DictFits'
  <2>1. CASE Raw(sparse, header)
    <3>1. result' = [header |-> 0, content |-> content]
      BY <1>2, <2>1, Zenon
    <3>2. result'.header = 0 /\ result'.content = content
      BY ONLY <3>1
    <3> QED BY <1>1, <1>3, <1>4, <3>2 DEF DictFits, SizeHonored, Loadable
  <2>2. CASE ~Raw(sparse, header)
    <3> DEFINE n == Kept(header)
               kept == SubSeq(content, 1, n)
    <3>1. result' = [header |-> header, content |-> kept]
      BY <1>2, <2>2, Zenon
    <3>2. result'.header = header /\ result'.content = kept
      <4> HIDE DEF kept
      <4> QED BY ONLY <3>1
    <3>3. ~(Len(content) < LargestRep) /\ ~(header + LargestRep > max_size)
      BY <2>2, Zenon DEF Raw, TooLittleRoom
    <3>4. /\ n \in Nat /\ n <= Len(content) /\ n <= max_size - header /\ n >= LargestRep
      <4> DEFINE room == max_size - header
      <4>1. room \in Nat /\ room >= LargestRep /\ Len(content) >= LargestRep
        BY <1>4, <3>3
      <4> HIDE DEF room
      <4>2. LET m == Min({Len(content), room})
            IN  m \in Nat /\ m <= Len(content) /\ m <= room /\ (m = Len(content) \/ m = room)
        BY <1>4, <4>1, TwoMax
      <4>3. n = Min({Len(content), room})
        BY Zenon DEF Kept, room
      <4> DEFINE m == Min({Len(content), room})
      <4>4. m \in Nat /\ m <= Len(content) /\ m <= room /\ (m = Len(content) \/ m = room)
        BY <4>2
      <4> HIDE DEF m, n
      <4>5. n = m
        BY <4>3, Zenon DEF m
      <4>6. n >= LargestRep
        BY <1>4, <4>1, <4>4, <4>5
      <4> QED BY <4>4, <4>5, <4>6, Zenon DEF room
    <3> HIDE DEF n
    <3>5. Len(kept) = n
      <4>1. n \in 0..Len(content)
        BY <3>4
      <4> QED BY <1>3, <4>1, CutSeq
    <3> HIDE DEF kept
    <3> QED BY <1>1, <1>4, <3>2, <3>4, <3>5 DEF DictFits, SizeHonored, Loadable
  <2> QED BY <2>1, <2>2, Zenon
<1>7. /\ selected' \in Seq(0..last_start') /\ SegmentsWithin' /\ NewCoverage'
  BY <1>1, SelectedStays
<1>8. CallInv'
  BY <1>1, <1>3, <1>5, Zenon DEF CallInv
<1>9. PickedInv'
  BY <1>5, <1>7, Zenon DEF PickedInv
<1>10. WindowInv' /\ BestSoFar' /\ ContentInv'
  <2>1. ContentInv'
    BY <1>1, <1>3, Zenon DEF ContentInv
  <2> QED BY <1>5, <2>1, Zenon DEF WindowInv, BestSoFar
<1> QED BY <1>6, <1>7, <1>8, <1>9, <1>10, Zenon DEF IInv

LEMMA StutterStep ==
  ASSUME IInv, UNCHANGED vars
  PROVE  IInv'
<1>1. /\ samples' = samples /\ max_size' = max_size /\ pc' = pc /\ freq' = freq
      /\ start' = start /\ wcount' = wcount /\ score' = score
      /\ best_score' = best_score /\ best_start' = best_start /\ selected' = selected
      /\ content' = content /\ result' = result
  BY Zenon DEF vars
<1>2. /\ CallInv /\ PickedInv /\ WindowInv /\ ContentInv /\ BestSoFar /\ DictFits
  BY Zenon DEF IInv
<1>3. /\ (Trained' <=> Trained) /\ \A s : ScoreOf(s)' = ScoreOf(s)
      /\ ScoreOf(best_start)' = ScoreOf(best_start)
  BY <1>1, SameWorth
<1>4. /\ \A s : Within(s, k)' <=> Within(s, k)
      /\ Within(best_start, k)' <=> Within(best_start, k)
      /\ \A i : Covered(selected[i])' = Covered(selected[i])
  BY <1>1, NextSelected
<1>5. selected' \in Seq(0..last_start') /\ SegmentsWithin' /\ NewCoverage'
  BY <1>1, SelectedStays
<1>6. last_start' = last_start
  BY <1>1, SameCorpus
<1>7. CallInv' /\ PickedInv' /\ ContentInv'
  BY <1>1, <1>2, <1>3, <1>4, <1>5, Zenon DEF CallInv, PickedInv, ContentInv
<1>8. WindowInv'
  <2>1. ASSUME pc' = "slide"
        PROVE  Counted([count |-> wcount, score |-> score], start, start + seg_dmers)'
    <3>1. Counted([count |-> wcount', score |-> score'], start', start' + seg_dmers)
      BY <1>1, <1>2, <2>1, Zenon DEF WindowInv
    <3> QED BY <1>1, <3>1, NextWindow
  <2> QED BY <1>1, <1>2, <1>6, <2>1, Zenon DEF WindowInv
<1>9. BestSoFar'
  BY <1>1, <1>2, <1>3, <1>4, Zenon DEF BestSoFar
<1>10. DictFits'
  BY <1>1, <1>2, Zenon DEF DictFits, SizeHonored, Loadable
<1> QED BY <1>5, <1>7, <1>8, <1>9, <1>10, Zenon DEF IInv

-----------------------------------------------------------------------------
(* The theorems.                                                           *)

(* Every state of train_dictionary satisfies the inductive invariant.      *)
THEOREM Invariance == Spec => []IInv
<1>1. Init => IInv
  BY Starts
<1>2. IInv /\ [Next]_vars => IInv'
  <2> SUFFICES ASSUME IInv, [Next]_vars  PROVE IInv'
    OBVIOUS
  <2>1. CASE Begin
    BY <2>1, BeginStep
  <2>2. CASE Round
    BY <2>2, RoundStep
  <2>3. CASE Slide
    BY <2>3, SlideStep
  <2>4. CASE Pick
    BY <2>4, PickStep
  <2>5. CASE Concatenate
    BY <2>5, ConcatenateStep
  <2>6. CASE Finish
    BY <2>6, FinishStep
  <2>7. CASE UNCHANGED vars
    BY <2>7, StutterStep
  <2> QED BY <2>1, <2>2, <2>3, <2>4, <2>5, <2>6, <2>7, Zenon DEF Next
<1> QED BY <1>1, <1>2, PTL DEF Spec

(* The sliding window of a round always has the score it would have if it  *)
(* were counted afresh, and the best start is a segment inside one sample  *)
(* that no segment inside one sample seen so far beats.                    *)
THEOREM SearchIsExact == Spec => []SearchExact
<1>1. IInv => SearchExact
  <2> SUFFICES ASSUME IInv  PROVE SearchExact
    OBVIOUS
  <2>1. ScoreExact
    <3>1. ASSUME pc = "slide"
          PROVE  score = ScoreOf(start)
      <4> DEFINE win == [count |-> wcount, score |-> score]
                 hi == start + seg_dmers
      <4>1. /\ samples \in Corpora /\ start \in 0..last_start /\ Counted(win, start, hi)
        BY <3>1, Zenon DEF IInv, CallInv, WindowInv
      <4>2. win.score = Worth(start, hi) /\ win.score = score
        BY <4>1, Zenon DEF Counted
      <4>3. start \in Nat
        BY <4>1
      <4>4. ScoreOf(start) = Worth(start, start + seg_dmers)
        BY <4>1, <4>3, ScoreIs
      <4> QED BY <4>2, <4>4, Zenon
    <3> QED BY <3>1, Zenon DEF ScoreExact
  <2> QED BY <2>1, Zenon DEF IInv, SearchExact
<1> QED BY <1>1, Invariance, PTL

(* No picked segment straddles the boundary of two samples.                *)
THEOREM SegmentsAreWithin == Spec => []SegmentsWithin
<1>1. IInv => SegmentsWithin
  BY Zenon DEF IInv
<1> QED BY <1>1, Invariance, PTL

(* Every picked segment covers a dmer that no earlier one covers.          *)
THEOREM PicksAddCoverage == Spec => []NewCoverage
<1>1. IInv => NewCoverage
  BY Zenon DEF IInv
<1> QED BY <1>1, Invariance, PTL

(* What is returned is no larger than max_size, header included, and a     *)
(* structured dictionary has the content its repeat offsets reach into.    *)
THEOREM DictionaryFits == Spec => []DictFits
<1>1. IInv => DictFits
  BY Zenon DEF IInv
<1> QED BY <1>1, Invariance, PTL
=============================================================================

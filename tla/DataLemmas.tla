----------------------------- MODULE DataLemmas -----------------------------
(***************************************************************************)
(* Facts about numbers and sequences that the proofs of several components *)
(* need: least elements and induction over a set of indices, quotients and *)
(* remainders, cutting and joining sequences.                              *)
(***************************************************************************)
EXTENDS Integers, Sequences, SequencesExt, SequenceTheorems, WellFoundedInduction, TLAPS

-----------------------------------------------------------------------------
(* A nonempty set of natural numbers has a least element.                  *)
LEMMA NatMin ==
  ASSUME NEW T, T \subseteq Nat, T # {}
  PROVE  \E x \in T : \A y \in T : x <= y
<1> DEFINE R == {ss \in Nat \X Nat : ss[1] < ss[2]}
<1>1. IsWellFoundedOn(R, Nat)
  BY NatLessThanWellFounded, Zenon DEF OpToRel
<1>2. ASSUME NEW x \in Nat, NEW y \in Nat, <<y, x>> \notin R
      PROVE  x <= y
  <2>1. <<y, x>> \in Nat \X Nat /\ <<y, x>>[1] = y /\ <<y, x>>[2] = x
    OBVIOUS
  <2>2. ~(<<y, x>>[1] < <<y, x>>[2])
    BY <1>2, <2>1, Zenon
  <2>3. ~(y < x)
    BY <2>1, <2>2, Zenon
  <2> QED BY <2>3
<1> HIDE DEF R
<1>3. \E x \in T : \A y \in T : ~(<<y, x>> \in R)
  BY <1>1, WFMin, Zenon
<1> QED
  BY <1>2, <1>3, Zenon

(* Induction up to n: a set that holds 0 and, with every index below n,    *)
(* the next one.                                                           *)
LEMMA UpTo ==
  ASSUME NEW n \in Nat, NEW S, 0 \in S,
         \A i \in 1..n : i - 1 \in S => i \in S
  PROVE  0..n \subseteq S
<1> DEFINE T == {i \in 0..n : i \notin S}
<1>1. CASE T = {}
  BY <1>1, Zenon
<1>2. CASE T # {}
  <2>1. T \subseteq Nat
    OBVIOUS
  <2>2. \E x \in T : \A y \in T : x <= y
    <3> HIDE DEF T
    <3> QED BY <1>2, <2>1, NatMin, Zenon
  <2>3. PICK x \in T : \A y \in T : x <= y
    BY <2>2
  <2>4. x \in 1..n /\ x \notin S
    OBVIOUS
  <2>5. x - 1 \notin T
    BY <2>3, <2>4
  <2>6. x - 1 \in S
    BY <2>4, <2>5
  <2> QED BY <2>4, <2>6
<1> QED BY <1>1, <1>2

(* A first value and a step from each index to the next, within a set of   *)
(* values, define a function.                                              *)
Iterates(f, n, d, step) == f[0] = d /\ \A i \in 1..n : f[i] = step[<<i, f[i - 1]>>]

LEMMA Recursion ==
  ASSUME NEW n \in Nat, NEW D, NEW d \in D, NEW step \in [(1..n) \X D -> D]
  PROVE  \E f \in [0..n -> D] : Iterates(f, n, d, step)
<1> DEFINE Runs(f, k) == /\ f \in [0..k -> D] /\ f[0] = d
                         /\ \A i \in 1..k : f[i] = step[<<i, f[i - 1]>>]
           S == {k \in 0..n : \E f : Runs(f, k)}
<1>1. 0 \in S
  <2> DEFINE f == [i \in 0..0 |-> d]
  <2>1. f \in [0..0 -> D] /\ f[0] = d /\ 1..0 = {} /\ 0 \in 0..n
    OBVIOUS
  <2>2. Runs(f, 0)
    BY <2>1, Zenon
  <2> QED BY <2>1, <2>2, Zenon
<1>2. ASSUME NEW k \in 1..n, k - 1 \in S
      PROVE  k \in S
  <2>1. PICK f : Runs(f, k - 1)
    BY <1>2, Zenon
  <2>2. k - 1 \in 0..(k - 1) /\ k \in 0..n /\ 0 \in 0..k /\ 0 \in 0..(k - 1) /\ 0 # k
    OBVIOUS
  <2> DEFINE v == step[<<k, f[k - 1]>>]
             g == [i \in 0..k |-> IF i = k THEN v ELSE f[i]]
  <2>3. v \in D
    <3>1. f[k - 1] \in D
      BY <2>1, <2>2, Zenon
    <3>2. <<k, f[k - 1]>> \in (1..n) \X D
      BY <3>1, Zenon
    <3> QED BY <3>2, Zenon
  <2>4. \A i \in 0..k : i # k => i \in 0..(k - 1)
    OBVIOUS
  <2>5. g \in [0..k -> D] /\ g[0] = d
    <3> HIDE DEF v
    <3> QED BY <2>1, <2>2, <2>3, <2>4, Zenon
  <2>6. ASSUME NEW i \in 1..k
        PROVE  g[i] = step[<<i, g[i - 1]>>]
    <3>1. i \in 0..k /\ i - 1 \in 0..k /\ i - 1 # k
      OBVIOUS
    <3>2. g[i - 1] = f[i - 1]
      BY <3>1, Zenon
    <3>3. CASE i = k
      <4>1. g[i] = v
        BY <3>1, <3>3, Zenon
      <4> QED BY <3>2, <3>3, <4>1, Zenon
    <3>4. CASE i # k
      <4>1. g[i] = f[i] /\ i \in 1..(k - 1)
        <5>1. i \in 1..(k - 1)
          BY <3>4
        <5> QED BY <3>1, <3>4, <5>1, Zenon
      <4> QED BY <2>1, <3>2, <4>1, Zenon
    <3> QED BY <3>3, <3>4, Zenon
  <2>7. Runs(g, k)
    BY <2>5, <2>6, Zenon
  <2> QED BY <2>2, <2>7, Zenon
<1>3. 0..n \subseteq S
  <2> HIDE DEF S
  <2> QED BY <1>1, <1>2, UpTo, Zenon
<1>4. n \in S
  <2>1. n \in 0..n
    OBVIOUS
  <2> QED BY <1>3, <2>1, Zenon
<1> QED BY <1>4, Zenon DEF Iterates

-----------------------------------------------------------------------------
(* Quotient and remainder.                                                 *)
LEMMA DivMod ==
  ASSUME NEW a \in Nat, NEW p \in Nat \ {0}
  PROVE  /\ a \div p \in Nat /\ a % p \in 0..p - 1 /\ a % p <= a
         /\ a = p * (a \div p) + (a % p)
BY Z3

(* A product is monotone in a factor.                                      *)
LEMMA TimesMono ==
  ASSUME NEW p \in Nat, NEW q \in Nat, NEW s \in Nat, q <= s
  PROVE  p * q <= p * s /\ p * q \in Nat /\ p * s \in Nat /\ p * q = q * p
<1>1. s - q \in Nat /\ p * (s - q) \in Nat
  BY Z3
<1>2. p * (s - q) = p * s - p * q
  BY Z3
<1>3. p * q \in Nat /\ p * s \in Nat /\ p * q = q * p
  BY Z3
<1> QED
  BY <1>1, <1>2, <1>3

LEMMA TimesSum ==
  ASSUME NEW p \in Nat, NEW q \in Int, NEW s \in Int
  PROVE  p * (q + s) = p * q + p * s /\ p * q \in Int /\ p * s \in Int
BY Z3

(* The quotient is the number of multiples that fit.                       *)
LEMMA QuotientIs ==
  ASSUME NEW a \in Nat, NEW p \in Nat \ {0}, NEW n \in Nat,
         p * n <= a, a < p * n + p
  PROVE  a \div p = n
<1>1. a - p * n \in 0..p - 1 /\ p * n \in Nat
  <2>1. p * n \in Nat
    BY Z3
  <2> QED BY <2>1
<1>2. a = p * n + (a - p * n)
  BY <1>1
<1> DEFINE r == a - p * n
<1> HIDE DEF r
<1>3. r \in 0..p - 1
  BY <1>1 DEF r
<1>4. (p * n + r) \div p = n
  BY <1>3, Z3
<1> QED
  BY <1>2, <1>4 DEF r

-----------------------------------------------------------------------------
(* Powers of two by their values: the provers compute 2^n of a number n    *)
(* only.                                                                   *)
Power(x) == 2^x
LEMMA PowerValues ==
  /\ Power(0) = 1 /\ Power(1) = 2 /\ Power(2) = 4 /\ Power(3) = 8 /\ Power(4) = 16
  /\ Power(5) = 32 /\ Power(6) = 64 /\ Power(7) = 128 /\ Power(8) = 256 /\ Power(9) = 512
  /\ Power(10) = 1024 /\ Power(11) = 2048 /\ Power(12) = 4096 /\ Power(13) = 8192
  /\ Power(14) = 16384 /\ Power(15) = 32768 /\ Power(16) = 65536 /\ Power(17) = 131072
  /\ Power(18) = 262144 /\ Power(19) = 524288 /\ Power(20) = 1048576 /\ Power(21) = 2097152
  /\ Power(22) = 4194304 /\ Power(23) = 8388608 /\ Power(24) = 16777216
  /\ Power(25) = 33554432 /\ Power(26) = 67108864 /\ Power(27) = 134217728
  /\ Power(28) = 268435456 /\ Power(29) = 536870912 /\ Power(30) = 1073741824
BY SMT DEF Power

(* A power of two is a positive number; powers grow, twofold each step.    *)
LEMMA PowerNat ==
  ASSUME NEW x \in 0..30
  PROVE  Power(x) \in Nat /\ Power(x) >= 1
BY PowerValues, SMT

LEMMA PowerGrows ==
  ASSUME NEW x \in 0..30, NEW y \in 0..30, x <= y
  PROVE  Power(x) <= Power(y)
BY PowerValues, SMT

LEMMA PowerDoubles ==
  ASSUME NEW x \in 0..29
  PROVE  Power(x + 1) = 2 * Power(x)
BY PowerValues, SMT

-----------------------------------------------------------------------------
(* A concatenation is known by its elements.                               *)
LEMMA ConcatIs ==
  ASSUME NEW S, NEW a \in Seq(S), NEW b \in Seq(S), NEW c \in Seq(S),
         Len(c) = Len(a) + Len(b),
         \A i \in 1..Len(a) : c[i] = a[i],
         \A i \in 1..Len(b) : c[Len(a) + i] = b[i]
  PROVE  c = a \o b
<1>1. /\ a \o b \in Seq(S) /\ Len(a \o b) = Len(a) + Len(b)
      /\ \A i \in 1..(Len(a) + Len(b)) :
           (a \o b)[i] = IF i <= Len(a) THEN a[i] ELSE b[i - Len(a)]
  BY ConcatProperties
<1>2. \A i \in 1..Len(c) : c[i] = (a \o b)[i]
  <2> SUFFICES ASSUME NEW i \in 1..Len(c)  PROVE c[i] = (a \o b)[i]
    OBVIOUS
  <2>0. Len(a) \in Nat /\ Len(b) \in Nat  OBVIOUS
  <2>1. CASE i <= Len(a)  BY <2>0, <2>1, <1>1
  <2>2. CASE i > Len(a)
    <3>1. i - Len(a) \in 1..Len(b) /\ i = Len(a) + (i - Len(a))  BY <2>0, <2>2
    <3> QED  BY <3>1, <2>0, <2>2, <1>1
  <2> QED  BY <2>0, <2>1, <2>2
<1> QED  BY <1>1, <1>2, SeqEqual

(* The elements of a concatenation.                                        *)
LEMMA ConcatAt ==
  ASSUME NEW S, NEW a \in Seq(S), NEW b \in Seq(S)
  PROVE  /\ a \o b \in Seq(S) /\ Len(a \o b) = Len(a) + Len(b)
         /\ \A i \in 1..Len(a) : (a \o b)[i] = a[i]
         /\ \A i \in 1..Len(b) : (a \o b)[Len(a) + i] = b[i]
<1>1. /\ a \o b \in Seq(S) /\ Len(a \o b) = Len(a) + Len(b)
      /\ \A i \in 1..(Len(a) + Len(b)) :
           (a \o b)[i] = IF i <= Len(a) THEN a[i] ELSE b[i - Len(a)]
  BY ConcatProperties
<1>2. Len(a) \in Nat /\ Len(b) \in Nat
  OBVIOUS
<1>3. /\ \A i \in 1..Len(a) : i <= Len(a) /\ i \in 1..(Len(a) + Len(b))
      /\ \A i \in 1..Len(b) : /\ ~(Len(a) + i <= Len(a)) /\ (Len(a) + i) - Len(a) = i
                              /\ Len(a) + i \in 1..(Len(a) + Len(b))
  <2> DEFINE l == Len(a)
             m == Len(b)
  <2> HIDE DEF l, m
  <2>1. /\ \A i \in 1..l : i <= l /\ i \in 1..(l + m)
        /\ \A i \in 1..m : ~(l + i <= l) /\ (l + i) - l = i /\ l + i \in 1..(l + m)
    BY <1>2 DEF l, m
  <2> QED BY <2>1 DEF l, m
<1> QED BY <1>1, <1>3, Zenon

(* A part of a sequence.                                                   *)
LEMMA Slice ==
  ASSUME NEW S, NEW s \in Seq(S), NEW lo \in Nat, NEW hi \in Nat, lo <= hi, hi <= Len(s)
  PROVE  /\ SubSeq(s, lo + 1, hi) \in Seq(S) /\ Len(SubSeq(s, lo + 1, hi)) = hi - lo
         /\ \A k \in 1..(hi - lo) : SubSeq(s, lo + 1, hi)[k] = s[lo + k]
<1> DEFINE m == lo + 1
           c == SubSeq(s, m, hi)
<1>1. /\ m \in Int /\ hi \in Int /\ (\A k \in m..hi : k \in 1..Len(s))
      /\ hi - m + 1 = hi - lo /\ (IF m <= hi THEN hi - m + 1 ELSE 0) = hi - lo
      /\ \A k \in Int : m + k - 1 = lo + k
  OBVIOUS
<1>2. \A k \in m..hi : s[k] \in S
  BY <1>1, ElementOfSeq, Zenon
<1> HIDE DEF m
<1>3. /\ c \in Seq(S) /\ Len(c) = IF m <= hi THEN hi - m + 1 ELSE 0
      /\ \A k \in 1..(hi - m + 1) : c[k] = s[m + k - 1]
  BY <1>1, <1>2, SubSeqProperties
<1>4. ASSUME NEW k \in 1..(hi - lo) PROVE c[k] = s[lo + k]
  <2>1. k \in Int
    OBVIOUS
  <2> QED BY <1>1, <1>3, <2>1, Zenon
<1> QED BY <1>1, <1>3, <1>4, Zenon DEF m

(* A sequence is its first n elements and the others.                      *)
LEMMA CutSeq ==
  ASSUME NEW S, NEW s \in Seq(S), NEW n \in 0..Len(s)
  PROVE  /\ SubSeq(s, 1, n) \in Seq(S) /\ Len(SubSeq(s, 1, n)) = n
         /\ SubSeq(s, n + 1, Len(s)) \in Seq(S)
         /\ Len(SubSeq(s, n + 1, Len(s))) = Len(s) - n
         /\ SubSeq(s, 1, n) \o SubSeq(s, n + 1, Len(s)) = s
<1>1. /\ SubSeq(s, 1, n) \in Seq(S) /\ Len(SubSeq(s, 1, n)) = n
      /\ \A i \in 1..n : SubSeq(s, 1, n)[i] = s[i]
  <2>1. \A i \in 1..n : s[i] \in S  BY ElementOfSeq
  <2> QED  BY <2>1, SubSeqProperties
<1>2. /\ SubSeq(s, n + 1, Len(s)) \in Seq(S) /\ Len(SubSeq(s, n + 1, Len(s))) = Len(s) - n
      /\ \A i \in 1..(Len(s) - n) : SubSeq(s, n + 1, Len(s))[i] = s[n + i]
  <2>1. \A i \in (n + 1)..Len(s) : s[i] \in S  BY ElementOfSeq
  <2> QED  BY <2>1, SubSeqProperties
<1>3. SubSeq(s, 1, n) \o SubSeq(s, n + 1, Len(s)) = s
  <2> DEFINE a == SubSeq(s, 1, n)
             b == SubSeq(s, n + 1, Len(s))
  <2>0. Len(s) \in Nat  OBVIOUS
  <2>1. a \in Seq(S) /\ b \in Seq(S) /\ Len(s) = Len(a) + Len(b)
    <3>1. Len(a) = n /\ Len(b) = Len(s) - n  BY <1>1, <1>2
    <3>2. Len(s) = n + (Len(s) - n)  BY <2>0
    <3> QED  BY <3>1, <3>2, <1>1, <1>2
  <2>2. \A i \in 1..Len(a) : s[i] = a[i]  BY <1>1
  <2>3. \A i \in 1..Len(b) : s[Len(a) + i] = b[i]  BY <1>1, <1>2
  <2> HIDE DEF a, b
  <2>4. s = a \o b  BY <2>1, <2>2, <2>3, ConcatIs
  <2> QED  BY <2>4 DEF a, b
<1> QED  BY <1>1, <1>2, <1>3

(* The two parts of a concatenation are cut out again.                     *)
LEMMA CutConcat ==
  ASSUME NEW S, NEW s \in Seq(S), NEW t \in Seq(S)
  PROVE  /\ SubSeq(s \o t, 1, Len(s)) = s
         /\ SubSeq(s \o t, Len(s) + 1, Len(s \o t)) = t
<1> DEFINE c == s \o t
           a == SubSeq(c, 1, Len(s))
           b == SubSeq(c, Len(s) + 1, Len(c))
<1>1. /\ c \in Seq(S) /\ Len(c) = Len(s) + Len(t)
      /\ \A i \in 1..(Len(s) + Len(t)) : c[i] = IF i <= Len(s) THEN s[i] ELSE t[i - Len(s)]
  BY ConcatProperties
<1>2. \A i \in 1..Len(c) : c[i] \in S  BY <1>1, ElementOfSeq
<1>3. /\ a \in Seq(S) /\ Len(a) = Len(s) /\ \A i \in 1..Len(s) : a[i] = c[i]
  BY <1>1, <1>2, SubSeqProperties
<1>4. /\ b \in Seq(S) /\ Len(b) = Len(t) /\ \A i \in 1..Len(t) : b[i] = c[Len(s) + i]
  BY <1>1, <1>2, SubSeqProperties
<1>5. a = s  BY <1>1, <1>3, SeqEqual
<1>6. b = t
  <2>1. \A i \in 1..Len(t) : b[i] = t[i]  BY <1>1, <1>4
  <2> QED  BY <1>4, <2>1, SeqEqual
<1> QED  BY <1>5, <1>6

(* A longer part is the shorter one and what follows.                      *)
LEMMA PrefixGrows ==
  ASSUME NEW S, NEW s \in Seq(S), NEW lo \in Nat, NEW hi \in Nat, lo <= hi, hi <= Len(s)
  PROVE  SubSeq(s, 1, hi) = SubSeq(s, 1, lo) \o SubSeq(s, lo + 1, hi)
<1> DEFINE a == SubSeq(s, 1, lo)
           b == SubSeq(s, lo + 1, hi)
           c == SubSeq(s, 1, hi)
           z == 0
<1>0. z \in Nat /\ z <= lo /\ z <= hi /\ lo <= Len(s) /\ z + 1 = 1 /\ lo - z = lo /\ hi - z = hi
  OBVIOUS
<1> HIDE DEF z
<1>1. /\ SubSeq(s, z + 1, lo) \in Seq(S) /\ Len(SubSeq(s, z + 1, lo)) = lo - z
      /\ \A k \in 1..(lo - z) : SubSeq(s, z + 1, lo)[k] = s[z + k]
  BY <1>0, Slice
<1>2. /\ SubSeq(s, z + 1, hi) \in Seq(S) /\ Len(SubSeq(s, z + 1, hi)) = hi - z
      /\ \A k \in 1..(hi - z) : SubSeq(s, z + 1, hi)[k] = s[z + k]
  BY <1>0, Slice
<1>3. /\ b \in Seq(S) /\ Len(b) = hi - lo
      /\ \A k \in 1..(hi - lo) : b[k] = s[lo + k]
  BY Slice
<1>4. \A k \in Int : z + k = k
  BY DEF z
<1>5. /\ a \in Seq(S) /\ Len(a) = lo /\ \A k \in 1..lo : a[k] = s[k]
  <2>1. \A k \in 1..lo : k \in Int
    OBVIOUS
  <2> QED BY <1>0, <1>1, <1>4, <2>1, Zenon
<1>6. /\ c \in Seq(S) /\ Len(c) = hi /\ \A k \in 1..hi : c[k] = s[k]
  <2>1. \A k \in 1..hi : k \in Int
    OBVIOUS
  <2> QED BY <1>0, <1>2, <1>4, <2>1, Zenon
<1> HIDE DEF a, b, c
<1>7. /\ Len(c) = Len(a) + Len(b) /\ \A k \in 1..Len(a) : c[k] = a[k]
      /\ \A k \in 1..Len(b) : c[Len(a) + k] = b[k]
  <2>1. Len(c) = Len(a) + Len(b)
    BY <1>3, <1>5, <1>6
  <2>2. \A k \in 1..lo : k \in 1..hi
    OBVIOUS
  <2>3. \A k \in 1..(hi - lo) : lo + k \in 1..hi
    OBVIOUS
  <2> QED BY <1>3, <1>5, <1>6, <2>1, <2>2, <2>3, Zenon
<1>8. c = a \o b
  BY <1>3, <1>5, <1>6, <1>7, ConcatIs
<1> QED BY <1>8 DEF a, b, c

(* The whole of a sequence, and nothing of it.                             *)
LEMMA WholeSeq ==
  ASSUME NEW S, NEW s \in Seq(S)
  PROVE  SubSeq(s, 1, Len(s)) = s /\ SubSeq(s, 1, 0) = <<>>
<1> DEFINE n == Len(s)
           z == 0
           a == SubSeq(s, 1, n)
           b == SubSeq(s, 1, 0)
<1>1. n \in 0..Len(s) /\ z \in 0..Len(s)
  OBVIOUS
<1>2. /\ SubSeq(s, 1, n) \in Seq(S) /\ Len(SubSeq(s, 1, n)) = n
      /\ SubSeq(s, n + 1, Len(s)) \in Seq(S) /\ Len(SubSeq(s, n + 1, Len(s))) = Len(s) - n
      /\ SubSeq(s, 1, n) \o SubSeq(s, n + 1, Len(s)) = s
  <2> HIDE DEF n
  <2> QED BY <1>1, CutSeq
<1>3. /\ SubSeq(s, 1, z) \in Seq(S) /\ Len(SubSeq(s, 1, z)) = z
  <2> HIDE DEF z
  <2> QED BY <1>1, CutSeq
<1> HIDE DEF a, b
<1>4. a = s
  <2> DEFINE c == SubSeq(s, n + 1, Len(s))
  <2>1. a \in Seq(S) /\ c \in Seq(S) /\ Len(c) = 0 /\ a \o c = s
    <3>1. Len(s) - n = 0
      OBVIOUS
    <3> QED BY <1>2, <3>1, Zenon DEF a
  <2> HIDE DEF c
  <2>2. c = <<>>
    BY <2>1, EmptySeq
  <2>3. a \o <<>> = a
    BY <2>1
  <2> QED BY <2>1, <2>2, <2>3, Zenon
<1>5. b = <<>>
  <2>1. b \in Seq(S) /\ Len(b) = 0
    BY <1>3, Zenon DEF b, z
  <2> QED BY <2>1, EmptySeq
<1> QED BY <1>4, <1>5, Zenon DEF a, b, n

(* A sequence of sequences in a row: joined one by one.                    *)
Joins(w, s) == w[0] = <<>> /\ \A i \in 1..Len(s) : w[i] = w[i - 1] \o s[i]

LEMMA FlattenIs ==
  ASSUME NEW S, NEW s \in Seq(Seq(S)), NEW w, Joins(w, s)
  PROVE  FlattenSeq(s) = w[Len(s)]
<1> DEFINE N == Len(s)
           F(f) == [i \in 1..N |-> IF i = 1 THEN s[i] ELSE f[i - 1] \o s[i]]
           flat == CHOOSE f : f = F(f)
           v == [i \in 1..N |-> w[i]]
<1>1. N \in Nat /\ w[0] = <<>> /\ \A i \in 1..N : w[i] = w[i - 1] \o s[i]
  <2>1. N \in Nat
    OBVIOUS
  <2> QED BY <2>1, Zenon DEF Joins
<1>2. FlattenSeq(s) = IF N = 0 THEN s ELSE flat[N]
  BY Zenon DEF FlattenSeq
<1>3. CASE N = 0
  <2>1. s = <<>>
    BY <1>3, EmptySeq
  <2> QED BY <1>1, <1>2, <1>3, <2>1, Zenon
<1>4. CASE N # 0
  <2>1. 1 \in 1..N /\ N \in 1..N
    BY <1>1, <1>4
  <2>2. w[1] = s[1]
    <3>1. s[1] \in Seq(S)
      BY <2>1, ElementOfSeq
    <3>2. w[1] = <<>> \o s[1]
      <4>1. 1 - 1 = 0
        OBVIOUS
      <4> HIDE DEF N
      <4> QED BY <1>1, <2>1, <4>1, Zenon
    <3> QED BY <3>1, <3>2
  <2>3. v = F(v)
    <3>1. ASSUME NEW i \in 1..N
          PROVE  v[i] = IF i = 1 THEN s[i] ELSE v[i - 1] \o s[i]
      <4>1. i # 1 => i - 1 \in 1..N
        BY <1>1
      <4> HIDE DEF N
      <4> QED BY <1>1, <2>2, <4>1, Zenon
    <3> HIDE DEF N
    <3> QED BY <3>1, Zenon
  <2>4. flat = F(flat)
    BY <2>3, Zenon
  <2> HIDE DEF flat
  <2>5. \A i \in 1..N : flat[i] = IF i = 1 THEN s[i] ELSE flat[i - 1] \o s[i]
    <3> HIDE DEF N
    <3> QED BY <2>4, Zenon
  <2> DEFINE T == {0} \cup {i \in 1..N : flat[i] = w[i]}
  <2>6. 0 \in T
    OBVIOUS
  <2>7. ASSUME NEW i \in 1..N, i - 1 \in T
        PROVE  i \in T
    <3>1. CASE i = 1
      <4> HIDE DEF N
      <4> QED BY <2>1, <2>2, <2>5, <3>1, Zenon
    <3>2. CASE i # 1
      <4>1. i - 1 # 0
        BY <3>2
      <4>2. flat[i - 1] = w[i - 1]
        BY <2>7, <4>1, Zenon
      <4> HIDE DEF N
      <4>3. flat[i] = flat[i - 1] \o s[i] /\ w[i] = w[i - 1] \o s[i]
        BY <1>1, <2>5, <3>2, Zenon
      <4> QED BY <4>2, <4>3, Zenon
    <3> QED BY <3>1, <3>2, Zenon
  <2>8. 0..N \subseteq T
    <3> HIDE DEF T, N
    <3> QED BY <1>1, <2>6, <2>7, UpTo, Zenon
  <2>9. flat[N] = w[N]
    <3>1. N \in 0..N
      BY <1>1
    <3> HIDE DEF N
    <3> QED BY <1>4, <2>8, <3>1, Zenon
  <2> QED BY <1>2, <1>4, <2>9, Zenon
<1> QED BY <1>3, <1>4, Zenon

LEMMA JoinsExist ==
  ASSUME NEW S, NEW s \in Seq(Seq(S))
  PROVE  \E w \in [0..Len(s) -> Seq(S)] : Joins(w, s)
<1> DEFINE N == Len(s)
           step == [p \in (1..N) \X Seq(S) |-> p[2] \o s[p[1]]]
<1>1. N \in Nat /\ <<>> \in Seq(S) /\ \A i \in 1..N : s[i] \in Seq(S)
  BY ElementOfSeq
<1>2. step \in [(1..N) \X Seq(S) -> Seq(S)]
  <2>1. ASSUME NEW p \in (1..N) \X Seq(S)
        PROVE  p[2] \o s[p[1]] \in Seq(S)
    <3>1. p[2] \in Seq(S) /\ s[p[1]] \in Seq(S)
      BY <1>1
    <3> QED BY <3>1, ConcatProperties
  <2> QED BY <2>1
<1>3. PICK w \in [0..N -> Seq(S)] : Iterates(w, N, <<>>, step)
  <2> HIDE DEF N, step
  <2> QED BY <1>1, <1>2, Recursion, Zenon
<1>4. Joins(w, s)
  <2>1. ASSUME NEW i \in 1..N
        PROVE  w[i] = w[i - 1] \o s[i]
    <3>1. i - 1 \in 0..N
      BY <1>1
    <3>2. <<i, w[i - 1]>> \in (1..N) \X Seq(S)
      BY <1>3, <3>1
    <3>3. step[<<i, w[i - 1]>>] = w[i - 1] \o s[i]
      BY <3>2
    <3> HIDE DEF step
    <3> QED BY <1>3, <3>3, Zenon DEF Iterates
  <2> QED BY <1>3, <2>1, Zenon DEF Joins, Iterates
<1> QED BY <1>3, <1>4, Zenon

(* What is joined is a sequence of the same things.                        *)
LEMMA FlattenType ==
  ASSUME NEW S, NEW s \in Seq(Seq(S))
  PROVE  FlattenSeq(s) \in Seq(S)
<1>1. PICK w \in [0..Len(s) -> Seq(S)] : Joins(w, s)
  BY JoinsExist
<1>2. FlattenSeq(s) = w[Len(s)]
  BY <1>1, FlattenIs, Zenon
<1> QED BY <1>1, <1>2
=============================================================================

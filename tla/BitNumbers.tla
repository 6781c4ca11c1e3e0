----------------------------- MODULE BitNumbers -----------------------------
(***************************************************************************)
(* Numbers as the bit streams and the coding tables use them, and sums     *)
(* kept while they grow.                                                   *)
(***************************************************************************)
EXTENDS Integers, Sequences

CONSTANT None  \* no value

Abs(x)        == IF x < 0 THEN -x ELSE x
Lesser(a, b)  == IF a <= b THEN a ELSE b
Greater(a, b) == IF a >= b THEN a ELSE b

(* The highest set bit of a number, from 0.                                *)
highbit32(x) == CHOOSE b \in 0..30 : 2^b <= x /\ (b = 30 \/ x < 2^(b + 1))

Listed(s) == SubSeq(s, 1, Len(s))  \* s itself, written out once

(* The sums of the first 0, 1, ..., n numbers, and the one of the n that   *)
(* takes a running sum beyond k.                                           *)
Sums(f, n) ==
  LET s[i \in 0..n] == IF i = 0 THEN 0 ELSE s[i - 1] + f[i]
      all == Listed([i \in 1..(n + 1) |-> s[i - 1]])
  IN  [i \in 0..n |-> all[i + 1]]
Taker(s, n, k) == CHOOSE i \in 1..n : s[i - 1] <= k /\ k < s[i]
=============================================================================

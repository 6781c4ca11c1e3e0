---------------------------- MODULE MCHuffCoding ----------------------------
(***************************************************************************)
(* HuffCoding with short literals, four streams of even and uneven length, *)
(* alphabets around the limit of the direct weights, dictionaries whose    *)
(* codes are too deep by up to three bits, and all weight lists of three.   *)
(***************************************************************************)
EXTENDS HuffCoding

Cycle(s, n) == [i \in 1..n |-> s[((i - 1) % Len(s)) + 1]]
Skewed      == <<0, 0, 0, 0, 0, 0, 0, 1, 0, 2, 1, 0, 0, 3, 0, 1, 2, 4, 0, 1, 0, 5, 2, 0>>

MCLiterals ==
  {<<>>, <<7>>, <<7, 7>>, <<0, 1, 0>>, <<3, 0, 0, 1, 2, 0>>}
  \cup {Cycle(Skewed, n) : n \in {40, 257, 259}}
  \cup {Cycle(<<0, 0, 0, 1>>, 256), Cycle(<<0, 1, 1, 1>>, 70)}
  \cup {Cycle(<<0, 0, 0, 1, 0, 0, top>>, 60) : top \in {128, 129}}

Counts(f) == {[symbol |-> s, count |-> f[s]] : s \in DOMAIN f}
Fibonacci == <<1, 1, 2, 3, 5, 8, 13, 21, 34, 55, 89, 144, 233, 377, 610, 987, 1597>>
MCHistograms ==
  {Counts([s \in 0..(n - 1) |-> Fibonacci[s + 1]]) : n \in {2, 12, 13, 14, 15}}
  \cup {Counts([s \in 0..(n - 1) |-> 2^s]) : n \in {11, 13, 14}}
  \cup {Counts([s \in 0..15 |-> IF s < 3 THEN 1 ELSE 2^(s - 2)])}
  \cup {Counts(f) : f \in [0..3 -> {1, 4}]}
  \cup {Counts(0 :> 3 @@ 5 :> 2 @@ top :> 1) : top \in {128, 129, 255}}
  \cup {Counts([s \in 0..131 |-> 1]), Counts(0 :> 1)}
MCForeign ==
  [1..3 -> 0..2] \cup {<<1>>, <<2>>, <<12>>, <<12, 12>>, <<13, 1>>, [i \in 1..12 |-> 13 - i]}

MCSizes == {0, 31, 32, 1023, 1024, 4095, 4096, 16383, 16384, 262143, 262144}
=============================================================================

---------------------------- MODULE MCSeqCoding -----------------------------
(***************************************************************************)
(* SeqCoding with every code at both ends of its range, the widest extra   *)
(* bits, alphabets of one code, of two far apart and of many, dictionaries *)
(* trained on such sections or made elsewhere, whole and damaged.          *)
(***************************************************************************)
EXTENDS SeqCoding

Cycle(s, i) == s[1 + ((i - 1) % Len(s))]

(* Every code at the start and at the end of its range.                    *)
Firsts == [i \in 1..53 |-> <<Cycle(LL_BASE, i), ML_BASE[i], 2^(i % 29)>>]
Lasts  == [i \in 1..53 |-> <<Cycle(LL_BASE, i) + 2^Cycle(LL_BITS, i) - 1,
                             ML_BASE[i] + 2^ML_BITS[i] - 1, 2^((i % 28) + 1) - 1>>]
Wide   == Repeated(<<131071, 131074, 2^30 + 12345>>, 2)
Far    == <<<<0, 3, 1>>, <<70000, 65539, 2^28 + 5>>, <<0, 3, 1>>, <<0, 3, 1>>>>
Long   == <<<<40000, 3, 2^29>>, <<1, 40000, 2^30 + 77>>, <<70000, 3, 2^29 + 1>>>>
Skewed == [i \in 1..60 |-> <<IF i % 7 = 0 THEN 9 ELSE 0, IF i % 5 = 0 THEN 20 ELSE 4,
                            IF i % 11 = 0 THEN 300 ELSE 2>>]
Few    == <<<<0, 4, 2>>, <<9, 4, 300>>, <<0, 20, 2>>>>
Gap    == [i \in 1..60 |-> <<CASE i = 1 -> 5 [] i % 2 = 0 -> 0 [] OTHER -> 2, 3,
                            IF i % 2 = 0 THEN 1 ELSE 40>>]
Same   == Repeated(<<2, 5, 4>>, 128)

MCSections == {<<>>, <<<<0, 3, 4>>>>, Firsts, Lasts, Wide, Far, Long, Skewed, Few, Same}
MCTraining == {<<>>, Gap, Skewed, Far, Wide, Firsts}

Tables(ll, of, ml) == [ll |-> ll, of |-> of, ml |-> ml]
MCForeign ==
  {Tables(<<LL_DEFAULT, 6>>, <<OF_DEFAULT, 5>>, <<ML_DEFAULT, 6>>),
   Tables(<<<<-1, 0, 30, -1>>, 5>>, <<Repeated(-1, 32), 5>>, <<<<2, 0, 62>>, 6>>),
   Tables(<<<<31>> \o Zeros(58) \o <<1>>, 5>>, <<<<1>> \o Zeros(26) \o <<-1, 30>>, 5>>,
          <<<<0, 0, 0, 0, -1, 31>>, 5>>)}
MCCounts == {0, 1, 127, 128, 129, 255, 256, 32511, 32512, 32513, 43690, 98047}
=============================================================================

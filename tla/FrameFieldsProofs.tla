------------------------- MODULE FrameFieldsProofs -------------------------
(***************************************************************************)
(* Proofs about what brackets the blocks of a frame: the header            *)
(* (FrameParams), for every level, size, dictionary and override, and the  *)
(* content checksum (Hasher), for every stripe size, alphabet and set of   *)
(* pieces.  The two models share no state.                                 *)
(***************************************************************************)
EXTENDS FrameParams, Hasher, DataLemmas

-----------------------------------------------------------------------------
(* Sizes.                                                                  *)

(* Every number of 22 bits is between two powers of two, or 0.             *)
LEMMA PowerFits ==
  ASSUME NEW x \in Nat, x < Power(22)
  PROVE  \E b \in 0..22 : (b = 0 \/ Power(b - 1) <= x) /\ x < Power(b)
BY PowerValues, SMT

(* A power of two as a size.                                               *)
LEMMA PowerSize ==
  ASSUME NEW w \in 0..32
  PROVE  /\ w >= 10 => Pow2(w) = Size(Power(w - 10), 0)
         /\ w < 10 => Pow2(w) = Size(0, Power(w))
         /\ Pow2(w) \in Window
<1>1. w >= 10 => Pow2(w) = Size(Power(w - 10), 0)  BY DEF Pow2, Power
<1>2. w < 10 => Pow2(w) = Size(0, Power(w))  BY DEF Pow2, Power
<1>3. w >= 10 => Power(w - 10) \in Nat  BY PowerNat
<1>4. w < 10 => Power(w) \in 0..1023  BY PowerValues, SMT
<1>5. CASE w >= 10  BY <1>1, <1>3, <1>5 DEF Size, Window
<1>6. CASE w < 10  BY <1>2, <1>4, <1>6 DEF Size, Window
<1> QED  BY <1>1, <1>2, <1>5, <1>6

(* The fields of a size.                                                   *)
LEMMA Fields ==
  ASSUME NEW n \in Window
  PROVE  n.k \in Nat /\ n.r \in 0..1023 /\ n = Size(n.k, n.r)
<1>1. n.k \in Nat /\ n.r \in 0..1023  BY DEF Window
<1>2. n = [k |-> n.k, r |-> n.r]  BY DEF Window
<1> QED  BY <1>1, <1>2 DEF Size

(* Leq orders the sizes, and a sum is no less than its parts.              *)
LEMMA LeqTransitive ==
  ASSUME NEW a \in Window, NEW b \in Window, NEW c \in Window, Leq(a, b), Leq(b, c)
  PROVE  Leq(a, c)
<1> DEFINE ak == a.k
           bk == b.k
           ck == c.k
           ar == a.r
           br == b.r
           cr == c.r
<1>1. /\ ak \in Nat /\ bk \in Nat /\ ck \in Nat
      /\ ar \in 0..1023 /\ br \in 0..1023 /\ cr \in 0..1023
  BY Fields
<1>2. /\ ak < bk \/ (ak = bk /\ ar <= br)
      /\ bk < ck \/ (bk = ck /\ br <= cr)
  BY DEF Leq
<1> HIDE DEF ak, bk, ck, ar, br, cr
<1>3. ak < ck \/ (ak = ck /\ ar <= cr)  BY <1>1, <1>2
<1> QED  BY <1>3 DEF Leq, ak, ck, ar, cr

LEMMA LeqTotal ==
  ASSUME NEW a \in Window, NEW b \in Window
  PROVE  Leq(a, a) /\ (Leq(a, b) \/ Leq(b, a))
<1> DEFINE ak == a.k
           bk == b.k
           ar == a.r
           br == b.r
<1>1. ak \in Nat /\ bk \in Nat /\ ar \in 0..1023 /\ br \in 0..1023  BY Fields
<1> HIDE DEF ak, bk, ar, br
<1>2. /\ ak < ak \/ (ak = ak /\ ar <= ar)
      /\ (ak < bk \/ (ak = bk /\ ar <= br)) \/ (bk < ak \/ (bk = ak /\ br <= ar))
  BY <1>1
<1> QED  BY <1>2 DEF Leq, ak, bk, ar, br

LEMMA PlusGrows ==
  ASSUME NEW m \in Window, NEW n \in Window
  PROVE  Plus(m, n) \in Window /\ Leq(m, Plus(m, n))
<1> DEFINE mk == m.k
           mr == m.r
           nk == n.k
           nr == n.r
<1>1. mk \in Nat /\ nk \in Nat /\ mr \in 0..1023 /\ nr \in 0..1023  BY Fields
<1>2. Plus(m, n) = Size(mk + nk + ((mr + nr) \div 1024), (mr + nr) % 1024)  BY DEF Plus
<1> HIDE DEF mk, mr, nk, nr
<1> DEFINE k == mk + nk + ((mr + nr) \div 1024)
           r == (mr + nr) % 1024
<1>3. k \in Nat /\ r \in 0..1023 /\ (mk < k \/ (mk = k /\ mr <= r))  BY <1>1
<1> HIDE DEF k, r
<1>4. Plus(m, n) = [k |-> k, r |-> r]  BY <1>2 DEF k, r, Size
<1> QED  BY <1>3, <1>4 DEF Window, Leq, mk, mr

(* A larger logarithm makes no smaller a size.                             *)
LEMMA SizeGrows ==
  ASSUME NEW u \in 0..32, NEW w \in 0..32, u <= w
  PROVE  Leq(Pow2(u), Pow2(w))
<1>1. CASE u >= 10
  <2>1. Power(u - 10) <= Power(w - 10) /\ Power(u - 10) \in Nat /\ Power(w - 10) \in Nat
    BY <1>1, PowerGrows, PowerNat
  <2>2. Pow2(u) = Size(Power(u - 10), 0) /\ Pow2(w) = Size(Power(w - 10), 0)
    BY <1>1, PowerSize
  <2> QED  BY <2>1, <2>2 DEF Leq, Size
<1>2. CASE u < 10 /\ w >= 10
  <2>1. Power(w - 10) \in Nat /\ Power(w - 10) >= 1  BY <1>2, PowerNat
  <2>2. Pow2(u) = Size(0, Power(u)) /\ Pow2(w) = Size(Power(w - 10), 0)
    BY <1>2, PowerSize
  <2> QED  BY <2>1, <2>2 DEF Leq, Size
<1>3. CASE w < 10
  <2>1. Power(u) <= Power(w)  BY <1>3, PowerGrows
  <2>2. Pow2(u) = Size(0, Power(u)) /\ Pow2(w) = Size(0, Power(w))
    BY <1>3, PowerSize
  <2> QED  BY <2>1, <2>2 DEF Leq, Size
<1> QED  BY <1>1, <1>2, <1>3

(* The same, with the types that LeqTransitive asks for.                   *)
LEMMA PowersNest ==
  ASSUME NEW u \in 0..32, NEW w \in 0..32, u <= w
  PROVE  Leq(Pow2(u), Pow2(w)) /\ Pow2(u) \in Window /\ Pow2(w) \in Window
BY SizeGrows, PowerSize, Zenon

(* What the CHOOSE in BitLength picks.                                     *)
LEMMA BitLengthIs ==
  ASSUME NEW x \in Nat, x < Power(22)
  PROVE  /\ BitLength(x) \in 0..22 /\ x < Power(BitLength(x))
         /\ x < 1024 => BitLength(x) <= 10
<1> DEFINE Fit(b) == (b = 0 \/ Power(b - 1) <= x) /\ (b = 31 \/ x < Power(b))
           c == CHOOSE b \in 0..31 : Fit(b)
<1>1. BitLength(x) = c  BY DEF BitLength, Power
<1>2. \E b \in 0..31 : Fit(b)
  <2>1. PICK b \in 0..22 : (b = 0 \/ Power(b - 1) <= x) /\ x < Power(b)  BY PowerFits
  <2> QED  BY <2>1
<1>3. c \in 0..31 /\ Fit(c)
  <2> HIDE DEF Fit
  <2> QED  BY <1>2, Zenon
<1> HIDE DEF c
<1>4. c <= 22
  <2> SUFFICES ASSUME c > 22  PROVE FALSE
    BY <1>3
  <2>1. Power(22) <= Power(c - 1) /\ Power(c - 1) \in Nat /\ Power(22) \in Nat
    BY <1>3, PowerGrows, PowerNat
  <2> QED  BY <1>3, <2>1
<1>5. x < 1024 => c <= 10
  <2> SUFFICES ASSUME x < 1024, c > 10  PROVE FALSE
    BY <1>3
  <2>1. Power(10) <= Power(c - 1) /\ Power(c - 1) \in Nat /\ Power(10) = 1024
    BY <1>3, PowerGrows, PowerNat, PowerValues
  <2> QED  BY <1>3, <2>1
<1> QED  BY <1>1, <1>3, <1>4, <1>5

(* What the low 32 bits of a size are sized for; the size itself, if it    *)
(* has no more bits.                                                       *)
LEMMA CeilCovers ==
  ASSUME NEW n \in Window
  PROVE  /\ ceil_log2(n) \in 0..32
         /\ Leq(n, Size(2^22, 0)) => Leq(n, Pow2(ceil_log2(n)))
<1> DEFINE nk == n.k
           nr == n.r
           mk == Minus1(n).k
           mr == Minus1(n).r
           cap == 2^22
           k == mk % cap
           kbits == BitLength(k)
           rbits == BitLength(mr)
           log == ceil_log2(n)
           low == Leq(n, Size(cap, 0))
<1>0. nk \in Nat /\ nr \in 0..1023  BY Fields
<1>c. cap = Power(22) /\ cap \in Nat /\ cap > 1023
  <2>1. 2^22 = 4194304  BY SMT
  <2> QED  BY <2>1, SMT DEF Power
<1>d. /\ ~Leq(n, Size(0, 1)) => nk > 0 \/ nr > 1
      /\ low => nk < cap \/ (nk = cap /\ nr = 0)
  <2> HIDE DEF cap
  <2>1. nk > 0 \/ nr > 1 \/ (nk = 0 /\ nr <= 1)  BY <1>0
  <2>2. Leq(n, Size(0, 1)) <=> (nk < 0 \/ (nk = 0 /\ nr <= 1))  BY Zenon DEF Leq, Size
  <2>3. low <=> (nk < cap \/ (nk = cap /\ nr <= 0))  BY Zenon DEF Leq, Size
  <2> HIDE DEF nk, nr, low
  <2> QED  BY <1>0, <1>c, <2>1, <2>2, <2>3
<1>1. CASE Leq(n, Size(0, 1))
  <2>1. ceil_log2(n) = 0  BY <1>1 DEF ceil_log2
  <2>2. Pow2(0) = Size(0, 1)  BY PowerSize, PowerValues
  <2> QED  BY <1>1, <2>1, <2>2
<1>2. CASE ~Leq(n, Size(0, 1))
  <2>1. nk > 0 \/ nr > 1  BY <1>2, <1>d
  <2>2. /\ nr > 0 => mk = nk /\ mr = nr - 1
        /\ nr = 0 => mk = nk - 1 /\ mr = 1023
    BY <1>0 DEF Minus1, Size
  <2>3. log = IF k > 0 THEN 10 + kbits ELSE rbits
    BY <1>2 DEF ceil_log2
  <2>4. low => nk < cap \/ (nk = cap /\ nr = 0)
    BY <1>d
  <2> HIDE DEF mk, mr, nk, nr, low, cap
  <2>5. mk \in Nat /\ mr \in 0..1023
    <3>1. CASE nr > 0  BY <1>0, <3>1, <2>2
    <3>2. CASE nr = 0  BY <1>0, <3>2, <2>1, <2>2
    <3>3. nr > 0 \/ nr = 0  BY <1>0
    <3> QED  BY <3>1, <3>2, <3>3, Zenon
  <2>6. k \in Nat /\ k < cap /\ (mk < cap => k = mk)
    <3>1. cap = 4194304  BY SMT DEF cap
    <3> QED  BY <3>1, <2>5, SMT
  <2>7. kbits \in 0..22 /\ k < Power(kbits)
    <3> HIDE DEF k
    <3> QED  BY <1>c, <2>6, BitLengthIs
  <2>8. rbits \in 0..10 /\ mr < Power(rbits)
    <3>1. mr \in Nat /\ mr < Power(22) /\ mr < 1024  BY <1>c, <2>5
    <3> QED  BY <3>1, BitLengthIs
  <2> HIDE DEF k, kbits, rbits, log
  <2>9. log \in 0..32  BY <2>3, <2>7, <2>8
  <2>10. ASSUME low  PROVE Leq(n, Pow2(log))
    <3>1. k = mk
      <4>1. nk < cap \/ (nk = cap /\ nr = 0)  BY <2>4, <2>10
      <4>2. cap \in Nat  BY <1>c
      <4>3. CASE nr = 0
        <5>1. mk = nk - 1 /\ nk <= cap  BY <4>1, <4>2, <4>3, <2>2, <1>0
        <5>2. mk < cap  BY <5>1, <4>2, <1>0
        <5> QED  BY <5>2, <2>6
      <4>4. CASE nr > 0
        <5>1. mk = nk /\ nk < cap  BY <4>1, <4>4, <2>2, <1>0
        <5> QED  BY <5>1, <2>6
      <4> QED  BY <4>3, <4>4, <1>0
    <3>2. CASE k > 0
      <4>1. 10 + kbits \in 0..32 /\ log = 10 + kbits /\ (10 + kbits) - 10 = kbits
        BY <3>2, <2>3, <2>7
      <4>2. Pow2(log) = Size(Power(kbits), 0) /\ Power(kbits) \in Nat
        BY <4>1, <2>7, PowerSize, PowerNat
      <4>3. nk < Power(kbits) \/ (nk = Power(kbits) /\ nr = 0)
        <5>1. mk < Power(kbits)  BY <2>7, <3>1
        <5>2. CASE nr > 0  BY <5>1, <5>2, <2>2
        <5>3. CASE nr = 0
          <6>1. mk = nk - 1  BY <5>3, <2>2
          <6> QED  BY ONLY <5>1, <5>3, <6>1, <1>0, <4>2
        <5> QED  BY <1>0, <5>2, <5>3
      <4> QED  BY <4>2, <4>3 DEF Leq, Size, nk, nr
    <3>3. CASE k = 0
      <4>1. log = rbits  BY <3>3, <2>3
      <4>2. (nk = 0 /\ nr = mr + 1) \/ (nk = 1 /\ nr = 0 /\ mr = 1023)
        BY <1>0, <2>2, <3>1, <3>3
      <4>3. CASE rbits = 10
        <5>1. Pow2(10) = Size(1, 0)  BY PowerSize, PowerValues
        <5>2. nk < 1 \/ (nk = 1 /\ nr <= 0)  BY <4>2
        <5> QED  BY <4>1, <4>3, <5>1, <5>2 DEF Leq, Size, nk, nr
      <4>4. CASE rbits < 10
        <5>1. Pow2(rbits) = Size(0, Power(rbits)) /\ Power(rbits) \in Nat
          BY <2>8, <4>4, PowerSize, PowerNat
        <5>2. Power(rbits) <= Power(9) /\ Power(9) = 512
          BY <2>8, <4>4, PowerGrows, PowerValues
        <5>3. nk = 0 /\ nr <= Power(rbits)
          BY <2>5, <2>8, <4>2, <5>1, <5>2
        <5> QED  BY <4>1, <5>1, <5>3 DEF Leq, Size, nk, nr
      <4> QED  BY <2>8, <4>3, <4>4
    <3> QED  BY <2>6, <3>2, <3>3
  <2> QED  BY <2>9, <2>10 DEF log, low, cap
<1> QED  BY <1>1, <1>2

-----------------------------------------------------------------------------
(* The parameters every entry point works with.                            *)

Names == {"Fast", "Dfast", "Greedy", "Lazy", "Lazy2", "BtLazy2", "Btopt", "Btultra", "Btultra2"}

(* The rows of the level table, within their ranges.                       *)
LEMMA LevelRow ==
  ASSUME NEW c \in 1..22
  PROVE  /\ LEVELS[c][1] \in 19..27 /\ LEVELS[c][2] \in 13..27 /\ LEVELS[c][3] \in 13..27
         /\ LEVELS[c][4] \in Names
BY SMT DEF LEVELS, Names

(* What Clamp keeps and where it stops.                                    *)
LEMMA ClampIs ==
  ASSUME NEW x \in Int, NEW l \in Int, NEW h \in Int, l <= h
  PROVE  /\ Clamp(x, l, h) \in l..h /\ (x >= l => Clamp(x, l, h) <= x)
         /\ (x <= h => Clamp(x, l, h) >= x)
         /\ (x >= h => Clamp(x, l, h) = h)
         /\ (x \in l..h => Clamp(x, l, h) = x)
BY DEF Clamp, Most, Least

(* The parameters of a level: never below the smallest window nor beyond   *)
(* the portable one, and no smaller than the size needs, up to 2^19.       *)
LEMMA LevelParams ==
  ASSUME NEW level \in Int, NEW n \in Window
  PROVE  LET p == params_for_level(level, n)
         IN  /\ p \in [window_log : Int, hash_log : Int, chain_log : Int, strategy : Names]
             /\ p.window_log \in 10..23
             /\ p.window_log >= Least(ceil_log2(n), 19)
<1> DEFINE row == LEVELS[Clamp(level, 1, 22)]
           a == row[1]
           b == row[2]
           c == row[3]
           d == row[4]
           log == ceil_log2(n)
           window == Least(Least(a, Most(log, 10)), 23)
           p == params_for_level(level, n)
<1>1. a \in 19..27 /\ b \in 13..27 /\ c \in 13..27 /\ d \in Names
  <2>1. Clamp(level, 1, 22) \in 1..22  BY DEF Clamp, Most, Least
  <2> QED  BY <2>1, LevelRow
<1>2. log \in 0..32  BY CeilCovers
<1>3. p = [window_log |-> window, hash_log |-> Least(b, window + 1),
           chain_log |-> Least(c, window + 1), strategy |-> d]
  BY Zenon DEF params_for_level, MIN_WINDOW_LOG, MAX_WINDOW_LOG
<1> HIDE DEF a, b, c, d, log, p
<1>4. window \in 10..23 /\ window >= Least(log, 19)  BY <1>1, <1>2 DEF Least, Most
<1> HIDE DEF window
<1>5. Least(b, window + 1) \in Int /\ Least(c, window + 1) \in Int
  BY <1>1, <1>4 DEF Least
<1> QED  BY <1>1, <1>3, <1>4, <1>5 DEF p, log

(* Whatever is no larger than a block and than the input fits the window   *)
(* of its level.                                                           *)
LEMMA LevelCovers ==
  ASSUME NEW level \in Int, NEW n \in Window, Leq(n, Size(2^22, 0)),
         NEW b \in Window, Leq(b, n), Leq(b, Pow2(17)),
         NEW w \in 10..32, w >= params_for_level(level, n).window_log
  PROVE  Leq(b, Pow2(w))
<1> DEFINE log == ceil_log2(n)
           win == params_for_level(level, n).window_log
<1>1. log \in 0..32 /\ Leq(n, Pow2(log))  BY CeilCovers
<1>2. win \in 10..23 /\ win >= Least(log, 19)  BY LevelParams
<1> HIDE DEF log, win
<1>3. (Leq(b, Pow2(log)) /\ log <= 19) \/ 17 <= w
  <2>1. Pow2(log) \in Window  BY <1>1, PowerSize
  <2>2. Leq(b, Pow2(log))  BY <1>1, <2>1, LeqTransitive
  <2>3. log <= 19 \/ win >= 19  BY <1>1, <1>2 DEF Least
  <2>4. w >= win  BY DEF win
  <2> QED  BY <1>2, <2>2, <2>3, <2>4
<1>4. CASE Leq(b, Pow2(log)) /\ log <= 19
  <2>1. log <= w
    <3>1. win >= log  BY <1>1, <1>2, <1>4 DEF Least
    <3>2. w >= win  BY DEF win
    <3> QED  BY <1>1, <1>2, <3>1, <3>2
  <2>2. Leq(Pow2(log), Pow2(w)) /\ Pow2(log) \in Window /\ Pow2(w) \in Window
    <3>1. log \in 0..32 /\ w \in 0..32  BY <1>1
    <3> QED  BY <2>1, <3>1, PowersNest, Zenon
  <2> QED  BY <1>4, <2>2, LeqTransitive
<1>5. CASE 17 <= w
  <2>1. Leq(Pow2(17), Pow2(w)) /\ Pow2(17) \in Window /\ Pow2(w) \in Window
    <3>1. 17 \in 0..32 /\ w \in 0..32  BY SMT
    <3> QED  BY <1>5, <3>1, PowersNest, Zenon
  <2> QED  BY <2>1, LeqTransitive
<1> QED  BY <1>3, <1>4, <1>5

(* The calls.                                                              *)
Entries == {"compress", "long", "parallel", "dict", "options", "stream", "stream_long"}
CallType(q) ==
  /\ q.entry \in Entries /\ q.level \in Int /\ q.dict \in ByteCount /\ q.id \in DictId
  /\ q.checksum \in BOOLEAN /\ q.long_distance \in BOOLEAN
  /\ IF q.entry \in {"stream", "stream_long"} THEN q.n = None /\ q.id = NoId
     ELSE q.n \in ByteCount
  /\ q.entry # "dict" => q.dict = NoDict
  /\ q.entry = "stream_long" => q.window \in Int
  /\ q.entry \in {"long", "stream"} => q.window = None
  /\ q.entry # "options" => ~q.long_distance
  /\ q.window \in Int \cup {None} /\ q.table \in Int \cup {None}
  /\ q.strategy \in Names \cup {None}

(* What the calls have in common.                                          *)
LEMMA CallFacts ==
  ASSUME NEW q \in Calls
  PROVE  CallType(q)
<1>0. NoDict \in ByteCount /\ NoId \in DictId
  <2>1. 0 \div 2^30 < 2^24  BY SMT
  <2> QED  BY <2>1 DEF NoDict, NoId, Size, ByteCount, Window, DictId
<1>1. CASE q \in PlainCalls
  <2>1. PICK e \in {"compress", "long", "parallel"}, l \in LevelArgs, n \in Sizes :
          q = Call(e, l, n)
    BY <1>1 DEF PlainCalls
  <2>2. l \in Int /\ n \in ByteCount  BY FrameParamsAssumption
  <2> QED  BY <1>0, <2>1, <2>2 DEF Call, CallType, Entries
<1>2. CASE q \in DictCalls
  <2>1. PICK l \in LevelArgs, n \in Sizes, d \in DictSizes, id \in DictIds :
          q = DictCall(l, n, d, id)
    BY <1>2 DEF DictCalls
  <2>2. l \in Int /\ n \in ByteCount /\ d \in ByteCount /\ id \in DictId
    BY FrameParamsAssumption
  <2> QED  BY <1>0, <2>1, <2>2 DEF Call, DictCall, CallType, Entries
<1>3. CASE q \in OptionsCalls
  <2>1. PICK l \in LevelArgs, n \in Sizes, w \in WindowArgs \cup {None}, ld \in BOOLEAN,
             c \in BOOLEAN, t \in {None, 3, 30}, s \in {None, "Fast", "Btopt"} :
          q = OptionsCall(l, n, w, ld, c, t, s)
    BY <1>3 DEF OptionsCalls
  <2>2. l \in Int /\ n \in ByteCount /\ w \in Int \cup {None} /\ t \in Int \cup {None}
    BY FrameParamsAssumption
  <2>3. s \in Names \cup {None}  BY DEF Names
  <2> QED  BY <1>0, <2>1, <2>2, <2>3 DEF Call, OptionsCall, CallType, Entries
<1>4. CASE q \in StreamCalls
  <2>1. CASE \E l \in LevelArgs, c \in BOOLEAN :
               q = [Call("stream", l, None) EXCEPT !.checksum = c]
    <3>1. PICK l \in LevelArgs, c \in BOOLEAN :
            q = [Call("stream", l, None) EXCEPT !.checksum = c]
      BY <2>1
    <3>2. l \in Int  BY FrameParamsAssumption
    <3> QED  BY <1>0, <3>1, <3>2 DEF Call, CallType, Entries
  <2>2. CASE \E l \in LevelArgs, w \in WindowArgs :
               q = [Call("stream_long", l, None) EXCEPT !.window = w]
    <3>1. PICK l \in LevelArgs, w \in WindowArgs :
            q = [Call("stream_long", l, None) EXCEPT !.window = w]
      BY <2>2
    <3>2. l \in Int /\ w \in Int  BY FrameParamsAssumption
    <3> QED  BY <1>0, <3>1, <3>2 DEF Call, CallType, Entries
  <2> QED  BY <1>4, <2>1, <2>2 DEF StreamCalls
<1> QED  BY <1>1, <1>2, <1>3, <1>4, Zenon DEF Calls

(* The same with a dictionary: the window of the sum of both, raised to    *)
(* span the dictionary.                                                    *)
LEMMA DictParams ==
  ASSUME NEW level \in Int, NEW n \in Window, NEW dict \in Window
  PROVE  LET p == params_for_level_with_dict(level, n, dict)
         IN  /\ p \in [window_log : Int, hash_log : Int, chain_log : Int, strategy : Names]
             /\ p.window_log \in 10..23
             /\ p.window_log >= params_for_level(level, Plus(n, dict)).window_log
             /\ p.window_log >= Clamp(ceil_log2(dict), 10, 23)
<1> DEFINE p == params_for_level(level, Plus(n, dict))
           reach == Clamp(ceil_log2(dict), 10, 23)
<1>1. Plus(n, dict) \in Window  BY PlusGrows
<1>2. /\ p \in [window_log : Int, hash_log : Int, chain_log : Int, strategy : Names]
      /\ p.window_log \in 10..23
  BY <1>1, LevelParams
<1>3. reach \in 10..23
  <2>1. ceil_log2(dict) \in Int  BY CeilCovers
  <2> QED  BY <2>1 DEF Clamp, Most, Least
<1>4. params_for_level_with_dict(level, n, dict)
        = [p EXCEPT !.window_log = Most(p.window_log, reach)]
  BY DEF params_for_level_with_dict, MIN_WINDOW_LOG, MAX_WINDOW_LOG
<1> HIDE DEF p, reach
<1> QED  BY <1>2, <1>3, <1>4 DEF Most, p, reach

(* The same for long-distance matching: the window of the level, raised to *)
(* the size as far as its own limit.                                       *)
LEMMA LdmParams ==
  ASSUME NEW level \in Int, NEW n \in Window
  PROVE  LET p == params_for_level_ldm(level, n)
         IN  /\ p \in [window_log : Int, hash_log : Int, chain_log : Int, strategy : Names]
             /\ p.window_log \in 10..27
             /\ p.window_log >= params_for_level(level, n).window_log
<1> DEFINE p == params_for_level(level, n)
           needed == Clamp(ceil_log2(n), 10, 27)
<1>1. /\ p \in [window_log : Int, hash_log : Int, chain_log : Int, strategy : Names]
      /\ p.window_log \in 10..23
  BY LevelParams
<1>2. needed \in 10..27
  <2>1. ceil_log2(n) \in Int  BY CeilCovers
  <2> QED  BY <2>1 DEF Clamp, Most, Least
<1>3. params_for_level_ldm(level, n) = [p EXCEPT !.window_log = Most(p.window_log, needed)]
  BY DEF params_for_level_ldm, MIN_WINDOW_LOG, LDM_MAX_WINDOW_LOG
<1> HIDE DEF p, needed
<1> QED  BY <1>1, <1>2, <1>3 DEF Most, p

(* The long-distance window is the only one beyond the portable one; no    *)
(* override leaves the range its form of the call has.                     *)
LEMMA ResolveIs ==
  ASSUME NEW q \in Calls, q.entry = "options"
  PROVE  LET p == resolve(q, q.n)
         IN  /\ p \in [window_log : Int, hash_log : Int, chain_log : Int, strategy : Names]
             /\ p.window_log \in 10..27
             /\ ~q.long_distance => p.window_log <= 23
             /\ q.window = None => p.window_log >= params_for_level(q.level, q.n).window_log
<1> DEFINE plain == params_for_level(q.level, q.n)
           long == params_for_level_ldm(q.level, q.n)
           p == IF q.long_distance THEN long ELSE plain
           most == IF q.long_distance THEN 27 ELSE 23
           window == IF q.window = None THEN p.window_log ELSE Clamp(q.window, 10, most)
           hash == Override(q.table, p.hash_log)
           chain == Override(q.table, p.chain_log)
           strat == Override(q.strategy, p.strategy)
<1>0. /\ q.level \in Int /\ q.n \in Window /\ q.window \in Int \cup {None}
      /\ q.table \in Int \cup {None} /\ q.strategy \in Names \cup {None}
      /\ q.long_distance \in BOOLEAN
  BY CallFacts DEF CallType, ByteCount
<1>1. /\ plain \in [window_log : Int, hash_log : Int, chain_log : Int, strategy : Names]
      /\ plain.window_log \in 10..23
  BY <1>0, LevelParams
<1>2. /\ long \in [window_log : Int, hash_log : Int, chain_log : Int, strategy : Names]
      /\ long.window_log \in 10..27 /\ long.window_log >= plain.window_log
  BY <1>0, LdmParams
<1>3. resolve(q, q.n) = [window_log |-> window, hash_log |-> hash, chain_log |-> chain,
                         strategy |-> strat]
  BY DEF resolve, MIN_WINDOW_LOG, MAX_WINDOW_LOG, LDM_MAX_WINDOW_LOG
<1> HIDE DEF plain, long
<1>4. /\ p \in [window_log : Int, hash_log : Int, chain_log : Int, strategy : Names]
      /\ p.window_log \in 10..most /\ p.window_log >= plain.window_log
  BY <1>0, <1>1, <1>2
<1>5. most \in {23, 27} /\ (~q.long_distance => most = 23)  OBVIOUS
<1> HIDE DEF p, most
<1>6. window \in 10..most /\ (q.window = None => window >= plain.window_log)
  <2>1. CASE q.window = None  BY <2>1, <1>4
  <2>2. CASE q.window # None
    <3>1. q.window \in Int  BY <1>0, <2>2
    <3> QED  BY <2>2, <3>1, <1>5, ClampIs
  <2> QED  BY <2>1, <2>2
<1>7. hash \in Int /\ chain \in Int /\ strat \in Names  BY <1>0, <1>4 DEF Override
<1> HIDE DEF window, hash, chain, strat
<1> QED  BY <1>3, <1>5, <1>6, <1>7 DEF plain

(* What the parameters of a call keep: the ranges of the window and of the *)
(* reach, a window no smaller than the level gives for all that is in the  *)
(* frame and the dictionary together, and one that spans the dictionary.   *)
Far(q) == q.entry \in {"long", "stream_long"} \/ q.long_distance
SizedFor(q) == IF q.n = None THEN UsizeMax ELSE Plus(q.n, q.dict)
Suitable(q, p) ==
  /\ p \in [window_log : Int, hash_log : Int, chain_log : Int, strategy : Names, reach : Int]
  /\ p.window_log \in 10..27 /\ (~Far(q) => p.window_log <= 23)
  /\ p.reach \in 10..23 /\ p.reach <= p.window_log
  /\ q.window = None => p.window_log >= params_for_level(q.level, SizedFor(q)).window_log
  /\ q.entry = "dict" => p.window_log >= Clamp(ceil_log2(q.dict), 10, 23)

(* No dictionary adds nothing.                                             *)
LEMMA PlusNothing ==
  ASSUME NEW n \in Window
  PROVE  Plus(n, NoDict) = n
<1> DEFINE k == n.k
           r == n.r
<1>1. k \in Nat /\ r \in 0..1023 /\ n = Size(k, r)  BY Fields
<1>2. Plus(n, NoDict) = Size(k + 0 + ((r + 0) \div 1024), (r + 0) % 1024)
  BY DEF Plus, NoDict, Size
<1> HIDE DEF k, r
<1>3. k + 0 + ((r + 0) \div 1024) = k /\ (r + 0) % 1024 = r  BY <1>1
<1> QED  BY <1>1, <1>2, <1>3

LEMMA UsizeMaxIs == UsizeMax \in Window /\ Leq(UsizeMax, Size(2^22, 0)) /\ Leq(Pow2(17), UsizeMax)
<1>1. 2^22 - 1 \in Nat /\ 2^22 - 1 < 2^22 /\ 128 < 2^22 - 1  BY SMT
<1>2. Pow2(17) = Size(128, 0)  BY PowerSize, PowerValues
<1> QED  BY <1>1, <1>2 DEF UsizeMax, Size, Window, Leq

LEMMA EntrySuitable ==
  ASSUME NEW q \in Calls
  PROVE  Suitable(q, EntryParams(q))
<1> DEFINE Shape(p) == p \in [window_log : Int, hash_log : Int, chain_log : Int, strategy : Names]
           P == EntryParams(q)
           sized == params_for_level(q.level, SizedFor(q))
<1>0. CallType(q)  BY CallFacts
<1>s. /\ q.entry \notin {"stream", "stream_long"} => SizedFor(q) = Plus(q.n, q.dict)
      /\ q.entry \notin {"stream", "stream_long", "dict"} => SizedFor(q) = q.n
      /\ q.entry \in {"stream", "stream_long"} => SizedFor(q) = UsizeMax
      /\ SizedFor(q) \in Window
  <2>1. None \notin ByteCount  BY FrameParamsAssumption
  <2>2. CASE q.entry \in {"stream", "stream_long"}
    <3>1. SizedFor(q) = UsizeMax  BY <1>0, <2>2 DEF CallType, SizedFor
    <3> QED  BY <2>2, <3>1, UsizeMaxIs
  <2>3. CASE q.entry \notin {"stream", "stream_long"}
    <3>1. q.n \in ByteCount /\ q.dict \in ByteCount  BY <1>0, <2>3 DEF CallType
    <3>2. SizedFor(q) = Plus(q.n, q.dict)  BY <2>1, <3>1 DEF SizedFor
    <3>3. q.entry # "dict" => SizedFor(q) = q.n
      <4>1. q.entry # "dict" => q.dict = NoDict  BY <1>0 DEF CallType
      <4>2. q.n \in Window  BY <3>1 DEF ByteCount
      <4> QED  BY <3>2, <4>1, <4>2, PlusNothing
    <3>4. q.n \in Window /\ q.dict \in Window  BY <3>1 DEF ByteCount
    <3>5. Plus(q.n, q.dict) \in Window  BY <3>4, PlusGrows
    <3> QED  BY <2>3, <3>2, <3>3, <3>5
  <2> QED  BY <2>2, <2>3
<1>l. q.level \in Int  BY <1>0 DEF CallType
<1>p. Shape(sized) /\ sized.window_log \in 10..23  BY <1>s, <1>l, LevelParams
<1>1. CASE q.entry \in {"compress", "parallel"}
  <2>1. P = Parameters(sized, sized.window_log)  BY <1>1, <1>s DEF EntryParams
  <2> HIDE DEF sized
  <2> QED  BY <1>1, <1>p, <2>1 DEF Suitable, Parameters, sized
<1>2. CASE q.entry = "dict"
  <2> DEFINE p == params_for_level_with_dict(q.level, q.n, q.dict)
             reach == Clamp(ceil_log2(q.dict), 10, 23)
  <2>1. P = Parameters(p, p.window_log)  BY <1>2 DEF EntryParams
  <2>2. q.n \in Window /\ q.dict \in Window  BY <1>0, <1>2 DEF CallType, ByteCount
  <2>3. /\ Shape(p) /\ p.window_log \in 10..23 /\ p.window_log >= sized.window_log
        /\ p.window_log >= reach
    <3>1. SizedFor(q) = Plus(q.n, q.dict)  BY <1>2, <1>s
    <3> QED  BY <1>l, <2>2, <3>1, DictParams
  <2> HIDE DEF sized, p, reach
  <2> QED  BY <1>2, <2>1, <2>3 DEF Suitable, Parameters, sized, reach
<1>3. CASE q.entry = "long"
  <2> DEFINE p == params_for_level_ldm(q.level, q.n)
  <2>1. SizedFor(q) = q.n  BY <1>3, <1>s
  <2>2. P = Parameters(p, sized.window_log)  BY <1>3, <2>1 DEF EntryParams
  <2>3. Shape(p) /\ p.window_log \in 10..27 /\ p.window_log >= sized.window_log
    BY <1>l, <1>s, <2>1, LdmParams
  <2> HIDE DEF sized, p
  <2> QED  BY <1>3, <1>p, <2>2, <2>3 DEF Suitable, Parameters, sized, Far
<1>4. CASE q.entry = "options"
  <2> DEFINE p == resolve(q, q.n)
             reach == IF q.long_distance THEN Reach(p, q.level, q.n) ELSE p.window_log
  <2>1. SizedFor(q) = q.n  BY <1>4, <1>s
  <2>2. P = Parameters(p, reach)  BY <1>4 DEF EntryParams
  <2>3. /\ Shape(p) /\ p.window_log \in 10..27 /\ (~q.long_distance => p.window_log <= 23)
        /\ q.window = None => p.window_log >= sized.window_log
    BY <1>4, <2>1, ResolveIs
  <2>4. Reach(p, q.level, q.n) = Least(sized.window_log, p.window_log)
    BY <2>1 DEF Reach
  <2> HIDE DEF sized, p
  <2>5. reach \in 10..23 /\ reach <= p.window_log
    <3>1. q.long_distance \in BOOLEAN  BY <1>0 DEF CallType
    <3> QED  BY <1>p, <2>3, <2>4, <3>1 DEF Least
  <2> HIDE DEF reach
  <2> QED  BY <1>4, <2>2, <2>3, <2>5 DEF Suitable, Parameters, sized, Far
<1>5. CASE q.entry = "stream"
  <2>1. SizedFor(q) = UsizeMax  BY <1>5, <1>s
  <2>2. P = Parameters(sized, sized.window_log)  BY <1>5, <2>1 DEF EntryParams
  <2> HIDE DEF sized
  <2> QED  BY <1>5, <1>p, <2>2 DEF Suitable, Parameters, sized
<1>6. CASE q.entry = "stream_long"
  <2> DEFINE window == Clamp(q.window, sized.window_log, 27)
  <2>1. SizedFor(q) = UsizeMax  BY <1>6, <1>s
  <2>2. P = [Parameters(sized, sized.window_log) EXCEPT !.window_log = window]
    BY <1>6, <2>1 DEF EntryParams, LDM_MAX_WINDOW_LOG
  <2>3. q.window \in Int  BY <1>0, <1>6 DEF CallType
  <2> HIDE DEF sized
  <2>4. window \in 10..27 /\ window >= sized.window_log
    BY <1>p, <2>3 DEF Clamp, Most, Least
  <2> HIDE DEF window
  <2> QED  BY <1>6, <1>p, <2>2, <2>4 DEF Suitable, Parameters, sized, Far
<1> QED  BY <1>0, <1>1, <1>2, <1>3, <1>4, <1>5, <1>6 DEF CallType, Entries

(* The dictionary lies in the window whole, as far as a portable one goes. *)
LEMMA EntryDict ==
  ASSUME NEW q \in Calls, Leq(q.dict, Pow2(23))
  PROVE  Leq(q.dict, Pow2(EntryParams(q).window_log))
<1> DEFINE w == EntryParams(q).window_log
           log == ceil_log2(q.dict)
           reach == Clamp(log, 10, 23)
<1>0. CallType(q) /\ Suitable(q, EntryParams(q))  BY CallFacts, EntrySuitable
<1>1. q.dict \in Window  BY <1>0 DEF CallType, ByteCount
<1>2. w \in 10..27 /\ (q.entry = "dict" => w >= reach)  BY <1>0 DEF Suitable
<1>3. Pow2(w) \in Window  BY <1>2, PowerSize
<1>4. CASE q.entry # "dict"
  <2>1. q.dict = Size(0, 0)  BY <1>0, <1>4 DEF CallType, NoDict
  <2> HIDE DEF w
  <2>2. Leq(Size(0, 0), Pow2(w))
    <3>1. Pow2(w).k \in Nat /\ Pow2(w).r \in 0..1023  BY <1>3, Fields
    <3>2. 0 < Pow2(w).k \/ (0 = Pow2(w).k /\ 0 <= Pow2(w).r)  BY <3>1
    <3> QED  BY <3>2, Zenon DEF Leq, Size
  <2> QED  BY <2>1, <2>2 DEF w
<1>5. CASE q.entry = "dict"
  <2>1. log \in 0..32 /\ (Leq(q.dict, Size(2^22, 0)) => Leq(q.dict, Pow2(log)))
    BY <1>1, CeilCovers
  <2> HIDE DEF w, log
  <2>2. reach \in 10..23 /\ (log <= 23 => log <= reach) /\ (log > 23 => reach = 23)
    BY <2>1 DEF Clamp, Most, Least
  <2> HIDE DEF reach
  <2>3. Leq(q.dict, Size(2^22, 0))
    <3>1. Leq(Pow2(23), Pow2(32)) /\ Pow2(23) \in Window /\ Pow2(32) \in Window
      <4>1. 23 \in 0..32 /\ 32 \in 0..32 /\ 23 <= 32  BY SMT
      <4> QED  BY ONLY <4>1, PowersNest, Zenon
    <3>2. Pow2(32) = Size(2^22, 0)  BY PowerSize DEF Power
    <3> QED  BY <1>1, <3>1, <3>2, LeqTransitive
  <2>4. PICK v0 \in 0..32 : v0 <= w /\ Leq(q.dict, Pow2(v0))
    <3>1. CASE log <= 23  BY <3>1, <1>2, <1>5, <2>1, <2>2, <2>3
    <3>2. CASE log > 23  BY <3>2, <1>2, <1>5, <2>2
    <3> QED  BY <2>1, <3>1, <3>2
  <2>5. Leq(Pow2(v0), Pow2(w)) /\ Pow2(v0) \in Window
    <3>1. v0 \in 0..32 /\ w \in 0..32 /\ v0 <= w  BY <1>2, <2>4
    <3> QED  BY <3>1, PowersNest, Zenon
  <2> QED  BY <1>1, <1>3, <2>4, <2>5, LeqTransitive DEF w
<1> QED  BY <1>4, <1>5

(* A block of the frame fits the window, unless the caller overrode it or  *)
(* the size was cut.                                                       *)
LEMMA EntryBlocks ==
  ASSUME NEW q \in Calls, q.window = None,
         q.n # None => Leq(Plus(q.n, q.dict), Size(2^22, 0)),
         NEW b \in Window, q.n # None => Leq(b, q.n), Leq(b, Pow2(17))
  PROVE  Leq(b, Pow2(EntryParams(q).window_log))
<1> DEFINE w == EntryParams(q).window_log
           n == SizedFor(q)
<1>0. CallType(q) /\ Suitable(q, EntryParams(q))  BY CallFacts, EntrySuitable
<1>1. /\ q.level \in Int /\ w \in 10..32
      /\ w >= params_for_level(q.level, n).window_log
  BY <1>0 DEF CallType, Suitable
<1>2. n \in Window /\ Leq(n, Size(2^22, 0)) /\ Leq(b, n)
  <2>1. CASE q.n = None
    <3>1. n = UsizeMax  BY <2>1 DEF SizedFor
    <3>2. Pow2(17) \in Window  BY PowerSize
    <3> QED  BY <3>1, <3>2, UsizeMaxIs, LeqTransitive
  <2>2. CASE q.n # None
    <3>1. n = Plus(q.n, q.dict)  BY <2>2 DEF SizedFor
    <3>2. q.n \in ByteCount /\ q.dict \in ByteCount  BY <1>0, <2>2 DEF CallType
    <3>3. q.n \in Window /\ q.dict \in Window  BY <3>2 DEF ByteCount
    <3>4. n \in Window /\ Leq(q.n, n)  BY <3>1, <3>3, PlusGrows
    <3> HIDE DEF n
    <3> QED  BY <2>2, <3>1, <3>3, <3>4, LeqTransitive
  <2> QED  BY <2>1, <2>2
<1> HIDE DEF w, n
<1>3. Leq(b, Pow2(w))  BY <1>1, <1>2, LevelCovers
<1> QED  BY <1>3 DEF w

-----------------------------------------------------------------------------
(* The finder's tables.                                                    *)

(* The ranks the finders compare with.                                     *)
LEMMA RankIs ==
  /\ Rank("Greedy") = 3 /\ Rank("BtLazy2") = 6
  /\ \A s \in Names : Rank(s) \in 1..9
<1>1. /\ \A i \in 1..9 : Strategies[i] = "Greedy" <=> i = 3
      /\ \A i \in 1..9 : Strategies[i] = "BtLazy2" <=> i = 6
  BY SMT DEF Strategies
<1>2. Rank("Greedy") = 3  BY <1>1 DEF Rank
<1>3. Rank("BtLazy2") = 6  BY <1>1 DEF Rank
<1>4. ASSUME NEW s \in Names  PROVE Rank(s) \in 1..9
  <2>1. \E i \in 1..9 : Strategies[i] = s  BY SMT DEF Strategies, Names
  <2> QED  BY <2>1 DEF Rank
<1> QED  BY <1>2, <1>3, <1>4

(* Every table a finder allocates is in its range, a finder with a tree    *)
(* has a chain, and the tree holds the window as far as its limit.         *)
LEMMA Tables ==
  ASSUME NEW p, p.window_log \in Int, p.hash_log \in Int, p.chain_log \in Int,
         p.strategy \in Names
  PROVE  LET t == FinderTables(p)
         IN  /\ t.hash \in 6..22
             /\ t.chain \in 6..22 \/ t.chain = None
             /\ t.tree = TreeLog(p) \/ t.tree = None
             /\ t.tree # None => t.chain \in 6..22
             /\ TreeLog(p) \in 6..23 /\ (p.window_log <= 23 => p.window_log <= TreeLog(p))
             /\ (p.window_log > 23 => TreeLog(p) = 23)
<1> DEFINE t == FinderTables(p)
           rank == Rank(p.strategy)
<1>1. /\ TableLog(p.hash_log) \in 6..22 /\ TableLog(p.chain_log) \in 6..22
      /\ TreeLog(p) \in 6..23 /\ (p.window_log <= 23 => p.window_log <= TreeLog(p))
      /\ (p.window_log > 23 => TreeLog(p) = 23)
  BY DEF TableLog, TreeLog, Clamp, Most, Least
<1>2. rank \in 1..9 /\ (HasTree(p) => rank >= 6) /\ (rank >= 3 => HasChain(p))
  BY RankIs DEF HasTree, HasChain
<1>3. /\ t.hash = TableLog(p.hash_log)
      /\ t.chain = IF HasChain(p) THEN TableLog(p.chain_log) ELSE None
      /\ t.tree = IF HasTree(p) THEN TreeLog(p) ELSE None
  BY DEF FinderTables
<1> HIDE DEF t, rank
<1>4. t.tree # None => t.chain \in 6..22
  <2>1. HasTree(p) => HasChain(p)  BY <1>2
  <2> QED  BY <1>1, <1>3, <2>1
<1> QED  BY <1>1, <1>3, <1>4 DEF t

(* The finder of every call is covered, and its window covers what it      *)
(* must.                                                                   *)
LEMMA EntryFinder ==
  ASSUME req \in Calls, params = EntryParams(req)
  PROVE  FinderCovered
<1>0. Suitable(req, params)  BY EntrySuitable
<1>1. CallType(req)  BY CallFacts
<1> DEFINE t == FinderTables(params)
           narrow == [params EXCEPT !.window_log = params.reach]
<1>2. /\ params.window_log \in Int /\ params.hash_log \in Int /\ params.chain_log \in Int
      /\ params.strategy \in Names
  BY <1>0 DEF Suitable
<1>3. /\ t.hash \in 6..22
      /\ t.chain \in 6..22 \/ t.chain = None
      /\ t.tree = TreeLog(params) \/ t.tree = None
      /\ t.tree # None => t.chain \in 6..22
      /\ TreeLog(params) \in 6..23
      /\ (params.window_log <= 23 => params.window_log <= TreeLog(params))
      /\ (params.window_log > 23 => TreeLog(params) = 23)
  BY <1>2, Tables
<1>4. ReachCovered
  <2>1. /\ params.window_log \in 10..27 /\ (~Far(req) => params.window_log <= 23)
        /\ params.reach \in 10..23 /\ params.reach <= params.window_log
    BY <1>0 DEF Suitable
  <2>2. /\ params.window_log >= MIN_WINDOW_LOG
        /\ params.window_log <= IF LongDistance THEN LDM_MAX_WINDOW_LOG ELSE MAX_WINDOW_LOG
    BY <2>1 DEF MIN_WINDOW_LOG, MAX_WINDOW_LOG, LDM_MAX_WINDOW_LOG, Far, LongDistance
  <2>3. t.tree # None => params.reach <= t.tree  BY <1>3, <2>1
  <2>4. FinderTables(narrow).tree # None => params.reach <= FinderTables(narrow).tree
    <3>1. /\ narrow.window_log = params.reach /\ narrow.hash_log = params.hash_log
          /\ narrow.chain_log = params.chain_log /\ narrow.strategy = params.strategy
      BY <1>0 DEF Suitable
    <3> HIDE DEF narrow
    <3>2. /\ FinderTables(narrow).tree = TreeLog(narrow) \/ FinderTables(narrow).tree = None
          /\ params.reach <= TreeLog(narrow)
      BY <1>2, <2>1, <3>1, Tables
    <3> QED  BY <3>2
  <2> QED  BY <2>1, <2>2, <2>3, <2>4 DEF ReachCovered
<1>5. SlideAligned
  <2>1. slide_period(params) = IF t.tree # None THEN Most(t.chain, t.tree)
                               ELSE IF t.chain # None THEN t.chain ELSE 0
    BY DEF slide_period
  <2> HIDE DEF t
  <2>2. ASSUME NEW ring \in {t.chain, t.tree} \ {None}  PROVE slide_period(params) >= ring
    <3>1. CASE t.tree # None
      <4>1. t.chain \in 6..22 /\ t.tree \in 6..23  BY <1>3, <3>1
      <4> QED  BY <2>1, <3>1, <4>1 DEF Most
    <3>2. CASE t.tree = None
      <4>1. ring = t.chain /\ t.chain # None /\ t.chain \in 6..22  BY <1>3, <3>2
      <4> QED  BY <2>1, <3>2, <4>1
    <3> QED  BY <3>1, <3>2
  <2> QED  BY <2>2 DEF SlideAligned, t
<1>6. TablesInRange
  <2>1. split_depth_for(params.strategy) \in 0..4  BY DEF split_depth_for
  <2>2. overlap_rlog(params.strategy) \in 0..3  BY <1>2 DEF overlap_rlog, Names
  <2> QED  BY <1>3, <2>1, <2>2 DEF TablesInRange
<1> QED  BY <1>4, <1>5, <1>6 DEF FinderCovered

LEMMA EntryWindow ==
  ASSUME req \in Calls, params = EntryParams(req)
  PROVE  WindowCovers
<1>0. CallType(req)  BY CallFacts
<1>1. DictInWindow  BY EntryDict DEF DictInWindow, MAX_WINDOW_LOG
<1>2. BlocksFit
  <2> SUFFICES ASSUME req.window = None, ~SizeCut  PROVE LargestFits
    BY DEF BlocksFit
  <2> DEFINE b == LargestBlock
  <2>1. Pow2(17) \in Window /\ Leq(Pow2(17), Pow2(17))
    <3>1. 17 \in 0..32 /\ 17 <= 17  BY SMT
    <3> QED  BY <3>1, PowersNest, Zenon
  <2>2. b \in Window /\ Leq(b, Pow2(17)) /\ (req.n # None => Leq(b, req.n))
    <3>1. CASE req.n = None  BY <3>1, <2>1 DEF LargestBlock, BlockLog
    <3>2. CASE req.n # None
      <4>1. req.n \in Window  BY <1>0, <3>2 DEF CallType, ByteCount
      <4>2. Leq(req.n, req.n) /\ (Leq(req.n, Pow2(17)) \/ Leq(Pow2(17), req.n))
        BY <2>1, <4>1, LeqTotal
      <4> QED  BY <2>1, <3>2, <4>1, <4>2 DEF LargestBlock, BlockLog
    <3> QED  BY <3>1, <3>2
  <2> HIDE DEF b
  <2>3. req.n # None => Leq(Plus(req.n, req.dict), Size(2^22, 0))  BY DEF SizeCut
  <2>4. Leq(b, Pow2(params.window_log))  BY <2>2, <2>3, EntryBlocks
  <2> QED  BY <2>4 DEF LargestFits, b
<1> QED  BY <1>1, <1>2 DEF WindowCovers

-----------------------------------------------------------------------------
(* The header.                                                             *)

(* A number from its digits, and what a number of 22 bits has.             *)
LEMMA Digits ==
  ASSUME NEW x \in Nat
  PROVE  /\ x = (x % 64) + 64 * ((x \div 64) % 256) + 2^14 * ((x \div 2^14) % 256)
                + 2^22 * ((x \div 2^22) % 256) + (x \div 2^30) * 2^30
         /\ x < 2^22 => x \div 2^22 = 0 /\ x \div 2^30 = 0
<1>0. 2^14 = 16384 /\ 2^22 = 4194304 /\ 2^30 = 1073741824  BY SMT
<1> DEFINE a == x \div 64
           b == x \div 16384
           c == x \div 4194304
           d == x \div 1073741824
<1>1. b = a \div 256 /\ c = b \div 256 /\ d = c \div 256  BY SMT
<1>2. /\ a \in Nat /\ b \in Nat /\ c \in Nat /\ d \in Nat
      /\ x % 64 = x - 64 * a
      /\ x < 4194304 => c = 0 /\ d = 0
  BY SMT
<1> HIDE DEF a, b, c, d
<1>3. a % 256 = a - 256 * b /\ b % 256 = b - 256 * c /\ c % 256 = c - 256 * d
  BY <1>1, <1>2, SMT
<1>4. /\ x = (x % 64) + 64 * (a % 256) + 16384 * (b % 256) + 4194304 * (c % 256)
             + d * 1073741824
  BY <1>2, <1>3, SMT
<1>5. /\ x = (x % 64) + 64 * (a % 256) + 2^14 * (b % 256) + 2^22 * (c % 256) + d * 2^30
      /\ x < 2^22 => c = 0 /\ d = 0
  BY <1>0, <1>2, <1>4, SMT
<1>6. a = x \div 64 /\ b = x \div 2^14 /\ c = x \div 2^22 /\ d = x \div 2^30
  BY <1>0, SMT DEF a, b, c, d
<1> QED  BY <1>5, <1>6

(* The same for the upper bytes.                                           *)
LEMMA HighDigits ==
  ASSUME NEW x \in Nat
  PROVE  x = (x % 256) + 256 * ((x \div 256) % 256) + 2^16 * (x \div 2^16)
<1>0. 2^16 = 65536  BY SMT
<1> DEFINE a == x \div 256
           b == x \div 65536
<1>1. b = a \div 256 /\ x % 256 = x - 256 * a /\ a \in Nat /\ b \in Nat  BY SMT
<1> HIDE DEF a, b
<1>2. a % 256 = a - 256 * b  BY <1>1, SMT
<1>3. x = (x % 256) + 256 * (a % 256) + 65536 * b  BY <1>1, <1>2, SMT
<1> QED  BY <1>0, <1>3, SMT DEF a, b

(* A size survives the bytes it is written in: all eight, or four if it    *)
(* has no more than 32 bits.                                               *)
LEMMA SizeBack ==
  ASSUME NEW n \in ByteCount, NEW b \in Seq(Int),
         Len(b) = 8 \/ (Len(b) = 4 /\ n.k < 2^22),
         \A i \in 1..Len(b) : b[i] = Bytes8(n)[i]
  PROVE  SizeOf(b) = n
<1> DEFINE k == n.k
           r == n.r
           high == k \div 2^30
           c0 == k % 64
           c1 == (k \div 64) % 256
           c2 == (k \div 2^14) % 256
           c3 == (k \div 2^22) % 256
           low == (r \div 256) + 4 * c0
           at(i) == IF i <= Len(b) THEN b[i] ELSE 0
<1>0. k \in Nat /\ r \in 0..1023 /\ n = Size(k, r)
  <2>1. n \in Window  BY DEF ByteCount
  <2> QED  BY <2>1, Fields
<1>1. Bytes8(n) = <<r % 256, low, c1, c2, c3, high % 256, (high \div 256) % 256, high \div 2^16>>
  BY DEF Bytes8
<1>2. SizeOf(b) = Size((at(2) \div 4) + 64 * at(3) + 2^14 * at(4) + 2^22 * at(5)
                         + (at(6) + 256 * at(7) + 2^16 * at(8)) * 2^30,
                       at(1) + 256 * (at(2) % 4))
  BY DEF SizeOf
<1>3. k = c0 + 64 * c1 + 2^14 * c2 + 2^22 * c3 + high * 2^30 /\ c0 \in 0..63
  <2>0. k \in Nat  BY <1>0
  <2> HIDE DEF k
  <2>1. k = c0 + 64 * c1 + 2^14 * c2 + 2^22 * c3 + high * 2^30  BY ONLY <2>0, Digits
  <2>2. c0 \in 0..63  BY <1>0
  <2> QED  BY <2>1, <2>2
<1>4. k < 2^22 => c3 = 0 /\ high = 0
  <2>1. k < 2^22 => k \div 2^22 = 0 /\ k \div 2^30 = 0  BY <1>0, Digits
  <2>2. 0 % 256 = 0  OBVIOUS
  <2> QED  BY <2>1, <2>2
<1>5. high = (high % 256) + 256 * ((high \div 256) % 256) + 2^16 * (high \div 2^16)
  <2>1. high \in Nat
    <3>1. 2^30 = 1073741824  BY SMT
    <3> QED  BY <1>0, <3>1, SMT
  <2> HIDE DEF high
  <2> QED  BY <2>1, HighDigits
<1> DEFINE h0 == high % 256
           h1 == (high \div 256) % 256
           h2 == high \div 2^16
<1> HIDE DEF k, r, c0, c1, c2, c3
<1>6. low \div 4 = c0 /\ low % 4 = r \div 256 /\ (r % 256) + 256 * (r \div 256) = r
  <2> DEFINE q == r \div 256
  <2>1. r \in 0..1023 /\ c0 \in 0..63  BY <1>0, <1>3
  <2>2. q \in 0..3 /\ (r % 256) + 256 * q = r  BY ONLY <2>1, SMT
  <2> HIDE DEF q
  <2>3. (q + 4 * c0) \div 4 = c0 /\ (q + 4 * c0) % 4 = q  BY ONLY <2>1, <2>2, SMT
  <2> QED  BY <2>2, <2>3 DEF q
<1> HIDE DEF low, h0, h1, h2
<1>7. Bytes8(n) = <<r % 256, low, c1, c2, c3, h0, h1, h2>> /\ high = h0 + 256 * h1 + 2^16 * h2
  BY <1>1, <1>5 DEF h0, h1, h2
<1> HIDE DEF high, at
<1>8. at(1) = r % 256 /\ at(2) = low /\ at(3) = c1 /\ at(4) = c2
  <2> DEFINE m == Len(b)
  <2>1. m = 4 \/ m = 8  OBVIOUS
  <2> HIDE DEF m
  <2>2. /\ 1 \in 1..m /\ 2 \in 1..m /\ 3 \in 1..m /\ 4 \in 1..m
        /\ 1 <= m /\ 2 <= m /\ 3 <= m /\ 4 <= m
    <3>1. CASE m = 4  BY ONLY <3>1
    <3>2. CASE m = 8  BY ONLY <3>2
    <3> QED  BY <2>1, <3>1, <3>2, Zenon
  <2>3. /\ b[1] = Bytes8(n)[1] /\ b[2] = Bytes8(n)[2] /\ b[3] = Bytes8(n)[3]
        /\ b[4] = Bytes8(n)[4]
    BY <2>2, Zenon DEF m
  <2>4. b[1] = r % 256 /\ b[2] = low /\ b[3] = c1 /\ b[4] = c2  BY <1>7, <2>3
  <2> QED  BY <2>2, <2>4 DEF at, m
<1>9. CASE Len(b) = 8
  <2>1. at(5) = c3 /\ at(6) = h0 /\ at(7) = h1 /\ at(8) = h2  BY <1>7, <1>9 DEF at
  <2>2. SizeOf(b) = Size(c0 + 64 * c1 + 2^14 * c2 + 2^22 * c3 + high * 2^30, r)
    BY <1>2, <1>6, <1>7, <1>8, <2>1
  <2> QED  BY <1>0, <1>3, <2>2
<1>10. CASE Len(b) = 4 /\ k < 2^22
  <2>1. at(5) = 0 /\ at(6) = 0 /\ at(7) = 0 /\ at(8) = 0  BY <1>10 DEF at
  <2>2. 0 + 256 * 0 + 2^16 * 0 = 0  BY SMT
  <2>3. SizeOf(b) = Size(c0 + 64 * c1 + 2^14 * c2 + 2^22 * c3 + high * 2^30, r)
    BY <1>2, <1>4, <1>6, <1>8, <1>10, <2>1, <2>2
  <2> QED  BY <1>0, <1>3, <2>3
<1> QED  BY <1>9, <1>10 DEF k

(* A dictionary id survives the field that is left out, or cut to the      *)
(* bytes it needs.                                                         *)
LEMMA IdBack ==
  ASSUME NEW id \in DictId
  PROVE  /\ DictIdSize(id) \in {0, 1, 2, 4}
         /\ [i \in 1..4 |-> IF i <= DictIdSize(id) THEN id[i] ELSE 0] = id
<1>1. /\ id[1] \in 0..255 /\ id[2] \in 0..255 /\ id[3] \in 0..255 /\ id[4] \in 0..255
      /\ id = [i \in 1..4 |-> id[i]]
  BY DEF DictId
<1>2. DictIdSize(id) \in {0, 1, 2, 4}  BY DEF DictIdSize
<1>3. \A i \in 1..4 : i > DictIdSize(id) => id[i] = 0
  <2>1. CASE id = <<0, 0, 0, 0>>  BY <2>1
  <2>2. CASE id # <<0, 0, 0, 0>>
    <3> DEFINE b2 == id[2]
               b3 == id[3]
               b4 == id[4]
    <3>1. DictIdSize(id) = IF b2 + b3 + b4 = 0 THEN 1 ELSE IF b3 + b4 = 0 THEN 2 ELSE 4
      BY <2>2 DEF DictIdSize
    <3>2. b2 \in 0..255 /\ b3 \in 0..255 /\ b4 \in 0..255  BY <1>1
    <3> HIDE DEF b2, b3, b4
    <3>3. /\ DictIdSize(id) = 1 => b2 = 0 /\ b3 = 0 /\ b4 = 0
          /\ DictIdSize(id) = 2 => b3 = 0 /\ b4 = 0
          /\ DictIdSize(id) # 0
      BY <3>1, <3>2
    <3> QED  BY <1>2, <3>3 DEF b2, b3, b4
  <2> QED  BY <2>1, <2>2
<1> QED  BY <1>1, <1>2, <1>3

(* What the descriptor of a header says of the fields that follow, for the *)
(* descriptors the writers make: no size, four or eight bytes of it.       *)
Descriptor(flag, checksum, id_size) ==
  flag * 64 + (IF checksum THEN 4 ELSE 0) + Least(id_size, 3)
FcsSize(flag) == IF flag = 0 THEN 0 ELSE IF flag = 2 THEN 4 ELSE 8
DescriptorSays(fhd, flag, checksum, id_size) ==
  /\ (fhd \div 32) % 2 # 1 /\ (fhd \div 8) % 2 # 1
  /\ checksum <=> (fhd \div 4) % 2 = 1
  /\ <<0, 1, 2, 4>>[(fhd % 4) + 1] = id_size
  /\ <<0, 2, 4, 8>>[(fhd \div 64) + 1] = FcsSize(flag)
LEMMA DescriptorBack ==
  ASSUME NEW flag \in {0, 2, 3}, NEW checksum \in BOOLEAN, NEW id_size \in {0, 1, 2, 4},
         NEW fhd, fhd = Descriptor(flag, checksum, id_size)
  PROVE  DescriptorSays(fhd, flag, checksum, id_size)
<1> DEFINE low == Least(id_size, 3)
           bit == IF checksum THEN 4 ELSE 0
<1>1. low \in 0..3 /\ bit \in {0, 4} /\ (bit = 4 <=> checksum) /\ <<0, 1, 2, 4>>[low + 1] = id_size
  BY DEF Least
<1>2. fhd = flag * 64 + bit + low  BY DEF Descriptor
<1> HIDE DEF low, bit
<1>3. /\ (fhd \div 32) % 2 = 0 /\ (fhd \div 8) % 2 = 0 /\ ((fhd \div 4) % 2 = 1 <=> bit = 4)
      /\ fhd % 4 = low /\ fhd \div 64 = flag
  BY <1>1, <1>2
<1>4. <<0, 2, 4, 8>>[flag + 1] = FcsSize(flag)  BY DEF FcsSize
<1> QED  BY <1>1, <1>3, <1>4 DEF DescriptorSays

(* The window descriptor gives the window back: the mantissa is nothing.   *)
LEMMA WindowBack ==
  ASSUME NEW w \in 10..27
  PROVE  LET wd == (w - 10) * 8
             base == Pow2(10 + (wd \div 8))
         IN  Plus(base, Size((base.k * (wd % 8)) \div 8, 128 * ((base.k * (wd % 8)) % 8)))
               = Pow2(w)
<1> DEFINE wd == (w - 10) * 8
           base == Pow2(w)
<1>1. wd % 8 = 0 /\ 10 + (wd \div 8) = w  OBVIOUS
<1>2. base \in Window  BY PowerSize
<1>3. base.k * 0 = 0  BY <1>2, Fields
<1> HIDE DEF wd, base
<1>4. Size((base.k * 0) \div 8, 128 * ((base.k * 0) % 8)) = Size(0, 0)
  <2>1. 0 \div 8 = 0 /\ 128 * (0 % 8) = 0  OBVIOUS
  <2> QED  BY <1>3, <2>1
<1>5. Plus(base, Size(0, 0)) = base  BY <1>2, PlusNothing DEF NoDict
<1> QED  BY <1>1, <1>4, <1>5 DEF wd, base

(* The parse of a stream that starts with such a descriptor: refused while *)
(* a field is not there, otherwise read off the fields.                    *)
ReadOff(src, w, flag, checksum, id_size) ==
  [header_len |-> 2 + id_size + FcsSize(flag), checksum |-> checksum,
   content_size |-> IF flag = 0 THEN None
                    ELSE SizeOf(SubSeq(src, 3 + id_size, 2 + id_size + FcsSize(flag))),
   window |-> Pow2(w),
   id |-> [i \in 1..4 |-> IF i <= id_size THEN src[2 + i] ELSE 0]]
LEMMA ParseLayout ==
  ASSUME NEW flag \in {0, 2, 3}, NEW checksum \in BOOLEAN, NEW id_size \in {0, 1, 2, 4},
         NEW w \in 10..27, NEW src \in Seq(Int), src # <<>>,
         src[1] = Descriptor(flag, checksum, id_size)
  PROVE  /\ Len(src) < 2 + id_size + FcsSize(flag) => parse_frame_header(src) = None
         /\ Len(src) >= 2 + id_size + FcsSize(flag) /\ src[2] = (w - 10) * 8 =>
              parse_frame_header(src) = ReadOff(src, w, flag, checksum, id_size)
<1> DEFINE fhd == src[1]
           wd == src[2]
           fcs == FcsSize(flag)
           single == (fhd \div 32) % 2 = 1
           ids == <<0, 1, 2, 4>>[(fhd % 4) + 1]
           id_at == IF single THEN 1 ELSE 2
           fcs_at == id_at + ids
           fcs_size == <<IF single THEN 1 ELSE 0, 2, 4, 8>>[(fhd \div 64) + 1]
           field == SizeOf(SubSeq(src, fcs_at + 1, fcs_at + fcs_size))
           content == IF fcs_size = 0 THEN None
                      ELSE IF fcs_size = 2 THEN Plus(field, Size(0, 256)) ELSE field
           base == Pow2(10 + (wd \div 8))
           window == Plus(base, Size((base.k * (wd % 8)) \div 8,
                                     128 * ((base.k * (wd % 8)) % 8)))
           refused == src = <<>> \/ (fhd \div 8) % 2 = 1 \/ Len(src) < fcs_at + fcs_size
           fields == [header_len |-> fcs_at + fcs_size, checksum |-> (fhd \div 4) % 2 = 1,
                      content_size |-> content, window |-> IF single THEN content ELSE window,
                      id |-> [i \in 1..4 |-> IF i <= ids THEN src[id_at + i] ELSE 0]]
<1>1. parse_frame_header(src) = IF refused THEN None ELSE fields
  BY DEF parse_frame_header
<1>0. fhd = Descriptor(flag, checksum, id_size)  OBVIOUS
<1> HIDE DEF fhd
<1> DEFINE reserved == (fhd \div 8) % 2 = 1
           flagged == (fhd \div 4) % 2 = 1
<1>d. DescriptorSays(fhd, flag, checksum, id_size)  BY <1>0, DescriptorBack, Zenon
<1>2. ~single /\ ~reserved /\ (checksum <=> flagged) /\ ids = id_size
  BY <1>d, Zenon DEF DescriptorSays
<1>3. <<0, 2, 4, 8>>[(fhd \div 64) + 1] = fcs
  BY <1>d, Zenon DEF DescriptorSays
<1>r. refused <=> reserved \/ Len(src) < fcs_at + fcs_size  OBVIOUS
<1>f. fields = [header_len |-> fcs_at + fcs_size, checksum |-> flagged, content_size |-> content,
                window |-> IF single THEN content ELSE window,
                id |-> [i \in 1..4 |-> IF i <= ids THEN src[id_at + i] ELSE 0]]
  OBVIOUS
<1> HIDE DEF single, refused, fields
<1>4. id_at = 2 /\ fcs_size = fcs  BY <1>2, <1>3
<1>5. fcs \in {0, 4, 8} /\ (fcs = 0 <=> flag = 0)  BY DEF FcsSize
<1> HIDE DEF ids, id_at, fcs_size, reserved, flagged
<1>6. /\ fcs_at = 2 + id_size /\ fcs_at + 1 = 3 + id_size
      /\ fcs_at + fcs_size = 2 + id_size + fcs
  BY <1>2, <1>4, <1>5
<1>7. refused <=> Len(src) < 2 + id_size + fcs
  BY <1>2, <1>6, <1>r
<1>8. content = IF flag = 0 THEN None ELSE SizeOf(SubSeq(src, 3 + id_size, 2 + id_size + fcs))
  BY <1>4, <1>5, <1>6
<1>9. wd = (w - 10) * 8 => window = Pow2(w)  BY WindowBack
<1> HIDE DEF fcs_at, content, window
<1>10. wd = (w - 10) * 8 => fields = ReadOff(src, w, flag, checksum, id_size)
  <2> HAVE wd = (w - 10) * 8
  <2>1. flagged = checksum
    <3>1. flagged \in BOOLEAN  BY DEF flagged
    <3> QED  BY <1>2, <3>1
  <2>2. [i \in 1..4 |-> IF i <= ids THEN src[id_at + i] ELSE 0]
          = [i \in 1..4 |-> IF i <= id_size THEN src[2 + i] ELSE 0]
    BY <1>2, <1>4
  <2>3. fcs_at + fcs_size = 2 + id_size + fcs /\ window = Pow2(w)  BY <1>6, <1>9
  <2> HIDE DEF fcs
  <2> QED  BY <1>2, <1>8, <1>f, <2>1, <2>2, <2>3, Zenon DEF ReadOff, fcs
<1> HIDE DEF fcs, wd
<1>11. Len(src) \in Nat /\ id_size \in Nat /\ fcs \in Nat  BY <1>5
<1>12. ~(Len(src) < 2 + id_size + fcs) <=> Len(src) >= 2 + id_size + fcs  BY <1>11
<1> QED  BY <1>1, <1>7, <1>10, <1>12, Zenon DEF fcs, wd

(* What the writers put on the wire.                                       *)
LEMMA FirstOf ==
  ASSUME NEW s \in Seq(Int), NEW n \in 0..Len(s)
  PROVE  /\ SubSeq(s, 1, n) \in Seq(Int) /\ Len(SubSeq(s, 1, n)) = n
         /\ \A i \in 1..n : SubSeq(s, 1, n)[i] = s[i]
<1>1. n \in Nat /\ \A i \in 1..n : s[i] \in Int  BY ElementOfSeq
<1> QED  BY <1>1, SubSeqProperties

(* The elements of joined bytes.                                           *)
LEMMA JoinedBytes ==
  ASSUME NEW a \in Seq(Int), NEW b \in Seq(Int), NEW d, d = a \o b
  PROVE  /\ d \in Seq(Int) /\ Len(d) = Len(a) + Len(b)
         /\ \A i \in 1..Len(a) : d[i] = a[i]
         /\ \A i \in 1..Len(b) : d[Len(a) + i] = b[i]
BY ConcatAt, SMT

SizeFlag(n) == IF n.k < 2^22 THEN 2 ELSE 3
HasFields(h, n, checksum, w, id) ==
  LET ids == DictIdSize(id)
      fcs == FcsSize(SizeFlag(n))
  IN  /\ h \in Seq(Int) /\ Len(h) = 2 + ids + fcs
      /\ h[1] = Descriptor(SizeFlag(n), checksum, ids) /\ h[2] = (w - 10) * 8
      /\ \A i \in 1..ids : h[2 + i] = id[i]
      /\ \A i \in 1..fcs : h[2 + ids + i] = Bytes8(n)[i]
LEMMA WrittenFields ==
  ASSUME NEW n \in ByteCount, NEW checksum \in BOOLEAN, NEW w \in 10..27, NEW id \in DictId
  PROVE  HasFields(write_frame_header(n, checksum, w, id), n, checksum, w, id)
<1> DEFINE ids == DictIdSize(id)
           flag == SizeFlag(n)
           fcs == FcsSize(flag)
           fhd == Descriptor(flag, checksum, ids)
           wd == (w - 10) * 8
           front == <<fhd, wd>>
           bytes == Bytes8(n)
           a == SubSeq(id, 1, ids)
           b == SubSeq(bytes, 1, fcs)
           h == write_frame_header(n, checksum, w, id)
<1>1. flag \in {2, 3} /\ fcs \in {4, 8} /\ fcs = (IF flag = 2 THEN 4 ELSE 8)
  BY DEF SizeFlag, FcsSize
<1>2. h = (front \o a) \o b
  BY <1>1 DEF write_frame_header, Descriptor, SizeFlag
<1>3. ids \in {0, 1, 2, 4}  BY IdBack
<1>4. id \in Seq(Int) /\ Len(id) = 4
  <2> DEFINE z == 4
  <2>1. id \in [1..z -> Int] /\ z \in Nat  BY DEF DictId
  <2> HIDE DEF z
  <2>2. id \in Seq(Int)  BY <2>1
  <2>3. Len(id) = z  BY <2>1, <2>2, LenProperties
  <2> QED  BY <2>2, <2>3 DEF z
<1>5. bytes \in Seq(Int) /\ Len(bytes) = 8
  <2>1. n.k \in Nat /\ n.r \in 0..1023
    <3>1. n \in Window  BY DEF ByteCount
    <3> QED  BY <3>1, Fields
  <2> DEFINE k == n.k
             r == n.r
  <2>2. /\ r % 256 \in Int /\ (r \div 256) + 4 * (k % 64) \in Int /\ (k \div 64) % 256 \in Int
        /\ (k \div 2^14) % 256 \in Int /\ (k \div 2^22) % 256 \in Int
        /\ (k \div 2^30) % 256 \in Int /\ ((k \div 2^30) \div 256) % 256 \in Int
        /\ (k \div 2^30) \div 2^16 \in Int
    <3>0. k \in Nat /\ r \in 0..1023  BY <2>1
    <3> HIDE DEF k, r
    <3>1. 2^14 = 16384 /\ 2^22 = 4194304 /\ 2^30 = 1073741824 /\ 2^16 = 65536  BY SMT
    <3>2. k \div 2^14 \in Int /\ k \div 2^22 \in Int /\ k \div 2^30 \in Nat
      BY ONLY <3>0, <3>1, SMTT(30)
    <3>3. /\ (k \div 2^14) % 256 \in Int /\ (k \div 2^22) % 256 \in Int
          /\ (k \div 2^30) % 256 \in Int
      <4> DEFINE f == k \div 2^14
                 g == k \div 2^22
                 e == k \div 2^30
      <4>1. f \in Int /\ g \in Int /\ e \in Int  BY <3>2
      <4> HIDE DEF f, g, e
      <4>2. f % 256 \in Int /\ g % 256 \in Int /\ e % 256 \in Int  BY ONLY <4>1, SMT
      <4> QED  BY ONLY <4>2, SMT DEF f, g, e
    <3>4. ((k \div 2^30) \div 256) % 256 \in Int /\ (k \div 2^30) \div 2^16 \in Int
      <4> DEFINE e == k \div 2^30
      <4>1. e \in Nat  BY <3>2
      <4> HIDE DEF e
      <4>2. (e \div 256) % 256 \in Int /\ e \div 2^16 \in Int  BY ONLY <4>1, <3>1, SMT
      <4> QED  BY ONLY <4>2, SMT DEF e
    <3>5. /\ r % 256 \in Int /\ (r \div 256) + 4 * (k % 64) \in Int
          /\ (k \div 64) % 256 \in Int
      BY ONLY <3>0, SMT
    <3> QED  BY <3>3, <3>4, <3>5
  <2> QED  BY <2>2, SMT DEF Bytes8
<1>6. front \in Seq(Int) /\ Len(front) = 2 /\ front[1] = fhd /\ front[2] = wd
  <2>1. fhd \in Int
    <3> HIDE DEF ids, flag
    <3> QED  BY <1>1, <1>3 DEF Descriptor, Least
  <2> HIDE DEF fhd
  <2> QED  BY <2>1
<1> HIDE DEF ids, flag, fcs, fhd, wd, front, bytes, h
<1>7. /\ a \in Seq(Int) /\ Len(a) = ids /\ \A i \in 1..ids : a[i] = id[i]
  <2>1. ids \in 0..Len(id)  BY <1>3, <1>4
  <2> QED  BY <1>4, <2>1, FirstOf
<1>8. /\ b \in Seq(Int) /\ Len(b) = fcs /\ \A i \in 1..fcs : b[i] = bytes[i]
  <2>1. fcs \in 0..Len(bytes)  BY <1>1, <1>5
  <2> QED  BY <1>5, <2>1, FirstOf
<1> HIDE DEF a, b
<1> DEFINE c == front \o a
<1>9. /\ c \in Seq(Int) /\ Len(c) = 2 + ids /\ \A i \in 1..2 : c[i] = front[i]
      /\ \A i \in 1..ids : c[2 + i] = a[i]
  <2>0. c = front \o a /\ front \in Seq(Int) /\ a \in Seq(Int)  BY <1>6, <1>7
  <2> HIDE DEF c
  <2>1. /\ c \in Seq(Int) /\ Len(c) = Len(front) + Len(a)
        /\ \A i \in 1..Len(front) : c[i] = front[i]
        /\ \A i \in 1..Len(a) : c[Len(front) + i] = a[i]
    BY ONLY <2>0, JoinedBytes
  <2> QED  BY <1>6, <1>7, <2>1
<1> HIDE DEF c
<1>10. /\ c \o b \in Seq(Int) /\ Len(c \o b) = 2 + ids + fcs
       /\ \A i \in 1..(2 + ids) : (c \o b)[i] = c[i]
       /\ \A i \in 1..fcs : (c \o b)[2 + ids + i] = b[i]
  <2> DEFINE d == c \o b
  <2>0. d = c \o b /\ c \in Seq(Int) /\ b \in Seq(Int)  BY <1>8, <1>9
  <2> HIDE DEF d
  <2>1. /\ d \in Seq(Int) /\ Len(d) = Len(c) + Len(b)
        /\ \A i \in 1..Len(c) : d[i] = c[i]
        /\ \A i \in 1..Len(b) : d[Len(c) + i] = b[i]
    BY ONLY <2>0, JoinedBytes
  <2>2. /\ d \in Seq(Int) /\ Len(d) = 2 + ids + fcs
        /\ \A i \in 1..(2 + ids) : d[i] = c[i]
        /\ \A i \in 1..fcs : d[2 + ids + i] = b[i]
    BY <1>8, <1>9, <2>1
  <2> QED  BY <2>2 DEF d
<1>11. h = c \o b  BY <1>2 DEF c
<1>12. 1 \in 1..(2 + ids) /\ 2 \in 1..(2 + ids) /\ \A i \in 1..ids : 2 + i \in 1..(2 + ids)
  BY <1>3
<1>13. h[1] = fhd /\ h[2] = wd /\ \A i \in 1..ids : h[2 + i] = id[i]
  <2>1. front[1] = fhd /\ front[2] = wd /\ c[1] = front[1] /\ c[2] = front[2]
    BY <1>6, <1>9
  <2>2. h[1] = c[1] /\ h[2] = c[2]  BY <1>10, <1>11, <1>12, Zenon
  <2>3. \A i \in 1..ids : h[2 + i] = c[2 + i] /\ c[2 + i] = a[i] /\ a[i] = id[i]
    BY <1>7, <1>9, <1>10, <1>11, <1>12
  <2> QED  BY <2>1, <2>2, <2>3
<1>14. h \in Seq(Int) /\ Len(h) = 2 + ids + fcs /\ \A i \in 1..fcs : h[2 + ids + i] = bytes[i]
  BY <1>8, <1>10, <1>11
<1> QED  BY <1>13, <1>14 DEF HasFields, ids, flag, fcs, fhd, wd, bytes, h

(* A stream that agrees with the header as far as it goes is refused while *)
(* it is shorter and gives the header back from there on.                  *)
Agree(src, h) ==
  src \in Seq(Int) /\ src # <<>> /\ \A i \in 1..Len(h) : i <= Len(src) => src[i] = h[i]
GivesBack(src, h, checksum, n, w, id) ==
  /\ Len(src) < Len(h) => parse_frame_header(src) = None
  /\ Len(src) >= Len(h) =>
       parse_frame_header(src) =
         [header_len |-> Len(h), checksum |-> checksum, content_size |-> n,
          window |-> Pow2(w), id |-> id]
LEMMA WrittenBack ==
  ASSUME NEW n \in ByteCount, NEW checksum \in BOOLEAN, NEW w \in 10..27, NEW id \in DictId,
         NEW src, NEW h, h = write_frame_header(n, checksum, w, id), Agree(src, h)
  PROVE  GivesBack(src, h, checksum, n, w, id)
<1> DEFINE ids == DictIdSize(id)
           flag == SizeFlag(n)
           fcs == FcsSize(flag)
           size == SubSeq(src, 3 + ids, 2 + ids + fcs)
           back == [i \in 1..4 |-> IF i <= ids THEN src[2 + i] ELSE 0]
<1>1. /\ h \in Seq(Int) /\ Len(h) = 2 + ids + fcs
      /\ h[1] = Descriptor(flag, checksum, ids) /\ h[2] = (w - 10) * 8
      /\ \A i \in 1..ids : h[2 + i] = id[i]
      /\ \A i \in 1..fcs : h[2 + ids + i] = Bytes8(n)[i]
  <2>1. HasFields(h, n, checksum, w, id)  BY WrittenFields, Zenon
  <2> HIDE DEF ids, flag
  <2> QED  BY <2>1 DEF HasFields, ids, flag
<1>2. /\ ids \in {0, 1, 2, 4}
      /\ [i \in 1..4 |-> IF i <= ids THEN id[i] ELSE 0] = id
  BY IdBack
<1>3. flag \in {2, 3} /\ fcs = (IF flag = 2 THEN 4 ELSE 8) /\ (flag = 2 => n.k < 2^22)
  BY DEF SizeFlag, FcsSize
<1>4. src \in Seq(Int) /\ src # <<>> /\ \A i \in 1..Len(h) : i <= Len(src) => src[i] = h[i]
  BY DEF Agree
<1> HIDE DEF ids, flag, size, back
<1>5. src[1] = Descriptor(flag, checksum, ids) /\ Len(src) \in Nat /\ Len(src) >= 1
  <2>1. Len(src) \in Nat /\ Len(src) >= 1  BY <1>4, EmptySeq
  <2>2. 1 \in 1..Len(h)  BY <1>1, <1>2, <1>3
  <2> QED  BY <1>1, <1>4, <2>1, <2>2
<1>6. /\ Len(src) < 2 + ids + fcs => parse_frame_header(src) = None
      /\ Len(src) >= 2 + ids + fcs /\ src[2] = (w - 10) * 8 =>
           parse_frame_header(src) = ReadOff(src, w, flag, checksum, ids)
  <2>1. flag \in {0, 2, 3} /\ ids \in {0, 1, 2, 4} /\ src[1] = Descriptor(flag, checksum, ids)
    BY <1>2, <1>3, <1>5
  <2> QED  BY <1>4, <2>1, ParseLayout
<1> HIDE DEF fcs
<1>7. ASSUME Len(src) >= 2 + ids + fcs
      PROVE  /\ src[2] = (w - 10) * 8 /\ back = id /\ size \in Seq(Int) /\ Len(size) = fcs
             /\ \A i \in 1..fcs : size[i] = Bytes8(n)[i]
  <2>0. fcs \in {4, 8}  BY <1>3
  <2>1. \A i \in 1..(2 + ids + fcs) : src[i] = h[i]
    <3> SUFFICES ASSUME NEW i \in 1..(2 + ids + fcs)  PROVE src[i] = h[i]
      OBVIOUS
    <3>1. i \in 1..Len(h) /\ i <= Len(src)  BY <1>1, <1>2, <2>0, <1>5, <1>7
    <3> QED  BY <1>4, <3>1
  <2>2. /\ 2 \in 1..(2 + ids + fcs)
        /\ \A i \in 1..ids : 2 + i \in 1..(2 + ids + fcs)
        /\ \A i \in 1..fcs : 2 + ids + i \in 1..(2 + ids + fcs)
    BY <1>2, <2>0
  <2>3. src[2] = (w - 10) * 8  BY <1>1, <2>1, <2>2
  <2>4. back = id
    <3>1. \A i \in 1..4 : (IF i <= ids THEN src[2 + i] ELSE 0) = (IF i <= ids THEN id[i] ELSE 0)
      <4> SUFFICES ASSUME NEW i \in 1..4, i <= ids  PROVE src[2 + i] = id[i]
        OBVIOUS
      <4>1. i \in 1..ids  BY <1>2
      <4>2. src[2 + i] = h[2 + i] /\ h[2 + i] = id[i]  BY <4>1, <1>1, <2>1, <2>2
      <4> QED  BY <4>2
    <3> QED  BY <3>1, <1>2 DEF back
  <2>5. /\ size \in Seq(Int) /\ Len(size) = fcs
        /\ \A i \in 1..fcs : size[i] = src[2 + ids + i]
    <3> DEFINE lo == 2 + ids
               hi == lo + fcs
    <3>1. /\ lo \in Nat /\ hi \in Nat /\ lo <= hi /\ hi <= Len(src) /\ hi - lo = fcs
          /\ 3 + ids = lo + 1
      BY <1>2, <2>0, <1>7, <1>5
    <3>2. size = SubSeq(src, lo + 1, hi)  BY <3>1 DEF size
    <3> HIDE DEF lo, hi
    <3>3. /\ SubSeq(src, lo + 1, hi) \in Seq(Int) /\ Len(SubSeq(src, lo + 1, hi)) = hi - lo
          /\ \A i \in 1..(hi - lo) : SubSeq(src, lo + 1, hi)[i] = src[lo + i]
      <4>1. src \in Seq(Int)  BY <1>4
      <4>2. lo \in Nat /\ hi \in Nat /\ lo <= hi /\ hi <= Len(src)  BY <3>1
      <4> QED  BY ONLY <4>1, <4>2, Slice
    <3> QED  BY <3>1, <3>2, <3>3 DEF lo
  <2>6. \A i \in 1..fcs : size[i] = Bytes8(n)[i]
    <3> SUFFICES ASSUME NEW i \in 1..fcs  PROVE size[i] = Bytes8(n)[i]
      OBVIOUS
    <3>1. 2 + ids + i \in 1..(2 + ids + fcs)  BY <2>2
    <3>2. src[2 + ids + i] = h[2 + ids + i]  BY <2>1, <3>1
    <3> QED  BY <1>1, <2>5, <3>2
  <2> QED  BY <2>3, <2>4, <2>5, <2>6
<1>8. ASSUME Len(src) >= 2 + ids + fcs
      PROVE  ReadOff(src, w, flag, checksum, ids)
               = [header_len |-> Len(h), checksum |-> checksum, content_size |-> n,
                  window |-> Pow2(w), id |-> id]
  <2>1. SizeOf(size) = n
    <3>1. Len(size) = 8 \/ (Len(size) = 4 /\ n.k < 2^22)  BY <1>3, <1>7, <1>8
    <3> QED  BY <1>7, <1>8, <3>1, SizeBack
  <2>2. ReadOff(src, w, flag, checksum, ids)
          = [header_len |-> 2 + ids + fcs, checksum |-> checksum,
             content_size |-> IF flag = 0 THEN None ELSE SizeOf(size), window |-> Pow2(w),
             id |-> back]
    BY Zenon DEF ReadOff, fcs, size, back
  <2>3. flag # 0 /\ back = id  BY <1>3, <1>7, <1>8
  <2> QED  BY <1>1, <2>1, <2>2, <2>3
<1> QED  BY <1>1, <1>6, <1>7, <1>8 DEF GivesBack

(* The same for the header of a stream, which has no size and no id.       *)
LEMMA StreamedBack ==
  ASSUME NEW checksum \in BOOLEAN, NEW w \in 10..27,
         NEW src, NEW h, h = write_frame_header_streaming(checksum, w), Agree(src, h)
  PROVE  GivesBack(src, h, checksum, None, w, NoId)
<1>1. Len(h) = 2 /\ h[1] = Descriptor(0, checksum, 0) /\ h[2] = (w - 10) * 8
  BY DEF write_frame_header_streaming, Descriptor, Least
<1>2. /\ src \in Seq(Int) /\ src # <<>> /\ src[1] = h[1] /\ (Len(src) >= 2 => src[2] = h[2])
      /\ Len(src) \in Nat
  <2>1. src \in Seq(Int) /\ src # <<>> /\ \A i \in 1..2 : i <= Len(src) => src[i] = h[i]
    BY <1>1 DEF Agree
  <2>2. Len(src) \in Nat /\ Len(src) >= 1  BY <2>1, EmptySeq
  <2> QED  BY <2>1, <2>2
<1>3. FcsSize(0) = 0 /\ 2 + 0 + 0 = 2  BY DEF FcsSize
<1>4. /\ Len(src) < 2 => parse_frame_header(src) = None
      /\ Len(src) >= 2 /\ src[2] = (w - 10) * 8 =>
           parse_frame_header(src) = ReadOff(src, w, 0, checksum, 0)
  <2>1. src[1] = Descriptor(0, checksum, 0)  BY <1>1, <1>2
  <2>2. /\ Len(src) < 2 + 0 + FcsSize(0) => parse_frame_header(src) = None
        /\ Len(src) >= 2 + 0 + FcsSize(0) /\ src[2] = (w - 10) * 8 =>
             parse_frame_header(src) = ReadOff(src, w, 0, checksum, 0)
    BY <1>2, <2>1, ParseLayout
  <2> QED  BY <1>3, <2>2
<1>5. [i \in 1..4 |-> IF i <= 0 THEN src[2 + i] ELSE 0] = NoId
  BY DEF NoId
<1>6. ReadOff(src, w, 0, checksum, 0)
        = [header_len |-> 2, checksum |-> checksum, content_size |-> None,
           window |-> Pow2(w), id |-> NoId]
  BY <1>3, <1>5 DEF ReadOff
<1> QED  BY <1>1, <1>2, <1>4, <1>6 DEF GivesBack

-----------------------------------------------------------------------------
(* The invariant of FrameParams: the parameters are those of the call, and *)
(* what is on the wire agrees with the whole header as far as it goes.     *)

FullHeader(q, p) ==
  IF q.entry \in {"stream", "stream_long"}
  THEN write_frame_header_streaming(q.checksum, p.window_log)
  ELSE write_frame_header(q.n, q.checksum, p.window_log, q.id)
OnWire == whole = Len(FullHeader(req, params)) /\ Agree(wire, FullHeader(req, params))
HeaderInv ==
  /\ req \in Calls /\ pc \in {"resolve", "write", "sent", "parsed"}
  /\ IF pc = "resolve" THEN params = None ELSE params = EntryParams(req)
  /\ pc \in {"sent", "parsed"} => OnWire
  /\ pc = "parsed" => parsed = parse_frame_header(wire)

(* A header is bytes, two at the least.                                    *)
LEMMA FullHeaderIs ==
  ASSUME NEW q \in Calls, NEW p, p = EntryParams(q)
  PROVE  FullHeader(q, p) \in Seq(Int) /\ Len(FullHeader(q, p)) >= 2
<1>0. CallType(q) /\ p.window_log \in 10..27  BY CallFacts, EntrySuitable DEF Suitable
<1> DEFINE w == p.window_log
           h == FullHeader(q, p)
<1> HIDE DEF w
<1>w. w \in 10..27  BY <1>0 DEF w
<1>1. CASE q.entry \in {"stream", "stream_long"}
  <2>1. h = write_frame_header_streaming(q.checksum, w)  BY <1>1 DEF FullHeader, w
  <2>2. h = <<IF q.checksum THEN 4 ELSE 0, (w - 10) * 8>>
    BY <2>1 DEF write_frame_header_streaming
  <2> HIDE DEF h
  <2>3. h \in Seq(Int) /\ Len(h) = 2  BY <1>w, <2>2
  <2> QED  BY <2>3 DEF h
<1>2. CASE q.entry \notin {"stream", "stream_long"}
  <2>1. h = write_frame_header(q.n, q.checksum, w, q.id)  BY <1>2 DEF FullHeader, w
  <2>2. q.n \in ByteCount /\ q.checksum \in BOOLEAN /\ q.id \in DictId
    BY <1>0, <1>2 DEF CallType
  <2>3. HasFields(h, q.n, q.checksum, w, q.id)  BY <1>w, <2>1, <2>2, WrittenFields
  <2> HIDE DEF h
  <2>4. /\ h \in Seq(Int) /\ DictIdSize(q.id) \in {0, 1, 2, 4}
        /\ Len(h) = 2 + DictIdSize(q.id) + FcsSize(SizeFlag(q.n))
    BY <2>2, <2>3, IdBack DEF HasFields
  <2>5. FcsSize(SizeFlag(q.n)) \in {4, 8}  BY DEF FcsSize, SizeFlag
  <2>6. Len(h) >= 2  BY <2>4, <2>5
  <2> QED  BY <2>4, <2>6 DEF h
<1> QED  BY <1>1, <1>2

(* What the parse makes of a stream that agrees with the header of a call. *)
LEMMA FullHeaderBack ==
  ASSUME NEW q \in Calls, NEW p, p = EntryParams(q), NEW src, Agree(src, FullHeader(q, p))
  PROVE  GivesBack(src, FullHeader(q, p), q.checksum, q.n, p.window_log, q.id)
<1> DEFINE w == p.window_log
           h == FullHeader(q, p)
<1>0. CallType(q) /\ w \in 10..27 /\ Agree(src, h)
  BY CallFacts, EntrySuitable DEF Suitable
<1>1. CASE q.entry \in {"stream", "stream_long"}
  <2>1. /\ q.n = None /\ q.id = NoId /\ q.checksum \in BOOLEAN
        /\ h = write_frame_header_streaming(q.checksum, w)
    BY <1>0, <1>1 DEF FullHeader, CallType
  <2> HIDE DEF h, w
  <2>2. GivesBack(src, h, q.checksum, None, w, NoId)  BY <1>0, <2>1, StreamedBack, Zenon
  <2> QED  BY <2>1, <2>2 DEF h, w
<1>2. CASE q.entry \notin {"stream", "stream_long"}
  <2>1. /\ q.n \in ByteCount /\ q.id \in DictId /\ q.checksum \in BOOLEAN
        /\ h = write_frame_header(q.n, q.checksum, w, q.id)
    BY <1>0, <1>2 DEF FullHeader, CallType
  <2> HIDE DEF h, w
  <2>2. GivesBack(src, h, q.checksum, q.n, w, q.id)  BY <1>0, <2>1, WrittenBack, Zenon
  <2> QED  BY <2>2 DEF h, w
<1> QED  BY <1>1, <1>2

LEMMA HeaderInitial == Init => HeaderInv
BY DEF Init, HeaderInv

LEMMA HeaderStep == HeaderInv /\ [Next]_vars => HeaderInv'
<1> SUFFICES ASSUME HeaderInv, [Next]_vars  PROVE HeaderInv'
  OBVIOUS
<1> DEFINE h == FullHeader(req, params)
<1>1. CASE Resolve
  BY <1>1 DEF Resolve, HeaderInv
<1>2. CASE WriteHeader
  <2>1. /\ pc = "write" /\ pc' = "sent" /\ req' = req /\ params' = params /\ wire' = h
        /\ whole' = Len(wire') /\ req \in Calls /\ params = EntryParams(req)
    BY <1>2 DEF WriteHeader, FullHeader, HeaderInv
  <2>2. h \in Seq(Int) /\ Len(h) >= 2  BY <2>1, FullHeaderIs
  <2>3. FullHeader(req', params') = h  BY <2>1
  <2> HIDE DEF h
  <2>4. h # <<>>
    <3>1. Len(<<>>) = 0  OBVIOUS
    <3> QED  BY <2>2, <3>1
  <2>5. Agree(wire', h)  BY <2>1, <2>2, <2>4 DEF Agree
  <2>6. OnWire'  BY <2>1, <2>3, <2>5 DEF OnWire
  <2> QED  BY <2>1, <2>6 DEF HeaderInv
<1>3. CASE Cut \/ Body
  <2>1. /\ pc = "sent" /\ pc' = "sent" /\ req' = req /\ params' = params /\ whole' = whole
        /\ Len(wire) = whole /\ req \in Calls /\ params = EntryParams(req)
        /\ whole = Len(h) /\ Agree(wire, h)
    BY <1>3 DEF Cut, Body, HeaderInv, OnWire
  <2>2. h \in Seq(Int) /\ Len(h) >= 2  BY <2>1, FullHeaderIs
  <2>3. FullHeader(req', params') = h  BY <2>1
  <2> HIDE DEF h
  <2>4. /\ wire \in Seq(Int) /\ Len(wire) = Len(h) /\ Len(h) \in Nat
        /\ \A i \in 1..Len(h) : wire[i] = h[i]
    BY <2>1, <2>2 DEF Agree
  <2>5. CASE Cut
    <3>1. PICK n \in 1..(whole - 1) : wire' = SubSeq(wire, 1, n)  BY <2>5 DEF Cut
    <3>2. n \in 0..Len(wire) /\ n >= 1  BY <2>1, <2>4, <3>1
    <3>3. /\ wire' \in Seq(Int) /\ Len(wire') = n /\ \A i \in 1..n : wire'[i] = wire[i]
      BY <2>4, <3>1, <3>2, FirstOf
    <3>4. wire' # <<>>
      <4>1. Len(<<>>) = 0  OBVIOUS
      <4> QED  BY <3>2, <3>3, <4>1
    <3>5. ASSUME NEW i \in 1..Len(h), i <= n  PROVE wire'[i] = h[i]
      <4>1. i \in 1..n  BY <3>2, <3>5
      <4> QED  BY <2>4, <3>3, <4>1
    <3>6. Agree(wire', h)  BY <3>3, <3>4, <3>5 DEF Agree
    <3> QED  BY <2>1, <2>3, <3>6 DEF HeaderInv, OnWire
  <2>6. CASE Body
    <3>1. wire' = wire \o <<7, 0, 0>>  BY <2>6 DEF Body
    <3>2. <<7, 0, 0>> \in Seq(Int) /\ Len(<<7, 0, 0>>) = 3  OBVIOUS
    <3>3. /\ wire' \in Seq(Int) /\ Len(wire') = Len(wire) + Len(<<7, 0, 0>>)
          /\ \A i \in 1..Len(wire) : wire'[i] = wire[i]
      BY <2>4, <3>1, <3>2, JoinedBytes
    <3>4. wire' # <<>>
      <4>1. Len(<<>>) = 0  OBVIOUS
      <4>2. Len(wire') >= 2  BY <2>2, <2>4, <3>2, <3>3
      <4> QED  BY <4>1, <4>2
    <3>5. Agree(wire', h)  BY <2>4, <3>3, <3>4 DEF Agree
    <3> QED  BY <2>1, <2>3, <3>5 DEF HeaderInv, OnWire
  <2> QED  BY <1>3, <2>5, <2>6
<1>4. CASE Parse
  BY <1>4 DEF Parse, HeaderInv, OnWire
<1>5. CASE UNCHANGED vars
  BY <1>5 DEF vars, HeaderInv, OnWire
<1> QED  BY <1>1, <1>2, <1>3, <1>4, <1>5 DEF Next

LEMMA AlwaysHeaderInv == Spec => []HeaderInv
<1> QED  BY HeaderInitial, HeaderStep, PTL DEF Spec

(* Every decoder reads back what every entry point meant, for every size   *)
(* of 64 bits, every dictionary id and every window: the pledged size, the *)
(* window, the id, the checksum flag and where the blocks start; and a     *)
(* header that ends early is refused, wherever it ends.                    *)
THEOREM HeaderReadBack == Spec => []HeaderRoundTrip
<1>1. HeaderInv => HeaderRoundTrip
  <2> SUFFICES ASSUME HeaderInv, pc = "parsed"
               PROVE  IF Len(wire) < whole THEN parsed = None
                      ELSE /\ parsed # None /\ parsed.header_len = whole
                           /\ parsed.content_size = req.n
                           /\ parsed.window = Pow2(params.window_log)
                           /\ parsed.id = req.id /\ parsed.checksum = req.checksum
    BY DEF HeaderRoundTrip
  <2> DEFINE h == FullHeader(req, params)
             back == [header_len |-> Len(h), checksum |-> req.checksum, content_size |-> req.n,
                      window |-> Pow2(params.window_log), id |-> req.id]
  <2>1. /\ req \in Calls /\ params = EntryParams(req) /\ parsed = parse_frame_header(wire)
        /\ whole = Len(h) /\ Agree(wire, h)
    BY DEF HeaderInv, OnWire
  <2>2. h \in Seq(Int) /\ Len(h) >= 2  BY <2>1, FullHeaderIs
  <2>3. /\ Len(wire) < Len(h) => parsed = None
        /\ Len(wire) >= Len(h) => parsed = back
    <3>1. GivesBack(wire, h, req.checksum, req.n, params.window_log, req.id)
      BY <2>1, FullHeaderBack
    <3> QED  BY <2>1, <3>1, Zenon DEF GivesBack
  <2>4. back # None
    <3>1. CallType(req) /\ params.window_log \in 10..27
      BY <2>1, CallFacts, EntrySuitable DEF Suitable
    <3>2. /\ Len(h) \in Nat /\ req.checksum \in BOOLEAN /\ req.n \in ByteCount \cup {None}
          /\ Pow2(params.window_log) \in Window /\ req.id \in DictId
      <4>1. req.id \in DictId /\ req.checksum \in BOOLEAN /\ req.n \in ByteCount \cup {None}
        BY <3>1 DEF CallType
      <4>2. Pow2(params.window_log) \in Window  BY <3>1, PowerSize
      <4>3. Len(h) \in Nat  BY <2>2
      <4> QED  BY <4>1, <4>2, <4>3, Zenon
    <3> HIDE DEF h
    <3>3. back \in Header  BY <3>2 DEF Header
    <3> QED  BY <3>3, FrameParamsAssumption
  <2>5. Len(wire) \in Nat /\ Len(h) \in Nat  BY <2>1, <2>2 DEF Agree
  <2> HIDE DEF h
  <2>6. CASE Len(wire) < Len(h)  BY <2>1, <2>3, <2>6
  <2>7. CASE Len(wire) >= Len(h)
    <3>1. parsed = back /\ parsed # None  BY <2>3, <2>4, <2>7
    <3>2. ~(Len(wire) < whole)  BY <2>1, <2>5, <2>7
    <3> QED  BY <2>1, <3>1, <3>2
  <2> QED  BY <2>5, <2>6, <2>7
<1> QED  BY <1>1, AlwaysHeaderInv, PTL

(* The window a frame advertises spans its largest block, whenever the     *)
(* caller leaves it alone and the size is not cut, and the dictionary as   *)
(* far as a portable window goes, for every level, size and dictionary.    *)
THEOREM WindowSpans == Spec => []WindowCovers
<1>1. HeaderInv => WindowCovers
  <2>1. CASE params = None
    BY <2>1 DEF WindowCovers, BlocksFit, DictInWindow, Resolved
  <2>2. CASE params # None
    BY <2>2, EntryWindow DEF HeaderInv
  <2> QED  BY <2>1, <2>2
<1> QED  BY <1>1, AlwaysHeaderInv, PTL

(* No call makes a window beyond the limit of its mode, a finder that      *)
(* reaches beyond the window or its own tree, a slide that would misalign  *)
(* a ring, or a table of a size it cannot work with: for every level,      *)
(* override and size, also those ceil_log2 cuts.                           *)
THEOREM FinderStaysCovered == Spec => []FinderCovered
<1>1. HeaderInv => FinderCovered
  <2>1. CASE params = None
    BY <2>1 DEF FinderCovered, ReachCovered, SlideAligned, TablesInRange, Resolved
  <2>2. CASE params # None
    BY <2>2, EntryFinder DEF HeaderInv
  <2> QED  BY <2>1, <2>2
<1> QED  BY <1>1, AlwaysHeaderInv, PTL

-----------------------------------------------------------------------------
(* The content checksum: sequences of bytes.                               *)

(* Associativity and prefixes, for bytes.                                  *)
LEMMA Assoc ==
  ASSUME NEW a \in Seq(Byte), NEW b \in Seq(Byte), NEW c \in Seq(Byte)
  PROVE  (a \o b) \o c = a \o (b \o c)
BY ConcatAssociative

LEMMA Joined ==
  ASSUME NEW a \in Seq(Byte), NEW b \in Seq(Byte)
  PROVE  a \o b \in Seq(Byte) /\ Len(a \o b) = Len(a) + Len(b)
BY ConcatProperties

LEMMA BufferPrefix ==
  ASSUME NEW buffer \in [1..Stripe -> Byte], NEW n \in 0..Stripe
  PROVE  SubSeq(buffer, 1, n) \in Seq(Byte) /\ Len(SubSeq(buffer, 1, n)) = n
<1>1. Stripe \in Nat  BY StripeAssumption
<1>2. \A i \in 1..n : buffer[i] \in Byte  BY <1>1
<1> QED  BY <1>1, <1>2, SubSeqProperties

(* What copying s to a position of the buffer gives: it extends the bytes  *)
(* that count.                                                             *)
LEMMA CopyExtends ==
  ASSUME NEW buffer \in [1..Stripe -> Byte], NEW s \in Seq(Byte), NEW at \in Nat,
         at + Len(s) <= Stripe
  PROVE  /\ Copied(at, s, buffer) \in [1..Stripe -> Byte]
         /\ SubSeq(Copied(at, s, buffer), 1, at + Len(s)) = SubSeq(buffer, 1, at) \o s
<1> DEFINE m == Copied(at, s, buffer)
           a == SubSeq(buffer, 1, at)
           c == SubSeq(m, 1, at + Len(s))
<1>0. Stripe \in Nat /\ Len(s) \in Nat  BY StripeAssumption, LenProperties
<1>1. m \in [1..Stripe -> Byte]
  <2>1. \A i \in 1..Stripe : at < i /\ i <= at + Len(s) => s[i - at] \in Byte
    <3> SUFFICES ASSUME NEW i \in 1..Stripe, at < i, i <= at + Len(s)  PROVE s[i - at] \in Byte
      OBVIOUS
    <3>1. i - at \in 1..Len(s)  BY <1>0
    <3> QED  BY <3>1, ElementOfSeq
  <2> QED  BY <2>1 DEF Copied
<1>2. /\ a \in Seq(Byte) /\ Len(a) = at /\ \A i \in 1..at : a[i] = buffer[i]
  <2>1. \A i \in 1..at : buffer[i] \in Byte  BY <1>0
  <2> QED  BY <1>0, <2>1, SubSeqProperties
<1>3. /\ c \in Seq(Byte) /\ Len(c) = at + Len(s) /\ \A i \in 1..(at + Len(s)) : c[i] = m[i]
  <2>1. \A i \in 1..(at + Len(s)) : m[i] \in Byte  BY <1>0, <1>1
  <2> QED  BY <1>0, <2>1, SubSeqProperties
<1>4. \A i \in 1..at : c[i] = a[i]
  <2> SUFFICES ASSUME NEW i \in 1..at  PROVE m[i] = buffer[i]
    BY <1>2, <1>3, <1>0
  <2> QED  BY <1>0 DEF Copied
<1>5. \A i \in 1..Len(s) : c[at + i] = s[i]
  <2> SUFFICES ASSUME NEW i \in 1..Len(s)  PROVE m[at + i] = s[i]
    BY <1>3, <1>0
  <2>1. at + i \in 1..Stripe /\ at < at + i /\ at + i <= at + Len(s) /\ (at + i) - at = i
    BY <1>0
  <2> QED  BY <2>1 DEF Copied
<1>6. c = a \o s
  <2>1. s \in Seq(Byte) /\ Len(c) = Len(a) + Len(s)  BY <1>0, <1>2, <1>3
  <2>2. \A i \in 1..Len(a) : c[i] = a[i]  BY <1>2, <1>4
  <2>3. \A i \in 1..Len(s) : c[Len(a) + i] = s[i]  BY <1>2, <1>5
  <2>4. a \in Seq(Byte) /\ c \in Seq(Byte)  BY <1>2, <1>3
  <2> HIDE DEF m, a, c
  <2> QED  BY ONLY <2>1, <2>2, <2>3, <2>4, ConcatIs
<1> QED  BY <1>1, <1>6

(* A number that is a multiple of the stripe and less than another stripe. *)
LEMMA Quotient ==
  ASSUME NEW q \in Nat, NEW r \in 0..(Stripe - 1)
  PROVE  (Stripe * q + r) \div Stripe = q
<1>1. Stripe \in Nat /\ Stripe > 0  BY StripeAssumption
<1> QED  BY <1>1, Z3

-----------------------------------------------------------------------------
(* The invariant of Hasher.                                                *)

LEMMA InitInv == HashInit => Inv
<1> SUFFICES ASSUME HashInit  PROVE Inv
  OBVIOUS
<1> USE StripeAssumption, PiecesAssumption DEF HashInit
<1>1. TypeOK  BY DEF TypeOK
<1>2. SubSeq(mem, 1, memsize) = <<>>  BY SubSeqEmpty
<1>3. 0 \div Stripe = 0
  <2>1. (Stripe * 0 + 0) \div Stripe = 0  BY Quotient
  <2> QED  BY <2>1
<1>4. Split  BY <1>2, <1>3 DEF Split
<1> QED  BY <1>1, <1>4 DEF Inv

(* From here on: what one call leaves absorbed and buffered is what was    *)
(* there followed by the piece.                                            *)
LEMMA BufferedBytes ==
  ASSUME TypeOK
  PROVE  SubSeq(mem, 1, memsize) \in Seq(Byte) /\ Len(SubSeq(mem, 1, memsize)) = memsize
<1>1. mem \in [1..Stripe -> Byte] /\ memsize \in 0..Stripe  BY StripeAssumption DEF TypeOK
<1> QED  BY <1>1, BufferPrefix

LEMMA BufferStep ==
  ASSUME Inv, NEW piece \in Seq(Byte), update(piece), Buffer(piece)
  PROVE  /\ mem' \in [1..Stripe -> Byte] /\ memsize' \in 0..(Stripe - 1)
         /\ v' = v /\ v' \in Seq(Byte)
         /\ SubSeq(mem', 1, memsize') = SubSeq(mem, 1, memsize) \o piece
<1>1. /\ Stripe \in Nat /\ Len(piece) \in Nat /\ memsize \in Nat
      /\ mem \in [1..Stripe -> Byte] /\ v \in Seq(Byte)
  BY StripeAssumption DEF Inv, TypeOK
<1>2. /\ memsize + Len(piece) < Stripe /\ mem' = Copied(memsize, piece, mem)
      /\ memsize' = memsize + Len(piece) /\ v' = v
  BY DEF Buffer, Fits
<1>3. memsize + Len(piece) <= Stripe /\ memsize' \in 0..(Stripe - 1)  BY <1>1, <1>2
<1>4. /\ Copied(memsize, piece, mem) \in [1..Stripe -> Byte]
      /\ SubSeq(Copied(memsize, piece, mem), 1, memsize + Len(piece))
           = SubSeq(mem, 1, memsize) \o piece
  BY <1>1, <1>3, CopyExtends
<1> QED  BY <1>1, <1>2, <1>3, <1>4

(* What is over after the whole stripes of some bytes fits the buffer.     *)
LEMMA Divided ==
  ASSUME NEW n \in Nat
  PROVE  /\ n \div Stripe \in Nat /\ Stripe * (n \div Stripe) \in 0..n
         /\ n - Stripe * (n \div Stripe) \in 0..(Stripe - 1)
<1>1. Stripe \in Nat /\ Stripe > 0  BY StripeAssumption
<1> QED  BY <1>1, Z3

(* A buffer filled up to a stripe is the bytes it had and the new ones.    *)
LEMMA Filled ==
  ASSUME NEW buffer \in [1..Stripe -> Byte], NEW n \in Nat, NEW head \in Seq(Byte),
         n + Len(head) = Stripe
  PROVE  /\ Copied(n, head, buffer) \in [1..Stripe -> Byte]
         /\ Copied(n, head, buffer) \in Seq(Byte) /\ Len(Copied(n, head, buffer)) = Stripe
         /\ Copied(n, head, buffer) = SubSeq(buffer, 1, n) \o head
<1> DEFINE full == Copied(n, head, buffer)
<1>0. Stripe \in Nat /\ Len(head) \in Nat  BY StripeAssumption
<1>1. full \in [1..Stripe -> Byte] /\ SubSeq(full, 1, n + Len(head)) = SubSeq(buffer, 1, n) \o head
  <2>1. n + Len(head) <= Stripe  BY <1>0
  <2> QED  BY ONLY <2>1, CopyExtends, buffer \in [1..Stripe -> Byte], head \in Seq(Byte), n \in Nat
<1> HIDE DEF full
<1>2. full \in Seq(Byte) /\ Len(full) = Stripe
  <2>1. full \in Seq(Byte)  BY <1>0, <1>1
  <2> QED  BY <2>1, <1>0, <1>1, LenProperties
<1>3. SubSeq(full, 1, Len(full)) = full  BY <1>2, SubSeqFull
<1> QED  BY <1>1, <1>2, <1>3 DEF full

(* Bytes are their whole stripes and the rest, which is buffered from the  *)
(* start of the buffer.                                                    *)
Whole(rest) == Stripe * (Len(rest) \div Stripe)
LEMMA TakeStripes ==
  ASSUME NEW rest \in Seq(Byte), NEW buffer \in [1..Stripe -> Byte]
  PROVE  LET run  == SubSeq(rest, 1, Whole(rest))
             left == SubSeq(rest, Whole(rest) + 1, Len(rest))
         IN  /\ run \in Seq(Byte) /\ Len(run) = Whole(rest) /\ left \in Seq(Byte)
             /\ Len(left) \in 0..(Stripe - 1) /\ run \o left = rest
             /\ Copied(0, left, buffer) \in [1..Stripe -> Byte]
             /\ SubSeq(Copied(0, left, buffer), 1, Len(left)) = left
<1> DEFINE stripes == Whole(rest)
           run   == SubSeq(rest, 1, stripes)
           left  == SubSeq(rest, stripes + 1, Len(rest))
<1>0. Stripe \in Nat /\ Stripe > 0 /\ Len(rest) \in Nat  BY StripeAssumption
<1>1. stripes \in 0..Len(rest) /\ Len(rest) - stripes \in 0..(Stripe - 1)
  BY <1>0, Divided DEF Whole
<1> HIDE DEF stripes
<1>2. /\ run \in Seq(Byte) /\ Len(run) = stripes /\ left \in Seq(Byte)
      /\ Len(left) = Len(rest) - stripes /\ run \o left = rest
  BY <1>1, CutSeq
<1> HIDE DEF run, left
<1>3. Len(left) \in 0..(Stripe - 1) /\ 0 + Len(left) = Len(left) /\ Len(left) <= Stripe
  BY <1>0, <1>1, <1>2
<1>4. /\ Copied(0, left, buffer) \in [1..Stripe -> Byte]
      /\ SubSeq(Copied(0, left, buffer), 1, 0 + Len(left)) = SubSeq(buffer, 1, 0) \o left
  BY <1>2, <1>3, CopyExtends
<1>5. SubSeq(buffer, 1, 0) = <<>>  BY SubSeqEmpty
<1>6. <<>> \o left = left  BY <1>2, ConcatEmptySeq
<1> QED  BY <1>2, <1>3, <1>4, <1>5, <1>6 DEF stripes, run, left

LEMMA AbsorbStep ==
  ASSUME Inv, NEW piece \in Seq(Byte), Absorb(piece)
  PROVE  /\ mem' \in [1..Stripe -> Byte] /\ memsize' \in 0..(Stripe - 1)
         /\ v' \in Seq(Byte) /\ \E q \in Nat : Len(v') = Stripe * q
         /\ v' \o SubSeq(mem', 1, memsize') = (v \o SubSeq(mem, 1, memsize)) \o piece
<1> DEFINE need  == Need(piece)
           old   == SubSeq(mem, 1, memsize)
           head  == SubSeq(piece, 1, need)
           full  == Copied(memsize, head, mem)
           rest  == SubSeq(piece, need + 1, Len(piece))
           stripes == Whole(rest)
           run   == SubSeq(rest, 1, stripes)
           left  == SubSeq(rest, stripes + 1, Len(rest))
           w     == IF memsize > 0 THEN v \o full ELSE v
           m     == IF memsize > 0 THEN full ELSE mem
<1>0. /\ Stripe \in Nat /\ Stripe > 0 /\ memsize \in 0..(Stripe - 1) /\ Len(piece) \in Nat
      /\ memsize + Len(piece) >= Stripe /\ mem \in [1..Stripe -> Byte] /\ v \in Seq(Byte)
  <2>1. /\ Stripe \in Nat /\ Stripe > 0 /\ memsize \in 0..(Stripe - 1) /\ Len(piece) \in Nat
        /\ mem \in [1..Stripe -> Byte] /\ v \in Seq(Byte)
    BY StripeAssumption DEF Inv, TypeOK
  <2>2. ~(memsize + Len(piece) < Stripe)
    <3>1. ~Fits(piece)  BY DEF Absorb
    <3> QED  BY <3>1 DEF Fits
  <2> QED  BY <2>1, <2>2
<1>1. /\ need \in 0..Len(piece) /\ (memsize > 0 => memsize + need = Stripe)
      /\ (memsize = 0 => need = 0)
  BY <1>0 DEF Need
<1>2. v' = w \o run /\ mem' = Copied(0, left, m) /\ memsize' = Len(left)
  BY DEF Absorb, NewSize, Whole
<1> HIDE DEF need
<1>3. /\ head \in Seq(Byte) /\ Len(head) = need /\ rest \in Seq(Byte) /\ head \o rest = piece
  BY <1>1, CutSeq
<1>4. old \in Seq(Byte) /\ Len(old) = memsize
  BY BufferedBytes DEF Inv
<1>5. memsize > 0 => full \in [1..Stripe -> Byte] /\ full \in Seq(Byte) /\ Len(full) = Stripe
                     /\ full = old \o head
  <2> HAVE memsize > 0
  <2>1. memsize + Len(head) = Stripe /\ memsize \in Nat  BY <1>0, <1>1, <1>3
  <2> HIDE DEF head
  <2> QED  BY <2>1, <1>0, <1>3, Filled
<1>6. /\ m \in [1..Stripe -> Byte] /\ w \in Seq(Byte) /\ w = v \o (old \o head)
      /\ Len(w) = Len(v) + (IF memsize > 0 THEN Stripe ELSE 0)
  <2>1. CASE memsize > 0
    <3>1. m = full /\ w = v \o full  BY <2>1
    <3>2. v \in Seq(Byte)  BY <1>0
    <3>3. /\ full \in [1..Stripe -> Byte] /\ full \in Seq(Byte) /\ Len(full) = Stripe
          /\ full = old \o head
      BY <2>1, <1>5
    <3> HIDE DEF full, old, head, m, w
    <3>4. v \o full \in Seq(Byte) /\ Len(v \o full) = Len(v) + Len(full)
      BY ONLY <3>2, <3>3, ConcatProperties
    <3> QED  BY <2>1, <3>1, <3>3, <3>4
  <2>2. CASE memsize = 0
    <3>1. old = <<>> /\ head = <<>>  BY <1>1, <1>3, <1>4, <2>2, EmptySeq
    <3> HIDE DEF old, head
    <3>2. v \o (old \o head) = v  BY <3>1, <1>0, ConcatEmptySeq
    <3> QED  BY <3>2, <2>2, <1>0
  <2>3. memsize > 0 \/ memsize = 0  BY <1>0
  <2> HIDE DEF m, w, old, head
  <2> QED  BY <2>1, <2>2, <2>3
<1>7. /\ run \in Seq(Byte) /\ Len(run) = stripes /\ left \in Seq(Byte)
      /\ Len(left) \in 0..(Stripe - 1) /\ run \o left = rest
      /\ Copied(0, left, m) \in [1..Stripe -> Byte]
      /\ SubSeq(Copied(0, left, m), 1, Len(left)) = left
  <2>1. rest \in Seq(Byte) /\ m \in [1..Stripe -> Byte]  BY <1>3, <1>6
  <2> HIDE DEF rest, m
  <2> QED  BY <2>1, TakeStripes
<1>8. v' \in Seq(Byte) /\ Len(v') = Len(w) + stripes
  <2>1. /\ w \in Seq(Byte) /\ run \in Seq(Byte) /\ Len(run) = stripes /\ v' = w \o run
    BY <1>2, <1>6, <1>7
  <2> HIDE DEF w, run, stripes
  <2>2. w \o run \in Seq(Byte) /\ Len(w \o run) = Len(w) + Len(run)  BY <2>1, Joined
  <2> QED  BY <2>1, <2>2
<1>9. \E q \in Nat : Len(v') = Stripe * q
  <2>1. PICK a \in Nat : Len(v) = Stripe * a
    <3>1. Len(input) \in Nat  BY DEF Inv, TypeOK
    <3> QED  BY <3>1, Divided DEF Inv, Split
  <2>2. PICK b \in Nat : stripes = Stripe * b
    <3>1. Len(rest) \in Nat  BY <1>3
    <3> HIDE DEF rest
    <3> QED  BY <3>1, Divided DEF Whole
  <2> HIDE DEF stripes, w
  <2>3. Len(v') = Stripe * (a + (IF memsize > 0 THEN 1 ELSE 0) + b)
    <3>1. CASE memsize > 0  BY <3>1, <2>1, <2>2, <1>0, <1>6, <1>8, Z3
    <3>2. CASE memsize = 0  BY <3>2, <2>1, <2>2, <1>0, <1>6, <1>8, Z3
    <3> QED  BY <3>1, <3>2, <1>0
  <2>4. a + (IF memsize > 0 THEN 1 ELSE 0) + b \in Nat  OBVIOUS
  <2> QED  BY <2>3, <2>4
<1>10. v' \o SubSeq(mem', 1, memsize') = (v \o old) \o piece
  <2>1. SubSeq(mem', 1, memsize') = left  BY <1>2, <1>7
  <2>2. w \in Seq(Byte) /\ run \in Seq(Byte) /\ left \in Seq(Byte)  BY <1>6, <1>7
  <2>3. v \in Seq(Byte) /\ old \in Seq(Byte) /\ head \in Seq(Byte)  BY <1>0, <1>3, <1>4
  <2>4. head \in Seq(Byte) /\ rest \in Seq(Byte)  BY <1>3
  <2>5. /\ run \o left = rest /\ w = v \o (old \o head) /\ head \o rest = piece
        /\ v' = w \o run
    BY <1>2, <1>3, <1>6, <1>7
  <2> HIDE DEF w, run, left, old, head, rest
  <2>6. (w \o run) \o left = w \o (run \o left)  BY ONLY <2>2, Assoc
  <2>7. (v \o old) \o head = v \o (old \o head)  BY ONLY <2>3, Assoc
  <2>8. v \o old \in Seq(Byte)  BY <2>3, Joined
  <2>9. ((v \o old) \o head) \o rest = (v \o old) \o (head \o rest)
    BY ONLY <2>8, <2>4, Assoc
  <2> QED  BY <2>1, <2>5, <2>6, <2>7, <2>9
<1> QED  BY <1>2, <1>7, <1>8, <1>9, <1>10

(* One call of update keeps the invariant.                                 *)
LEMMA UpdateStep ==
  ASSUME Inv, NEW piece \in Seq(Byte), update(piece)
  PROVE  Inv'
<1>0. Stripe \in Nat /\ Stripe > 0 /\ Len(input) \in Nat /\ input \in Seq(Byte)
  BY StripeAssumption DEF Inv, TypeOK
<1>1. /\ mem' \in [1..Stripe -> Byte] /\ memsize' \in 0..(Stripe - 1)
      /\ v' \in Seq(Byte) /\ \E q \in Nat : Len(v') = Stripe * q
      /\ v' \o SubSeq(mem', 1, memsize') = (v \o SubSeq(mem, 1, memsize)) \o piece
  <2>1. CASE Buffer(piece)
    <3>1. /\ mem' \in [1..Stripe -> Byte] /\ memsize' \in 0..(Stripe - 1)
          /\ v' = v /\ v' \in Seq(Byte)
          /\ SubSeq(mem', 1, memsize') = SubSeq(mem, 1, memsize) \o piece
      BY <2>1, BufferStep
    <3>2. \E q \in Nat : Len(v) = Stripe * q  BY <1>0, Divided DEF Inv, Split
    <3>3. SubSeq(mem, 1, memsize) \in Seq(Byte)  BY BufferedBytes DEF Inv
    <3>4. v \o (SubSeq(mem, 1, memsize) \o piece) = (v \o SubSeq(mem, 1, memsize)) \o piece
      BY <3>1, <3>3, Assoc
    <3> QED  BY <3>1, <3>2, <3>4
  <2>2. CASE Absorb(piece)  BY <2>2, AbsorbStep
  <2> QED  BY <2>1, <2>2 DEF update
<1>2. input' = input \o piece /\ total_len' = total_len + Len(piece)
  BY DEF update
<1>3. input' \in Seq(Byte) /\ total_len' = Len(input')
  BY <1>0, <1>2, ConcatProperties DEF Inv, TypeOK
<1>4. TypeOK'  BY <1>1, <1>3 DEF TypeOK
<1>5. input' = v' \o SubSeq(mem', 1, memsize')
  BY <1>1, <1>2 DEF Inv, Split
<1>6. SubSeq(mem', 1, memsize') \in Seq(Byte) /\ Len(SubSeq(mem', 1, memsize')) = memsize'
  <2>1. memsize' \in 0..Stripe  BY <1>0, <1>1
  <2> QED  BY <2>1, <1>1, BufferPrefix
<1>7. Len(v') = Stripe * (Len(input') \div Stripe)
  <2>1. PICK q \in Nat : Len(v') = Stripe * q  BY <1>1
  <2>2. Len(input') = Stripe * q + memsize'
    BY <1>1, <1>5, <1>6, <2>1, ConcatProperties
  <2>3. (Stripe * q + memsize') \div Stripe = q  BY <1>1, Quotient
  <2> QED  BY <2>1, <2>2, <2>3
<1> QED  BY <1>4, <1>5, <1>7 DEF Inv, Split

LEMMA StepInv == Inv /\ [HashNext]_hashVars => Inv'
<1> SUFFICES ASSUME Inv, [HashNext]_hashVars  PROVE Inv'
  OBVIOUS
<1>1. CASE UNCHANGED hashVars  BY <1>1 DEF Inv, TypeOK, Split, hashVars
<1>2. CASE HashNext
  <2>1. PICK piece \in Pieces : update(piece)  BY <1>2 DEF HashNext
  <2>2. piece \in Seq(Byte)  BY PiecesAssumption
  <2> QED  BY <2>1, <2>2, UpdateStep
<1> QED  BY <1>1, <1>2

(* What the digest hashes of an input split like this.                     *)
LEMMA DigestOfSplit == Inv => DigestMatches
<1> SUFFICES ASSUME Inv  PROVE digest = xxh64(input)
  BY DEF DigestMatches
<1> DEFINE rest  == SubSeq(mem, 1, memsize)
           stripes == Stripe * (Len(input) \div Stripe)
<1>1. /\ rest \in Seq(Byte) /\ v \in Seq(Byte) /\ input = v \o rest /\ Len(v) = stripes
      /\ total_len = Len(input)
  BY BufferedBytes DEF Inv, TypeOK, Split
<1> HIDE DEF rest, stripes
<1>2. SubSeq(input, 1, Len(v)) = v /\ SubSeq(input, Len(v) + 1, Len(input)) = rest
  BY <1>1, CutConcat
<1>3. SubSeq(input, 1, stripes) = v /\ SubSeq(input, stripes + 1, Len(input)) = rest
  BY <1>1, <1>2
<1> QED  BY <1>1, <1>3 DEF digest, xxh64, rest, stripes

-----------------------------------------------------------------------------
(* The theorems about Hasher.                                              *)

LEMMA AlwaysInv == HashSpec => []Inv
<1> QED  BY InitInv, StepInv, PTL DEF HashSpec

(* Every state is well typed: between calls of update the buffer holds     *)
(* less than a stripe, so the next copy into it stays inside.              *)
THEOREM TypeCorrect == HashSpec => []TypeOK
<1>1. Inv => TypeOK  BY DEF Inv
<1> QED  BY <1>1, AlwaysInv, PTL

(* Absorbed and buffered bytes are the input, in order, and only what does *)
(* not make a stripe is buffered: update loses and repeats nothing.        *)
THEOREM NothingLost == HashSpec => []Split
<1>1. Inv => Split  BY DEF Inv
<1> QED  BY <1>1, AlwaysInv, PTL

(* The streaming digest is the one-shot hash of everything passed to       *)
(* update, for every way to cut it into pieces.                            *)
THEOREM StreamingMatchesOneShot == HashSpec => []DigestMatches
<1> QED  BY DigestOfSplit, AlwaysInv, PTL
=============================================================================

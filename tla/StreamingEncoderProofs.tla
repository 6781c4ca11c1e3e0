----------------------- MODULE StreamingEncoderProofs -----------------------
(***************************************************************************)
(* The streaming encoder for every configuration, input and schedule of    *)
(* pushes: sliding the retained window is invisible to the finders, the    *)
(* index stays sound and memory bounded, and the blocks written do not     *)
(* depend on how the input arrived.                                        *)
(*                                                                         *)
(* The invariant: the tables are those of an encoder that never slides,    *)
(* every entry shifted by dropped (or empty if it fell off), where dropped *)
(* is a multiple of the ring period and, once not 0, at least one window   *)
(* behind what was emitted.                                                *)
(***************************************************************************)
EXTENDS StreamingEncoder, DataLemmas

-----------------------------------------------------------------------------
(* Remainders: a multiple of the period moves no position to another slot. *)

(* Two quotients that differ put their multiples a period apart.           *)
LEMMA Less ==
  ASSUME NEW p \in Nat \ {0}, NEW q \in Int, NEW s \in Int, q < s
  PROVE  p * q + p <= p * s
<1>1. p * (s - q) >= p
  <2>1. s - q - 1 \in Nat
    OBVIOUS
  <2>2. p * (s - q - 1) \in Nat
    BY <2>1, Z3
  <2>3. p * (s - q) = p * (s - q - 1) + p
    BY Z3
  <2> QED BY <2>2, <2>3
<1>2. p * (s - q) = p * s - p * q
  BY Z3
<1> QED
  BY <1>1, <1>2, Z3

(* The remainder is unique.                                                *)
LEMMA Unique ==
  ASSUME NEW p \in Nat \ {0}, NEW q \in Int, NEW r \in 0..p - 1,
         NEW s \in Int, NEW t \in 0..p - 1, p * q + r = p * s + t
  PROVE  r = t
<1>1. CASE q < s
  <2>1. p * q + p <= p * s
    BY <1>1, Less
  <2> QED BY <2>1, Z3
<1>2. CASE s < q
  <2>1. p * s + p <= p * q
    BY <1>2, Less
  <2> QED BY <2>1, Z3
<1>3. CASE q = s
  BY <1>3, Z3
<1> QED
  BY <1>1, <1>2, <1>3

(* desired - (desired % period) of maybe_slide is a multiple of the period. *)
LEMMA RoundDown ==
  ASSUME NEW a \in Nat, NEW p \in Nat \ {0}
  PROVE  (a - (a % p)) % p = 0
<1> DEFINE b == a - (a % p)
<1>1. b \in Nat /\ b = p * (a \div p) + 0 /\ a \div p \in Int
  BY DivMod
<1>2. b = p * (b \div p) + (b % p) /\ b \div p \in Int
  BY <1>1, DivMod
<1>3. b % p \in 0..p - 1 /\ 0 \in 0..p - 1
  BY <1>1, DivMod
<1> HIDE DEF b
<1>4. p * (b \div p) + (b % p) = p * (a \div p) + 0
  BY <1>1, <1>2
<1>5. b % p = 0
  BY <1>1, <1>2, <1>3, <1>4, Unique
<1> QED
  BY <1>5 DEF b

(* Moving a position by a multiple of the period keeps its ring slot.      *)
LEMMA SameSlot ==
  ASSUME NEW a \in Nat, NEW b \in Nat, NEW p \in Nat \ {0}, b % p = 0
  PROVE  (b + a) % p = a % p
<1> DEFINE c == b + a
           q == (b \div p) + (a \div p)
<1>1. b = p * (b \div p) /\ b \div p \in Nat
  BY DivMod
<1>2. a = p * (a \div p) + (a % p) /\ a \div p \in Nat /\ a % p \in 0..p - 1
  BY DivMod
<1>3. q \in Int /\ p * q = p * (b \div p) + p * (a \div p)
  BY <1>1, <1>2, Z3
<1>4. c \in Nat /\ c = p * q + (a % p)
  BY <1>1, <1>2, <1>3
<1> HIDE DEF c, q
<1>5. c = p * (c \div p) + (c % p) /\ c \div p \in Int /\ c % p \in 0..p - 1
  <2>1. c \in Nat
    BY <1>4
  <2>2. c \div p \in Nat /\ c = p * (c \div p) + (c % p)
    BY <2>1, DivMod
  <2>3. c % p \in 0..p - 1
    BY <2>1, DivMod
  <2> QED BY <2>2, <2>3
<1>6. p * (c \div p) + (c % p) = p * q + (a % p)
  BY <1>4, <1>5
<1>7. a % p \in 0..p - 1 /\ c % p \in 0..p - 1 /\ c \div p \in Int /\ q \in Int
  BY <1>2, <1>3, <1>5
<1>8. c % p = a % p
  BY <1>6, <1>7, Unique
<1> QED
  BY <1>8 DEF c

(* Two aligned drops add up to an aligned base.                            *)
LEMMA SumAligned ==
  ASSUME NEW a \in Nat, NEW b \in Nat, NEW p \in Nat \ {0}, a % p = 0, b % p = 0
  PROVE  (a + b) % p = 0
BY SameSlot

-----------------------------------------------------------------------------
(* A position of the sliding encoder, from the one the non-sliding encoder *)
(* holds in the same place.                                                *)
ShiftBy(e, d) == IF e < d THEN -1 ELSE e - d

(* Tables t are tables r after d bytes were dropped.                       *)
Shifted(t, r, d) ==
  /\ \A k \in Keys : t.head[k] = ShiftBy(r.head[k], d) /\ t.ldm[k] = ShiftBy(r.ldm[k], d)
  /\ \A s \in 0..conf.period - 1 : t.chain[s] = ShiftBy(r.chain[s], d)

(* Tables t index only bytes of i before position b, each under its key.   *)
Indexed(t, i, b) ==
  /\ \A k \in Keys :
       /\ t.head[k] >= 0 => t.head[k] < b /\ i[t.head[k] + 1] = k
       /\ t.ldm[k] >= 0 => t.ldm[k] < b /\ i[t.ldm[k] + 1] = k
  /\ \A s \in 0..conf.period - 1 : t.chain[s] < b

Behind == IF pc = "parse" THEN ip ELSE emitted - dropped

TablesShifted == Shifted(tables, ref, dropped)
Aligned    == dropped % conf.period = 0
WindowKept == dropped = 0 \/ dropped + conf.window <= emitted
Retained ==
  /\ pc # "closed" => emitted - dropped <= HistoryBound /\ total - emitted <= 2 * conf.block
  /\ Len(input) <= HistoryBound + 2 * conf.block

IInv == /\ TypeOK /\ Aligned /\ WindowKept /\ TablesShifted
        /\ Indexed(tables, input, Behind) /\ Retained

(* The configuration and the two bounds, as numbers.                       *)
LEMMA ConfFacts ==
  ASSUME conf \in Configs
  PROVE  /\ conf.block \in Nat \ {0} /\ conf.window \in Nat \ {0}
         /\ conf.reach \in Nat \ {0} /\ conf.period \in Nat \ {0}
         /\ conf.reach <= conf.window
         /\ HistoryBound \in Nat
         /\ 2 * conf.window <= HistoryBound
         /\ conf.window + conf.period - 1 <= HistoryBound
<1>1. /\ conf.block \in Nat \ {0} /\ conf.window \in Nat \ {0}
      /\ conf.reach \in Nat \ {0} /\ conf.period \in Nat \ {0}
      /\ conf.reach <= conf.window
  BY EncoderAssumption DEF Config
<1> QED
  BY <1>1 DEF HistoryBound

(* What a slide drops: aligned, never within a window of the history's     *)
(* end, and enough of it.                                                  *)
LEMMA SlideDropFacts ==
  ASSUME conf \in Configs, NEW h \in Nat
  PROVE  /\ SlideDrop(h) \in 0..h
         /\ SlideDrop(h) % conf.period = 0
         /\ SlideDrop(h) = 0 \/ SlideDrop(h) + conf.window <= h
         /\ h - SlideDrop(h) <= HistoryBound
<1> DEFINE p == conf.period
           w == conf.window
           d == h - w
<1>1. p \in Nat \ {0} /\ w \in Nat \ {0}
  BY ConfFacts
<1>2. HistoryBound \in Nat /\ 2 * w <= HistoryBound /\ w + p - 1 <= HistoryBound
  BY ConfFacts
<1>3. CASE h <= 2 * w
  <2>1. SlideDrop(h) = 0
    BY <1>3 DEF SlideDrop
  <2>2. 0 % p = 0
    BY <1>1, DivMod
  <2> QED
    BY <2>1, <2>2, <1>1, <1>2, <1>3
<1>4. CASE h > 2 * w
  <2>1. SlideDrop(h) = d - (d % p)
    BY <1>1, <1>4 DEF SlideDrop
  <2>2. d \in Nat
    BY <1>1, <1>4
  <2> HIDE DEF d
  <2>3. d % p \in 0..p - 1 /\ d % p <= d
    BY <1>1, <2>2, DivMod
  <2>4. (d - (d % p)) % p = 0
    BY <1>1, <2>2, RoundDown
  <2>5. SlideDrop(h) % p = 0
    BY <2>1, <2>4
  <2>6. d = h - w
    BY DEF d
  <2> HIDE DEF p, w
  <2>7. /\ SlideDrop(h) \in 0..h
        /\ SlideDrop(h) + w <= h
        /\ h - SlideDrop(h) <= HistoryBound
    BY <1>1, <1>2, <2>1, <2>2, <2>3, <2>6
  <2> QED
    BY <2>5, <2>7 DEF p, w
<1> QED
  BY <1>1, <1>3, <1>4

-----------------------------------------------------------------------------
(* Tables are records of three functions; what the updates do to each.     *)
LEMMA TabsFields ==
  ASSUME NEW t \in Tabs
  PROVE  /\ t.head \in [Keys -> Int] /\ t.ldm \in [Keys -> Int]
         /\ t.chain \in [0..conf.period - 1 -> Int]
BY DEF Tabs

(* A record of three well-typed functions is a table record.               *)
LEMMA TabsRecord ==
  ASSUME NEW h \in [Keys -> Int], NEW c \in [0..conf.period - 1 -> Int],
         NEW l \in [Keys -> Int]
  PROVE  [head |-> h, chain |-> c, ldm |-> l] \in Tabs
BY DEF Tabs

(* ChainState::insert changes one head and one ring slot.                  *)
LEMMA InsertFacts ==
  ASSUME conf \in Configs, NEW t \in Tabs, NEW k \in Keys, NEW at \in Nat
  PROVE  /\ insert(t, k, at) \in Tabs
         /\ insert(t, k, at).head = [t.head EXCEPT ![k] = at]
         /\ insert(t, k, at).chain = [t.chain EXCEPT ![at % conf.period] = t.head[k]]
         /\ insert(t, k, at).ldm = t.ldm
<1> DEFINE h == [t.head EXCEPT ![k] = at]
           c == [t.chain EXCEPT ![at % conf.period] = t.head[k]]
<1>1. conf.period \in Nat \ {0} /\ at % conf.period \in 0..conf.period - 1
  BY ConfFacts, DivMod
<1>2. insert(t, k, at) = [head |-> h, chain |-> c, ldm |-> t.ldm]
  BY DEF insert
<1>3. h \in [Keys -> Int] /\ c \in [0..conf.period - 1 -> Int] /\ t.ldm \in [Keys -> Int]
  BY <1>1, TabsFields
<1> HIDE DEF h, c
<1>4. [head |-> h, chain |-> c, ldm |-> t.ldm] \in Tabs
  BY <1>3, TabsRecord
<1> QED
  BY <1>2, <1>4 DEF h, c

(* The index update of LdmState::generate changes one entry.               *)
LEMMA LdmInsertFacts ==
  ASSUME NEW t \in Tabs, NEW k \in Keys, NEW at \in Nat
  PROVE  /\ ldm_insert(t, k, at) \in Tabs
         /\ ldm_insert(t, k, at).head = t.head
         /\ ldm_insert(t, k, at).chain = t.chain
         /\ ldm_insert(t, k, at).ldm = [t.ldm EXCEPT ![k] = at]
<1> DEFINE l == [t.ldm EXCEPT ![k] = at]
<1>1. ldm_insert(t, k, at) = [head |-> t.head, chain |-> t.chain, ldm |-> l]
  BY DEF ldm_insert
<1>2. l \in [Keys -> Int]
  BY TabsFields
<1> HIDE DEF l
<1>3. [head |-> t.head, chain |-> t.chain, ldm |-> l] \in Tabs
  BY <1>2, TabsFields, TabsRecord
<1> QED
  BY <1>1, <1>3 DEF l

(* reduce_index treats every entry of the three tables alike.              *)
LEMMA ReduceFacts ==
  ASSUME NEW t \in Tabs, NEW drop \in Nat
  PROVE  /\ reduce_index(t, drop) \in Tabs
         /\ \A k \in Keys :
              /\ reduce_index(t, drop).head[k] = reduce_index_entry(t.head[k], drop)
              /\ reduce_index(t, drop).ldm[k] = reduce_index_entry(t.ldm[k], drop)
         /\ \A s \in 0..conf.period - 1 :
              reduce_index(t, drop).chain[s] = reduce_index_entry(t.chain[s], drop)
<1> DEFINE h == [k \in Keys |-> reduce_index_entry(t.head[k], drop)]
           c == [s \in 0..conf.period - 1 |-> reduce_index_entry(t.chain[s], drop)]
           l == [k \in Keys |-> reduce_index_entry(t.ldm[k], drop)]
<1>1. reduce_index(t, drop) = [head |-> h, chain |-> c, ldm |-> l]
  BY DEF reduce_index
<1>2. \A e \in Int : reduce_index_entry(e, drop) \in Int
  BY DEF reduce_index_entry
<1>3. h \in [Keys -> Int] /\ c \in [0..conf.period - 1 -> Int] /\ l \in [Keys -> Int]
  <2> HIDE DEF reduce_index_entry
  <2> QED BY <1>2, TabsFields
<1>4. /\ \A k \in Keys : /\ h[k] = reduce_index_entry(t.head[k], drop)
                         /\ l[k] = reduce_index_entry(t.ldm[k], drop)
      /\ \A s \in 0..conf.period - 1 : c[s] = reduce_index_entry(t.chain[s], drop)
  OBVIOUS
<1> HIDE DEF h, c, l
<1>5. [head |-> h, chain |-> c, ldm |-> l] \in Tabs
  BY <1>3, TabsRecord
<1> QED
  BY <1>1, <1>4, <1>5

-----------------------------------------------------------------------------
(* The two encoders index one position: the same slot, as the base is      *)
(* aligned to the ring.                                                    *)
LEMMA ShiftInsert ==
  ASSUME conf \in Configs, NEW t \in Tabs, NEW r \in Tabs, NEW k \in Keys,
         NEW d \in Nat, NEW a \in Nat, d % conf.period = 0, Shifted(t, r, d)
  PROVE  Shifted(insert(t, k, a), insert(r, k, d + a), d)
<1> DEFINE u == insert(t, k, a)
           v == insert(r, k, d + a)
           s0 == a % conf.period
<1>1. (d + a) % conf.period = s0
  BY ConfFacts, SameSlot
<1>2. s0 \in 0..conf.period - 1
  BY ConfFacts, DivMod
<1>3. d + a \in Nat
  OBVIOUS
<1>4. /\ t.head \in [Keys -> Int] /\ r.head \in [Keys -> Int]
      /\ t.chain \in [0..conf.period - 1 -> Int] /\ r.chain \in [0..conf.period - 1 -> Int]
  BY TabsFields
<1>5. /\ u.head = [t.head EXCEPT ![k] = a] /\ u.ldm = t.ldm
      /\ u.chain = [t.chain EXCEPT ![s0] = t.head[k]]
  BY InsertFacts
<1>6. /\ v.head = [r.head EXCEPT ![k] = d + a] /\ v.ldm = r.ldm
      /\ v.chain = [r.chain EXCEPT ![s0] = r.head[k]]
  BY <1>1, <1>3, InsertFacts
<1>7. ShiftBy(d + a, d) = a
  BY DEF ShiftBy
<1> HIDE DEF u, v, s0
<1>8. ASSUME NEW j \in Keys
      PROVE  u.head[j] = ShiftBy(v.head[j], d) /\ u.ldm[j] = ShiftBy(v.ldm[j], d)
  BY <1>4, <1>5, <1>6, <1>7 DEF Shifted
<1>9. ASSUME NEW s \in 0..conf.period - 1
      PROVE  u.chain[s] = ShiftBy(v.chain[s], d)
  BY <1>2, <1>4, <1>5, <1>6 DEF Shifted
<1> QED
  BY <1>8, <1>9 DEF Shifted, u, v

(* The same for the long-distance index.                                   *)
LEMMA ShiftLdmInsert ==
  ASSUME NEW t \in Tabs, NEW r \in Tabs, NEW k \in Keys,
         NEW d \in Nat, NEW a \in Nat, Shifted(t, r, d)
  PROVE  Shifted(ldm_insert(t, k, a), ldm_insert(r, k, d + a), d)
<1> DEFINE u == ldm_insert(t, k, a)
           v == ldm_insert(r, k, d + a)
<1>1. d + a \in Nat
  OBVIOUS
<1>2. t.ldm \in [Keys -> Int] /\ r.ldm \in [Keys -> Int]
  BY TabsFields
<1>3. u.head = t.head /\ u.chain = t.chain /\ u.ldm = [t.ldm EXCEPT ![k] = a]
  BY LdmInsertFacts
<1>4. v.head = r.head /\ v.chain = r.chain /\ v.ldm = [r.ldm EXCEPT ![k] = d + a]
  BY <1>1, LdmInsertFacts
<1>5. ShiftBy(d + a, d) = a
  BY DEF ShiftBy
<1> HIDE DEF u, v
<1>6. ASSUME NEW j \in Keys
      PROVE  u.head[j] = ShiftBy(v.head[j], d) /\ u.ldm[j] = ShiftBy(v.ldm[j], d)
  BY <1>2, <1>3, <1>4, <1>5 DEF Shifted
<1>7. \A s \in 0..conf.period - 1 : u.chain[s] = ShiftBy(v.chain[s], d)
  BY <1>3, <1>4 DEF Shifted
<1> QED
  BY <1>6, <1>7 DEF Shifted, u, v

(* Reducing every entry is dropping more of the non-sliding tables.        *)
LEMMA ShiftReduce ==
  ASSUME NEW t \in Tabs, NEW r \in Tabs, NEW d \in Nat, NEW drop \in Nat,
         Shifted(t, r, d)
  PROVE  Shifted(reduce_index(t, drop), r, d + drop)
<1> DEFINE u == reduce_index(t, drop)
<1>1. ASSUME NEW e \in Int
      PROVE  reduce_index_entry(ShiftBy(e, d), drop) = ShiftBy(e, d + drop)
  BY DEF reduce_index_entry, ShiftBy
<1>2. /\ r.head \in [Keys -> Int] /\ r.ldm \in [Keys -> Int]
      /\ r.chain \in [0..conf.period - 1 -> Int]
  BY TabsFields
<1>3. /\ \A k \in Keys : /\ u.head[k] = reduce_index_entry(t.head[k], drop)
                         /\ u.ldm[k] = reduce_index_entry(t.ldm[k], drop)
      /\ \A s \in 0..conf.period - 1 : u.chain[s] = reduce_index_entry(t.chain[s], drop)
  BY ReduceFacts
<1> HIDE DEF u
<1>4. ASSUME NEW k \in Keys
      PROVE  /\ u.head[k] = ShiftBy(r.head[k], d + drop)
             /\ u.ldm[k] = ShiftBy(r.ldm[k], d + drop)
  BY <1>1, <1>2, <1>3 DEF Shifted
<1>5. ASSUME NEW s \in 0..conf.period - 1
      PROVE  u.chain[s] = ShiftBy(r.chain[s], d + drop)
  BY <1>1, <1>2, <1>3 DEF Shifted
<1> QED
  BY <1>4, <1>5 DEF Shifted, u

-----------------------------------------------------------------------------
(* The same operations and what the entries point at.                      *)
LEMMA IndexInsert ==
  ASSUME conf \in Configs, NEW t \in Tabs, NEW i, NEW k \in Keys, NEW a \in Nat,
         i[a + 1] = k, Indexed(t, i, a)
  PROVE  Indexed(insert(t, k, a), i, a + 1)
<1> DEFINE u == insert(t, k, a)
           s0 == a % conf.period
<1>1. s0 \in 0..conf.period - 1
  BY ConfFacts, DivMod
<1>2. /\ t.head \in [Keys -> Int] /\ t.ldm \in [Keys -> Int]
      /\ t.chain \in [0..conf.period - 1 -> Int]
  BY TabsFields
<1>3. /\ u.head = [t.head EXCEPT ![k] = a] /\ u.ldm = t.ldm
      /\ u.chain = [t.chain EXCEPT ![s0] = t.head[k]]
  BY InsertFacts
<1> HIDE DEF u, s0
<1>4. ASSUME NEW j \in Keys
      PROVE  /\ u.head[j] >= 0 => u.head[j] < a + 1 /\ i[u.head[j] + 1] = j
             /\ u.ldm[j] >= 0 => u.ldm[j] < a + 1 /\ i[u.ldm[j] + 1] = j
  <2>1. u.head[j] = IF j = k THEN a ELSE t.head[j]
    BY <1>2, <1>3
  <2>2. t.head[j] >= 0 => t.head[j] < a /\ i[t.head[j] + 1] = j
    BY DEF Indexed
  <2>3. t.ldm[j] >= 0 => t.ldm[j] < a /\ i[t.ldm[j] + 1] = j
    BY DEF Indexed
  <2>4. t.head[j] \in Int /\ t.ldm[j] \in Int
    BY <1>2
  <2>5. CASE j = k
    BY <2>1, <2>3, <2>4, <2>5, <1>3
  <2>6. CASE j # k
    BY <2>1, <2>2, <2>3, <2>4, <2>6, <1>3
  <2> QED BY <2>5, <2>6
<1>5. ASSUME NEW s \in 0..conf.period - 1
      PROVE  u.chain[s] < a + 1
  <2>1. u.chain[s] = IF s = s0 THEN t.head[k] ELSE t.chain[s]
    BY <1>1, <1>2, <1>3
  <2>2. t.head[k] \in Int /\ t.chain[s] \in Int
    BY <1>2
  <2>3. t.head[k] < a + 1 /\ t.chain[s] < a + 1
    BY <2>2 DEF Indexed
  <2> QED BY <2>1, <2>3
<1> QED
  BY <1>4, <1>5 DEF Indexed, u

(* Passing a position without indexing it harms no entry.                  *)
LEMMA IndexLater ==
  ASSUME NEW t \in Tabs, NEW i, NEW a \in Nat, Indexed(t, i, a)
  PROVE  Indexed(t, i, a + 1)
<1>1. /\ \A k \in Keys : t.head[k] \in Int /\ t.ldm[k] \in Int
      /\ \A s \in 0..conf.period - 1 : t.chain[s] \in Int
  BY TabsFields
<1> QED
  BY <1>1 DEF Indexed

(* Indexing a position under its key in the long-distance table.           *)
LEMMA IndexLdmInsert ==
  ASSUME NEW t \in Tabs, NEW i, NEW k \in Keys, NEW a \in Nat,
         i[a + 1] = k, Indexed(t, i, a + 1)
  PROVE  Indexed(ldm_insert(t, k, a), i, a + 1)
<1> DEFINE u == ldm_insert(t, k, a)
<1>1. t.ldm \in [Keys -> Int]
  BY TabsFields
<1>2. u.head = t.head /\ u.chain = t.chain /\ u.ldm = [t.ldm EXCEPT ![k] = a]
  BY LdmInsertFacts
<1> HIDE DEF u
<1>3. ASSUME NEW j \in Keys, u.ldm[j] >= 0
      PROVE  u.ldm[j] < a + 1 /\ i[u.ldm[j] + 1] = j
  <2>1. u.ldm[j] = IF j = k THEN a ELSE t.ldm[j]
    BY <1>1, <1>2
  <2>2. CASE j = k
    BY <2>1, <2>2
  <2>3. CASE j # k
    BY <2>1, <2>3, <1>3 DEF Indexed
  <2> QED BY <2>2, <2>3
<1> QED
  BY <1>2, <1>3 DEF Indexed, u

(* Pushed bytes lie after all that is indexed.                             *)
LEMMA IndexPush ==
  ASSUME NEW t \in Tabs, NEW i \in Seq(Keys), NEW more \in Seq(Keys), NEW b \in Nat,
         b <= Len(i), Indexed(t, i, b)
  PROVE  Indexed(t, i \o more, b)
<1>1. \A k \in Keys : t.head[k] \in Int /\ t.ldm[k] \in Int
  BY TabsFields
<1>2. Len(i) \in Nat
  OBVIOUS
<1>3. ASSUME NEW c \in Int, 0 <= c, c < b
      PROVE  (i \o more)[c + 1] = i[c + 1]
  BY <1>2, <1>3
<1> QED
  BY <1>1, <1>3 DEF Indexed

(* After a slide every surviving entry points at the byte it pointed at.   *)
LEMMA IndexReduce ==
  ASSUME NEW t \in Tabs, NEW i \in Seq(Keys), NEW b \in Nat, NEW drop \in 0..b,
         b <= Len(i), Indexed(t, i, b)
  PROVE  Indexed(reduce_index(t, drop), SubSeq(i, drop + 1, Len(i)), b - drop)
<1> DEFINE u == reduce_index(t, drop)
           j == SubSeq(i, drop + 1, Len(i))
<1>1. /\ \A k \in Keys : t.head[k] \in Int /\ t.ldm[k] \in Int
      /\ \A s \in 0..conf.period - 1 : t.chain[s] \in Int
  BY TabsFields
<1>2. /\ \A k \in Keys : /\ u.head[k] = reduce_index_entry(t.head[k], drop)
                         /\ u.ldm[k] = reduce_index_entry(t.ldm[k], drop)
      /\ \A s \in 0..conf.period - 1 : u.chain[s] = reduce_index_entry(t.chain[s], drop)
  BY ReduceFacts
<1>3. Len(i) \in Nat
  OBVIOUS
<1>4. ASSUME NEW c \in Int, drop <= c, c < b
      PROVE  j[c - drop + 1] = i[c + 1]
  <2>1. c - drop + 1 \in 1..Len(i) - drop
    BY <1>3, <1>4
  <2> QED
    BY <2>1, <1>3, <1>4
<1> HIDE DEF u, j
<1>5. ASSUME NEW k \in Keys, NEW e \in Int, e >= 0 => e < b /\ i[e + 1] = k,
             reduce_index_entry(e, drop) >= 0
      PROVE  /\ reduce_index_entry(e, drop) < b - drop
             /\ j[reduce_index_entry(e, drop) + 1] = k
  <2>1. e >= drop /\ reduce_index_entry(e, drop) = e - drop
    BY <1>5 DEF reduce_index_entry
  <2>2. e < b /\ i[e + 1] = k
    BY <1>5, <2>1
  <2>3. j[e - drop + 1] = i[e + 1]
    BY <1>4, <2>1, <2>2
  <2> QED
    BY <2>1, <2>2, <2>3
<1>6. ASSUME NEW k \in Keys
      PROVE  /\ u.head[k] >= 0 => u.head[k] < b - drop /\ j[u.head[k] + 1] = k
             /\ u.ldm[k] >= 0 => u.ldm[k] < b - drop /\ j[u.ldm[k] + 1] = k
  <2>1. u.head[k] >= 0 => u.head[k] < b - drop /\ j[u.head[k] + 1] = k
    BY <1>1, <1>2, <1>5 DEF Indexed
  <2>2. u.ldm[k] >= 0 => u.ldm[k] < b - drop /\ j[u.ldm[k] + 1] = k
    BY <1>1, <1>2, <1>5 DEF Indexed
  <2> QED BY <2>1, <2>2
<1>7. ASSUME NEW s \in 0..conf.period - 1
      PROVE  u.chain[s] < b - drop
  <2>1. t.chain[s] \in Int /\ t.chain[s] < b
    BY <1>1 DEF Indexed
  <2>2. \A e \in Int : e < b => reduce_index_entry(e, drop) < b - drop
    BY DEF reduce_index_entry
  <2> QED BY <2>1, <2>2, <1>2
<1> QED
  BY <1>6, <1>7 DEF Indexed, u, j

-----------------------------------------------------------------------------
(* Every initial state satisfies the invariant.                            *)
LEMMA InitHolds == Init => IInv
<1> SUFFICES ASSUME Init PROVE IInv
  OBVIOUS
<1> DEFINE t == EmptyTables(conf.period)
<1>1. conf \in Configs
  BY DEF Init
<1>2. /\ conf.block \in Nat \ {0} /\ conf.window \in Nat \ {0} /\ conf.period \in Nat \ {0}
      /\ HistoryBound \in Nat
  BY <1>1, ConfFacts
<1>3. /\ t \in Tabs
      /\ \A k \in Keys : t.head[k] = -1 /\ t.ldm[k] = -1
      /\ \A s \in 0..conf.period - 1 : t.chain[s] = -1
  <2> DEFINE h == [k \in Keys |-> -1]
             c == [s \in 0..conf.period - 1 |-> -1]
  <2>1. t = [head |-> h, chain |-> c, ldm |-> h]
    BY DEF EmptyTables
  <2>2. h \in [Keys -> Int] /\ c \in [0..conf.period - 1 -> Int]
    OBVIOUS
  <2>3. /\ \A k \in Keys : h[k] = -1
        /\ \A s \in 0..conf.period - 1 : c[s] = -1
    OBVIOUS
  <2> HIDE DEF h, c
  <2>4. [head |-> h, chain |-> c, ldm |-> h] \in Tabs
    BY <2>2, TabsRecord
  <2> QED BY <2>1, <2>3, <2>4
<1> HIDE DEF t
<1>4. /\ tables = t /\ ref = t /\ pc = "open" /\ input = <<>> /\ Len(input) = 0
      /\ dropped = 0 /\ emitted = 0
  BY DEF Init, t
<1>5. TypeOK
  <2>1. last \in BOOLEAN /\ pc \in {"open", "parse", "closed"}
    BY Zenon DEF Init
  <2>2. /\ input \in Seq(Keys) /\ out \in Seq(Block) /\ taken \in Seq(Block)
    BY DEF Init
  <2>3. /\ pushed \in Nat /\ dropped \in Nat /\ emitted \in dropped..total
        /\ stop \in 0..Len(input) + dropped /\ ip \in 0..stop
    BY <1>4 DEF Init, total
  <2> QED
    BY <1>1, <1>3, <1>4, <2>1, <2>2, <2>3, Zenon DEF TypeOK
<1>6. Aligned /\ WindowKept
  BY <1>2, <1>4, DivMod DEF Aligned, WindowKept
<1>7. TablesShifted
  BY <1>3, <1>4 DEF TablesShifted, Shifted, ShiftBy
<1>8. Indexed(tables, input, Behind)
  BY <1>3, <1>4 DEF Indexed, Behind
<1>9. Retained
  BY <1>2, <1>4 DEF Retained, total
<1> QED
  BY <1>5, <1>6, <1>7, <1>8, <1>9 DEF IInv

-----------------------------------------------------------------------------
(* The cursors of TypeOK, and what it says of the tables.                  *)
Cursors ==
  /\ pushed \in Nat
  /\ dropped \in Nat /\ emitted \in dropped..total
  /\ stop \in 0..Len(input) + dropped /\ ip \in 0..stop
  /\ pc = "parse" => ip >= emitted - dropped /\ stop <= Len(input)

(* The configuration never changes, so what is said of the next state's    *)
(* tables is said with this state's.                                       *)
LEMMA NextTables ==
  ASSUME conf' = conf, tables' \in Tabs, ref' \in Tabs,
         Shifted(tables', ref', dropped'), Indexed(tables', input', Behind')
  PROVE  /\ tables' \in Tabs' /\ ref' \in Tabs'
         /\ TablesShifted' /\ Indexed(tables, input, Behind)'
BY DEF Tabs, TablesShifted, Shifted, Indexed

(* The invariant of the next state, from its parts.                        *)
LEMMA NextHolds ==
  ASSUME IInv, conf' = conf, pc' \in {"open", "parse", "closed"}, last' \in BOOLEAN,
         input' \in Seq(Keys), out' \in Seq(Block), taken' \in Seq(Block),
         Cursors', Aligned', WindowKept', Retained',
         tables' \in Tabs, ref' \in Tabs,
         Shifted(tables', ref', dropped'), Indexed(tables', input', Behind')
  PROVE  IInv'
<1>1. /\ tables' \in Tabs' /\ ref' \in Tabs'
      /\ TablesShifted' /\ Indexed(tables, input, Behind)'
  BY NextTables
<1>2. conf' \in Configs
  BY DEF IInv, TypeOK
<1>3. TypeOK'
  BY <1>1, <1>2, Zenon DEF TypeOK, Cursors
<1> QED
  BY <1>1, <1>3, Zenon DEF IInv

(* The parts of the invariant in this state.                               *)
LEMMA Typed ==
  ASSUME IInv
  PROVE  /\ conf \in Configs /\ pc \in {"open", "parse", "closed"} /\ last \in BOOLEAN
         /\ input \in Seq(Keys) /\ out \in Seq(Block) /\ taken \in Seq(Block)
         /\ Cursors /\ Aligned /\ WindowKept /\ Retained
         /\ tables \in Tabs /\ ref \in Tabs
         /\ Shifted(tables, ref, dropped) /\ Indexed(tables, input, Behind)
BY Zenon DEF IInv, TypeOK, Cursors, TablesShifted

(* The cursors as ordered numbers.                                         *)
LEMMA CursorFacts ==
  ASSUME IInv
  PROVE  /\ Len(input) \in Nat /\ dropped \in Nat /\ emitted \in Nat /\ pushed \in Nat
         /\ stop \in Nat /\ ip \in Nat /\ total \in Nat
         /\ dropped <= emitted /\ emitted <= total /\ total = dropped + Len(input)
         /\ ip <= stop /\ stop <= Len(input) + dropped
         /\ Behind \in Nat /\ Behind <= Len(input)
<1>1. Len(input) \in Nat /\ total = dropped + Len(input)
  BY Typed DEF total
<1>2. /\ dropped \in Nat /\ emitted \in dropped..total
      /\ stop \in 0..Len(input) + dropped /\ ip \in 0..stop /\ pushed \in Nat
      /\ pc = "parse" => ip >= emitted - dropped /\ stop <= Len(input)
  BY Typed DEF Cursors
<1>3. Behind \in Nat /\ Behind <= Len(input)
  BY <1>1, <1>2 DEF Behind
<1> QED
  BY <1>1, <1>2, <1>3

-----------------------------------------------------------------------------
(* push extends the tail by at most a block.                               *)
LEMMA PushStep ==
  ASSUME IInv, NEW n \in 1..conf.block, NEW part \in [1..n -> Keys], Push(part)
  PROVE  IInv'
<1>1. /\ pc = "open" /\ Drained /\ Len(part) <= conf.block
      /\ input' = input \o part /\ pushed' = pushed + Len(part)
      /\ conf' = conf /\ pc' = pc /\ dropped' = dropped /\ emitted' = emitted
      /\ ip' = ip /\ stop' = stop /\ last' = last /\ tables' = tables /\ ref' = ref
      /\ out' = out /\ taken' = taken
  BY DEF Push
<1>2. conf \in Configs /\ conf.block \in Nat \ {0} /\ HistoryBound \in Nat
  BY Typed, ConfFacts
<1>3. part \in Seq(Keys) /\ Len(part) \in Nat
  <2>1. n \in Nat
    BY <1>2
  <2> QED BY <2>1
<1>4. input' \in Seq(Keys) /\ Len(input') = Len(input) + Len(part)
  BY <1>1, <1>3, Typed
<1>5. Behind' = Behind
  BY <1>1 DEF Behind
<1>6. Indexed(tables', input', Behind')
  BY <1>1, <1>3, <1>5, Typed, CursorFacts, IndexPush
<1>7. Cursors'
  BY <1>1, <1>3, <1>4, CursorFacts DEF Cursors, total
<1>8. HistoryBound' = HistoryBound
  BY <1>1 DEF HistoryBound
<1>9. Retained'
  <2>1. emitted - dropped <= HistoryBound
    BY <1>1, Typed DEF Retained
  <2>2. total - emitted <= conf.block
    BY <1>1 DEF Drained
  <2>3. /\ total' = dropped + Len(input') /\ total = dropped + Len(input)
        /\ dropped \in Nat /\ emitted \in Nat /\ Len(input) \in Nat
    BY <1>1, CursorFacts, Zenon DEF total
  <2>4. total' - emitted <= 2 * conf.block /\ Len(input') <= HistoryBound + 2 * conf.block
    <3>1. Len(part) <= conf.block
      BY <1>1
    <3> QED
      BY <3>1, <1>2, <1>3, <1>4, <2>1, <2>2, <2>3
  <2> QED
    BY <1>1, <1>8, <2>1, <2>4 DEF Retained
<1>10. Aligned' /\ WindowKept'
  BY <1>1, Typed DEF Aligned, WindowKept
<1> QED
  BY <1>1, <1>4, <1>6, <1>7, <1>9, <1>10, Typed, NextHolds

(* The start of emit_block, for drain_full_blocks and finish.              *)
LEMMA EmitStep ==
  ASSUME IInv, pc = "open", NEW end \in emitted..total, NEW is_last \in BOOLEAN,
         emit_block(end, is_last)
  PROVE  IInv'
<1>1. /\ pc' = "parse" /\ ip' = emitted - dropped /\ stop' = end - dropped
      /\ conf' = conf /\ input' = input /\ dropped' = dropped /\ emitted' = emitted
      /\ tables' = tables /\ ref' = ref /\ out' = out /\ taken' = taken /\ pushed' = pushed
  BY DEF emit_block
<1>2. last' \in BOOLEAN
  BY Zenon DEF emit_block
<1>3. Behind' = Behind
  BY <1>1 DEF Behind
<1>4. total' = total /\ HistoryBound' = HistoryBound
  BY <1>1 DEF total, HistoryBound
<1>5. Cursors'
  BY <1>1, <1>4, CursorFacts DEF Cursors
<1>6. Retained'
  BY <1>1, <1>4, Typed DEF Retained
<1>7. Aligned' /\ WindowKept'
  BY <1>1, Typed DEF Aligned, WindowKept
<1>8. /\ tables' \in Tabs /\ ref' \in Tabs
      /\ Shifted(tables', ref', dropped') /\ Indexed(tables', input', Behind')
      /\ input' \in Seq(Keys) /\ out' \in Seq(Block) /\ taken' \in Seq(Block)
  BY <1>1, <1>3, Typed, Zenon
<1> QED
  BY <1>1, <1>2, <1>5, <1>6, <1>7, <1>8, NextHolds

(* drain_full_blocks starts a full block.                                  *)
LEMMA DrainStep == IInv /\ drain_full_blocks => IInv'
<1> SUFFICES ASSUME IInv, drain_full_blocks PROVE IInv'
  OBVIOUS
<1>1. pc = "open" /\ ~Drained /\ emit_block(emitted + conf.block, FALSE)
  BY DEF drain_full_blocks
<1>2. conf.block \in Nat \ {0}
  BY Typed, ConfFacts
<1>3. emitted + conf.block \in emitted..total
  BY <1>1, <1>2, CursorFacts DEF Drained
<1> QED
  BY <1>1, <1>3, EmitStep

(* take_output leaves the encoder as it is.                                *)
LEMMA TakeStep == IInv /\ take_output => IInv'
<1> SUFFICES ASSUME IInv, take_output PROVE IInv'
  OBVIOUS
<1>1. /\ conf' = conf /\ pc' = pc /\ input' = input /\ dropped' = dropped
      /\ emitted' = emitted /\ ip' = ip /\ stop' = stop /\ last' = last
      /\ tables' = tables /\ ref' = ref /\ pushed' = pushed
  BY DEF take_output
<1>2. taken' \in Seq(Block) /\ out' \in Seq(Block)
  BY Typed DEF take_output
<1>3. Behind' = Behind /\ total' = total /\ HistoryBound' = HistoryBound
  BY <1>1 DEF Behind, total, HistoryBound
<1>4. Cursors' /\ Retained' /\ Aligned' /\ WindowKept'
  BY <1>1, <1>3, Typed, Zenon DEF Cursors, Retained, Aligned, WindowKept
<1> QED
  BY <1>1, <1>2, <1>3, <1>4, Typed, NextHolds, Zenon

(* finish starts the last block or writes the empty one.                   *)
LEMMA FinishStep == IInv /\ finish => IInv'
<1> SUFFICES ASSUME IInv, finish PROVE IInv'
  OBVIOUS
<1>1. pc = "open"
  BY DEF finish
<1>2. CASE total # 0
  <2>1. emit_block(total, TRUE)
    BY <1>2 DEF finish
  <2>2. total \in emitted..total /\ TRUE \in BOOLEAN
    BY CursorFacts
  <2> QED
    BY <1>1, <2>1, <2>2, EmitStep
<1>3. CASE total = 0
  <2>1. /\ conf' = conf /\ pc' = "closed" /\ input' = input /\ dropped' = dropped
        /\ emitted' = emitted /\ ip' = ip /\ stop' = stop /\ last' = last
        /\ tables' = tables /\ ref' = ref /\ pushed' = pushed /\ taken' = taken
        /\ out' = Append(out, [from |-> 0, to |-> 0, last |-> TRUE])
    BY <1>3 DEF finish
  <2>2. taken' \in Seq(Block) /\ out' \in Seq(Block)
    <3>1. [from |-> 0, to |-> 0, last |-> TRUE] \in Block
      BY DEF Block
    <3> QED BY <2>1, <3>1, Typed
  <2>3. Behind' = Behind /\ total' = total /\ HistoryBound' = HistoryBound
    BY <1>1, <2>1 DEF Behind, total, HistoryBound
  <2>4. Cursors' /\ Retained' /\ Aligned' /\ WindowKept'
    BY <1>1, <2>1, <2>3, Typed, Zenon DEF Cursors, Retained, Aligned, WindowKept
  <2> QED
    BY <2>1, <2>2, <2>3, <2>4, Typed, NextHolds, Zenon
<1> QED
  BY <1>2, <1>3

-----------------------------------------------------------------------------
(* One position of the parse, indexed in both encoders.                    *)
LEMMA ParseStep ==
  ASSUME IInv, NEW indexed \in BOOLEAN, NEW long \in BOOLEAN, ParsePosition(indexed, long)
  PROVE  IInv'
<1> DEFINE k == input[ip + 1]
           t1 == IF indexed THEN insert(tables, k, ip) ELSE tables
           r1 == IF indexed THEN insert(ref, k, dropped + ip) ELSE ref
<1>1. /\ pc = "parse" /\ ip < stop /\ ip' = ip + 1
      /\ conf' = conf /\ pc' = pc /\ input' = input /\ dropped' = dropped
      /\ emitted' = emitted /\ stop' = stop /\ last' = last
      /\ out' = out /\ taken' = taken /\ pushed' = pushed
  BY DEF ParsePosition
<1>2. /\ tables' = IF long THEN ldm_insert(t1, k, ip) ELSE t1
      /\ ref' = IF long THEN ldm_insert(r1, k, dropped + ip) ELSE r1
  BY DEF ParsePosition
<1>3. /\ ip \in Nat /\ dropped \in Nat /\ dropped + ip \in Nat
      /\ stop \in Nat /\ Len(input) \in Nat /\ stop <= Len(input)
  BY <1>1, CursorFacts, Typed DEF Cursors
<1>4. k \in Keys
  BY <1>1, <1>3, Typed
<1>5. /\ conf \in Configs /\ tables \in Tabs /\ ref \in Tabs /\ Shifted(tables, ref, dropped)
      /\ dropped % conf.period = 0 /\ Indexed(tables, input, ip)
  BY <1>1, Typed DEF Behind, Aligned
<1>6. /\ t1 \in Tabs /\ r1 \in Tabs /\ Shifted(t1, r1, dropped)
      /\ Indexed(t1, input, ip + 1)
  <2> HIDE DEF k
  <2>1. CASE indexed
    BY <2>1, <1>3, <1>4, <1>5, InsertFacts, ShiftInsert, IndexInsert DEF k
  <2>2. CASE ~indexed
    BY <2>2, <1>3, <1>5, IndexLater
  <2> QED BY <2>1, <2>2
<1>7. input[ip + 1] = k
  OBVIOUS
<1> HIDE DEF k, t1, r1
<1>8. /\ tables' \in Tabs /\ ref' \in Tabs /\ Shifted(tables', ref', dropped)
      /\ Indexed(tables', input, ip + 1)
  <2>1. CASE long
    BY <2>1, <1>2, <1>3, <1>4, <1>6, <1>7, LdmInsertFacts, ShiftLdmInsert, IndexLdmInsert
  <2>2. CASE ~long
    BY <2>2, <1>2, <1>6, Zenon
  <2> QED BY <2>1, <2>2
<1>9. Behind' = ip + 1 /\ total' = total /\ HistoryBound' = HistoryBound
  BY <1>1 DEF Behind, total, HistoryBound
<1>10. Cursors'
  BY <1>1, <1>3, <1>9, CursorFacts, Typed DEF Cursors
<1>11. Retained' /\ Aligned' /\ WindowKept'
  BY <1>1, <1>9, Typed, Zenon DEF Retained, Aligned, WindowKept
<1>12. /\ Shifted(tables', ref', dropped') /\ Indexed(tables', input', Behind')
       /\ input' \in Seq(Keys) /\ out' \in Seq(Block) /\ taken' \in Seq(Block)
       /\ last' \in BOOLEAN /\ pc' \in {"open", "parse", "closed"}
  BY <1>1, <1>8, <1>9, Typed, Zenon
<1> QED
  BY <1>1, <1>8, <1>10, <1>11, <1>12, NextHolds, Zenon

(* The end of a block and the slide after it.                              *)
LEMMA EndStep == IInv /\ EndBlock => IInv'
<1> SUFFICES ASSUME IInv, EndBlock PROVE IInv'
  OBVIOUS
<1> DEFINE b == [from |-> emitted, to |-> dropped + stop, last |-> last]
<1>1. /\ pc = "parse" /\ ip = stop /\ emitted' = dropped + stop /\ out' = Append(out, b)
      /\ conf' = conf /\ ip' = ip /\ stop' = stop /\ last' = last
      /\ taken' = taken /\ pushed' = pushed /\ ref' = ref
  BY DEF EndBlock
<1>2. out' \in Seq(Block)
  <2>1. emitted \in Nat /\ dropped + stop \in Nat
    BY CursorFacts
  <2>2. last \in BOOLEAN /\ out \in Seq(Block)
    BY Typed
  <2>3. b \in Block
    BY <2>1, <2>2 DEF Block
  <2> HIDE DEF b
  <2> QED
    BY <1>1, <2>2, <2>3
<1>3. /\ stop \in Nat /\ Len(input) \in Nat /\ stop <= Len(input)
      /\ dropped \in Nat /\ emitted \in Nat /\ emitted - dropped <= stop
      /\ ip \in Nat /\ pushed \in Nat
  BY <1>1, CursorFacts, Typed DEF Cursors
<1>4. /\ conf \in Configs /\ tables \in Tabs /\ ref \in Tabs /\ Shifted(tables, ref, dropped)
      /\ dropped % conf.period = 0 /\ Indexed(tables, input, stop) /\ input \in Seq(Keys)
      /\ last \in BOOLEAN /\ taken \in Seq(Block)
  BY <1>1, Typed DEF Behind, Aligned
<1>5. /\ conf.block \in Nat \ {0} /\ conf.window \in Nat \ {0} /\ conf.period \in Nat \ {0}
      /\ HistoryBound \in Nat /\ HistoryBound' = HistoryBound
  BY <1>1, <1>4, ConfFacts DEF HistoryBound
<1>6. CASE last
  <2>1. pc' = "closed" /\ input' = input /\ dropped' = dropped /\ tables' = tables
    BY <1>6 DEF EndBlock
  <2>2. Behind' = stop /\ total' = total
    BY <1>1, <1>3, <2>1 DEF Behind, total
  <2>3. Cursors'
    BY <1>1, <1>3, <2>1, CursorFacts DEF Cursors, total
  <2>4. Len(input) <= HistoryBound + 2 * conf.block
    BY Typed DEF Retained
  <2>5. Retained'
    BY <1>1, <1>5, <2>1, <2>4 DEF Retained
  <2>6. WindowKept'
    <3>1. dropped = 0 \/ dropped + conf.window <= emitted
      BY Typed DEF WindowKept
    <3> QED BY <3>1, <1>1, <1>3, <1>5, <2>1 DEF WindowKept
  <2>7. Aligned'
    BY <1>1, <1>4, <2>1 DEF Aligned
  <2>8. Shifted(tables', ref', dropped') /\ Indexed(tables', input', Behind')
    BY <1>1, <1>4, <2>1, <2>2, Zenon
  <2> QED
    BY <1>1, <1>2, <1>4, <2>1, <2>3, <2>5, <2>6, <2>7, <2>8, NextHolds, Zenon
<1>7. CASE ~last
  <2> DEFINE drop == SlideDrop(stop)
  <2>1. /\ pc' = "open" /\ dropped' = dropped + drop
        /\ tables' = reduce_index(tables, drop)
        /\ input' = SubSeq(input, drop + 1, Len(input))
    BY <1>7 DEF EndBlock, maybe_slide
  <2>2. /\ drop \in 0..stop /\ drop % conf.period = 0
        /\ drop = 0 \/ drop + conf.window <= stop
        /\ stop - drop <= HistoryBound
    BY <1>3, <1>4, SlideDropFacts
  <2> HIDE DEF drop
  <2>3. drop \in Nat
    BY <1>3, <2>2
  <2>4. input' \in Seq(Keys) /\ Len(input') = Len(input) - drop
    BY <1>3, <1>4, <2>1, <2>2
  <2>5. Behind' = stop - drop
    BY <1>1, <1>3, <2>1, <2>2 DEF Behind
  <2>6. tables' \in Tabs
    BY <1>4, <2>1, <2>3, ReduceFacts
  <2>7. Shifted(tables', ref', dropped')
    BY <1>1, <1>3, <1>4, <2>1, <2>3, ShiftReduce
  <2>8. Indexed(tables', input', Behind')
    BY <1>3, <1>4, <2>1, <2>2, <2>5, IndexReduce
  <2>9. total' = total /\ total = dropped + Len(input)
    <3>1. /\ total' = dropped' + Len(input') /\ total = dropped + Len(input)
          /\ dropped' = dropped + drop
      BY <2>1, Zenon DEF total
    <3> QED BY <3>1, <1>3, <2>3, <2>4
  <2>10. Cursors'
    <3>1. dropped' \in Nat /\ emitted' \in dropped'..total'
      BY <1>1, <1>3, <2>1, <2>2, <2>9
    <3>2. stop' \in 0..Len(input') + dropped' /\ ip' \in 0..stop' /\ pushed' \in Nat
      <4>1. dropped' = dropped + drop /\ stop' = stop /\ ip' = stop /\ pushed' = pushed
        BY <1>1, <2>1, Zenon
      <4> QED BY <4>1, <1>3, <2>2, <2>4
    <3> QED BY <2>1, <3>1, <3>2 DEF Cursors
  <2>11. Aligned'
    <3>1. (dropped + drop) % conf.period = 0
      BY <1>3, <1>4, <1>5, <2>2, <2>3, SumAligned
    <3> QED BY <3>1, <1>1, <2>1 DEF Aligned
  <2>12. WindowKept'
    <3>1. dropped = 0 \/ dropped + conf.window <= emitted
      BY Typed DEF WindowKept
    <3>2. dropped + drop = 0 \/ dropped + drop + conf.window <= dropped + stop
      BY <3>1, <1>3, <1>5, <2>2
    <3> QED BY <3>2, <1>1, <2>1 DEF WindowKept
  <2>13. Retained'
    <3>1. total - emitted <= 2 * conf.block
      BY <1>1, Typed DEF Retained
    <3>2. /\ (dropped + stop) - (dropped + drop) <= HistoryBound
          /\ total - (dropped + stop) <= 2 * conf.block
      BY <3>1, <1>3, <1>5, <2>2, <2>3, <2>9
    <3>3. Len(input') <= HistoryBound + 2 * conf.block
      BY <3>2, <1>3, <1>5, <2>2, <2>3, <2>4, <2>9
    <3> QED
      BY <3>2, <3>3, <1>1, <1>5, <2>1, <2>9 DEF Retained
  <2> QED
    BY <1>1, <1>2, <1>4, <2>1, <2>4, <2>6, <2>7, <2>8, <2>10, <2>11, <2>12, <2>13,
       NextHolds, Zenon
<1> QED
  BY <1>4, <1>6, <1>7

(* A step that changes nothing.                                            *)
LEMMA StutterStep == IInv /\ UNCHANGED vars => IInv'
<1> SUFFICES ASSUME IInv, UNCHANGED vars PROVE IInv'
  OBVIOUS
<1>1. /\ conf' = conf /\ pc' = pc /\ input' = input /\ dropped' = dropped
      /\ emitted' = emitted /\ ip' = ip /\ stop' = stop /\ last' = last
      /\ tables' = tables /\ ref' = ref /\ pushed' = pushed /\ taken' = taken /\ out' = out
  BY DEF vars
<1>2. Behind' = Behind /\ total' = total /\ HistoryBound' = HistoryBound
  BY <1>1 DEF Behind, total, HistoryBound
<1>3. Cursors' /\ Retained' /\ Aligned' /\ WindowKept'
  BY <1>1, <1>2, Typed, Zenon DEF Cursors, Retained, Aligned, WindowKept
<1> QED
  BY <1>1, <1>2, <1>3, Typed, NextHolds, Zenon

(* The inductive invariant holds of every state: the tables are those of   *)
(* an encoder that never slides, shifted by an aligned base that stays a   *)
(* window behind what was emitted.                                         *)
THEOREM Invariance == Spec => []IInv
<1>1. Init => IInv
  BY InitHolds
<1>2. IInv /\ [Next]_vars => IInv'
  <2> SUFFICES ASSUME IInv, [Next]_vars PROVE IInv'
    OBVIOUS
  <2>1. ASSUME NEW n \in 1..conf.block, NEW part \in [1..n -> Keys], Push(part) PROVE IInv'
    BY <2>1, PushStep
  <2>2. CASE drain_full_blocks
    BY <2>2, DrainStep
  <2>3. ASSUME NEW indexed \in BOOLEAN, NEW long \in BOOLEAN, ParsePosition(indexed, long)
        PROVE  IInv'
    BY <2>3, ParseStep
  <2>4. CASE EndBlock
    BY <2>4, EndStep
  <2>5. CASE take_output
    BY <2>5, TakeStep
  <2>6. CASE finish
    BY <2>6, FinishStep
  <2>7. CASE UNCHANGED vars
    BY <2>7, StutterStep
  <2> QED
    BY <2>1, <2>2, <2>3, <2>4, <2>5, <2>6, <2>7, Zenon DEF Next
<1> QED
  BY <1>1, <1>2, PTL DEF Spec

(* TypeOK, with the order of the cursors: no usize subtraction of          *)
(* stream.rs (total - emitted, emitted - dropped, history - max_offset)    *)
(* wraps, for any configuration and any sequence of pushes.                *)
THEOREM TypeCorrect == Spec => []TypeOK
<1>1. IInv => TypeOK
  BY DEF IInv
<1> QED
  BY <1>1, Invariance, PTL

(* IndexMatchesInput: the tables never name a byte that was dropped or is  *)
(* yet to come, and the heads name bytes of their own key.                 *)
THEOREM IndexSound == Spec => []IndexMatchesInput
<1>1. IInv => IndexMatchesInput
  BY Zenon DEF IInv, Indexed, Behind, IndexMatchesInput
<1> QED
  BY <1>1, Invariance, PTL

(* RetentionBounded: maybe_slide keeps the retained input within the       *)
(* larger of two windows and a window plus a ring, plus the blocks of the  *)
(* tail, whatever is pushed.                                               *)
THEOREM BoundedRetention == Spec => []RetentionBounded
<1>1. ASSUME IInv PROVE RetentionBounded
  <2>1. /\ pc # "closed" => emitted - dropped <= HistoryBound
        /\ Len(input) <= HistoryBound + 2 * conf.block
    BY <1>1, Typed DEF Retained
  <2>2. ASSUME pc = "open", Drained PROVE Len(input) <= HistoryBound + conf.block
    <3>1. conf.block \in Nat \ {0} /\ HistoryBound \in Nat
      BY <1>1, Typed, ConfFacts
    <3>2. emitted - dropped <= HistoryBound /\ total - emitted <= conf.block
      BY <2>1, <2>2 DEF Drained
    <3> QED BY <1>1, <3>1, <3>2, CursorFacts
  <2> QED
    BY <2>1, <2>2 DEF RetentionBounded
<1> QED
  BY <1>1, Invariance, PTL

(* A finder's view from relative position a and from the absolute d + a:   *)
(* an entry lost to the slide was out of reach.                            *)
LEMMA SameView ==
  ASSUME conf \in Configs, NEW e \in Int, NEW d \in Nat, NEW a \in Nat,
         d = 0 \/ conf.window <= a
  PROVE  /\ find_first(ShiftBy(e, d), a) = find_first(e, d + a)
         /\ generate(ShiftBy(e, d), a) = generate(e, d + a)
<1>1. conf.window \in Nat \ {0} /\ conf.reach \in Nat \ {0} /\ conf.reach <= conf.window
  BY ConfFacts
<1>2. CASE e < d
  <2>1. ShiftBy(e, d) = -1
    BY <1>2 DEF ShiftBy
  <2>2. e < 0 \/ (d + a) - e > conf.window
    BY <1>1, <1>2
  <2> QED
    BY <1>1, <2>1, <2>2 DEF find_first, generate
<1>3. CASE e >= d
  <2>1. ShiftBy(e, d) = e - d
    BY <1>3 DEF ShiftBy
  <2> QED
    BY <1>1, <1>3, <2>1 DEF find_first, generate
<1> QED
  BY <1>2, <1>3

(* The same along the chain: an aligned base keeps the ring slots.         *)
LEMMA SameWalk ==
  ASSUME conf \in Configs, NEW t \in Tabs, NEW r \in Tabs, NEW d \in Nat, NEW a \in Nat,
         NEW off \in Nat, off <= a, d % conf.period = 0, d = 0 \/ conf.window <= a,
         Shifted(t, r, d)
  PROVE  find_next(t.chain, a, off) = find_next(r.chain, d + a, off)
<1> DEFINE c == a - off
           x == t.chain[c % conf.period]
           y == r.chain[c % conf.period]
<1>1. /\ conf.window \in Nat \ {0} /\ conf.reach \in Nat \ {0} /\ conf.reach <= conf.window
      /\ conf.period \in Nat \ {0}
  BY ConfFacts
<1>2. c \in Nat /\ (d + a) - off = d + c
  OBVIOUS
<1> HIDE DEF c
<1>3. (d + c) % conf.period = c % conf.period /\ c % conf.period \in 0..conf.period - 1
  <2>1. (d + c) % conf.period = c % conf.period
    BY <1>1, <1>2, SameSlot
  <2>2. c % conf.period \in 0..conf.period - 1
    BY <1>1, <1>2, DivMod
  <2> QED BY <2>1, <2>2
<1>4. y \in Int /\ x = ShiftBy(y, d)
  BY <1>3, TabsFields DEF Shifted
<1>5. /\ find_next(t.chain, a, off) = IF x < 0 \/ x >= c \/ a - x > conf.reach THEN 0 ELSE a - x
      /\ find_next(r.chain, d + a, off)
           = IF y < 0 \/ y >= d + c \/ (d + a) - y > conf.reach THEN 0 ELSE (d + a) - y
  <2>1. a - off = c
    BY DEF c
  <2> QED BY <2>1, <1>2, <1>3 DEF find_next
<1> HIDE DEF x, y
<1>6. CASE y < d
  BY <1>1, <1>2, <1>4, <1>5, <1>6 DEF ShiftBy
<1>7. CASE y >= d
  BY <1>1, <1>2, <1>4, <1>5, <1>7 DEF ShiftBy
<1> QED
  BY <1>4, <1>6, <1>7

(* SlideTransparent: what maybe_slide drops and how it reduces the tables  *)
(* never changes what ChainState::find, LdmState::generate or the repeat   *)
(* probe can offer, for every window, ring, input and schedule of pushes.  *)
THEOREM SlidesInvisible == Spec => []SlideTransparent
<1>1. ASSUME IInv PROVE SlideTransparent
  <2> SUFFICES ASSUME pc = "parse", ip < stop
               PROVE  LET k == input[ip + 1]
                      IN  /\ find_first(tables.head[k], ip) = find_first(ref.head[k], dropped + ip)
                          /\ \A d \in 1..conf.reach : d <= ip =>
                               find_next(tables.chain, ip, d)
                                 = find_next(ref.chain, dropped + ip, d)
                          /\ generate(tables.ldm[k], ip) = generate(ref.ldm[k], dropped + ip)
                          /\ \A off \in 1..conf.window : off <= ip <=> off <= dropped + ip
    BY DEF SlideTransparent
  <2> DEFINE k == input[ip + 1]
  <2>1. /\ ip \in Nat /\ dropped \in Nat /\ emitted \in Nat /\ stop \in Nat
        /\ Len(input) \in Nat /\ stop <= Len(input) /\ emitted - dropped <= ip
    BY <1>1, CursorFacts, Typed DEF Cursors
  <2>2. k \in Keys
    BY <1>1, <2>1, Typed
  <2>3. /\ conf \in Configs /\ tables \in Tabs /\ ref \in Tabs
        /\ Shifted(tables, ref, dropped) /\ dropped % conf.period = 0
    BY <1>1, Typed DEF Aligned
  <2>4. conf.window \in Nat \ {0} /\ conf.reach \in Nat \ {0}
    BY <2>3, ConfFacts
  <2>5. dropped = 0 \/ conf.window <= ip
    <3>1. dropped = 0 \/ dropped + conf.window <= emitted
      BY <1>1, Typed DEF WindowKept
    <3> QED BY <3>1, <2>1, <2>4
  <2> HIDE DEF k
  <2>6. /\ ref.head[k] \in Int /\ tables.head[k] = ShiftBy(ref.head[k], dropped)
        /\ ref.ldm[k] \in Int /\ tables.ldm[k] = ShiftBy(ref.ldm[k], dropped)
    BY <2>2, <2>3, TabsFields DEF Shifted
  <2>7. /\ find_first(tables.head[k], ip) = find_first(ref.head[k], dropped + ip)
        /\ generate(tables.ldm[k], ip) = generate(ref.ldm[k], dropped + ip)
    <3>1. ASSUME NEW e \in Int
          PROVE  /\ find_first(ShiftBy(e, dropped), ip) = find_first(e, dropped + ip)
                 /\ generate(ShiftBy(e, dropped), ip) = generate(e, dropped + ip)
      BY <2>1, <2>3, <2>5, SameView
    <3> QED BY <3>1, <2>6, Zenon
  <2>8. ASSUME NEW d \in 1..conf.reach, d <= ip
        PROVE  find_next(tables.chain, ip, d) = find_next(ref.chain, dropped + ip, d)
    <3>1. d \in Nat
      BY <2>4
    <3> QED BY <3>1, <2>1, <2>3, <2>5, <2>8, SameWalk
  <2>9. \A off \in 1..conf.window : off <= ip <=> off <= dropped + ip
    BY <2>1, <2>4, <2>5
  <2> QED
    BY <2>7, <2>8, <2>9 DEF k
<1> QED
  BY <1>1, Invariance, PTL
-----------------------------------------------------------------------------
(* What has been written tiles the input: full blocks while the encoder is *)
(* open, then a last one with the tail, or a single empty one.             *)
written == taken \o out
FullBlock(i) == [from |-> (i - 1) * conf.block, to |-> i * conf.block, last |-> FALSE]
LastBlock(i) == [from |-> (i - 1) * conf.block, to |-> pushed, last |-> TRUE]

TilesOpen ==
  /\ \A i \in 1..Len(written) : written[i] = FullBlock(i)
  /\ emitted = Len(written) * conf.block
  /\ emitted = 0 \/ emitted < pushed
NextBlock ==
  IF last THEN dropped + stop = pushed /\ emitted < pushed /\ pushed <= emitted + conf.block
          ELSE dropped + stop = emitted + conf.block /\ emitted + conf.block < pushed
TilesClosed ==
  \E n \in Nat :
    /\ Len(written) = n + 1
    /\ \A i \in 1..n : written[i] = FullBlock(i)
    /\ written[n + 1] = LastBlock(n + 1)
    /\ pushed <= n * conf.block + conf.block
    /\ n = 0 \/ n * conf.block < pushed

Tiled ==
  /\ total = pushed
  /\ pc # "closed" => TilesOpen
  /\ pc = "parse" => NextBlock
  /\ pc = "closed" => TilesClosed

(* take_output moves what was written, a block is added at its end.        *)
LEMMA Written ==
  ASSUME IInv
  PROVE  /\ written \in Seq(Block)
         /\ (taken \o out) \o <<>> = written
         /\ \A b \in Block : taken \o Append(out, b) = Append(written, b)
<1>1. taken \in Seq(Block) /\ out \in Seq(Block)
  BY Typed
<1>2. \A b \in Block : taken \o Append(out, b) = Append(taken \o out, b)
  BY <1>1
<1> QED
  BY <1>1, <1>2 DEF written

(* A step that leaves the blocks and the cursors of Tiled alone.           *)
LEMMA SameTiles ==
  ASSUME TilesOpen, conf' = conf, emitted' = emitted, written' = written,
         emitted \in Nat, pushed \in Nat, pushed' \in Nat, pushed <= pushed'
  PROVE  TilesOpen'
<1>1. emitted' = 0 \/ emitted' < pushed'
  BY DEF TilesOpen
<1>2. \A i \in 1..Len(written') : written'[i] = FullBlock(i)'
  BY Zenon DEF TilesOpen, FullBlock
<1> QED
  BY <1>1, <1>2 DEF TilesOpen

(* A full block more.                                                      *)
LEMMA MoreTiles ==
  ASSUME conf \in Configs, TilesOpen, written \in Seq(Block), emitted \in Nat,
         conf' = conf, pushed' = pushed,
         emitted' = emitted + conf.block, emitted' < pushed,
         written' = Append(written, [from |-> emitted, to |-> emitted', last |-> FALSE])
  PROVE  TilesOpen'
<1> DEFINE n == Len(written)
           p == conf.block
           b == [from |-> emitted, to |-> emitted', last |-> FALSE]
<1>1. n \in Nat /\ p \in Nat \ {0} /\ emitted = n * p
  BY ConfFacts DEF TilesOpen
<1>2. (n + 1) * p = n * p + p
  <2> HIDE DEF n, p
  <2> QED BY <1>1, Z3
<1>3. b = FullBlock(n + 1)
  <2>1. (n + 1) - 1 = n
    BY <1>1
  <2> QED BY <2>1, <1>1, <1>2, Zenon DEF FullBlock
<1>4. Len(written') = n + 1 /\ written'[n + 1] = b
      /\ \A i \in 1..n : written'[i] = written[i]
  <2> HIDE DEF b
  <2>1. written' = Append(written, b)
    BY DEF b
  <2> QED BY <2>1
<1>5. ASSUME NEW i \in 1..n + 1 PROVE written'[i] = FullBlock(i)
  <2>1. CASE i \in 1..n
    BY <2>1, <1>4, Zenon DEF TilesOpen
  <2>2. CASE i = n + 1
    BY <2>2, <1>3, <1>4, Zenon
  <2> QED BY <2>1, <2>2, <1>1
<1>6. \A i \in 1..Len(written') : written'[i] = FullBlock(i)'
  <2>1. \A i : FullBlock(i)' = FullBlock(i)
    BY Zenon DEF FullBlock
  <2> QED BY <2>1, <1>4, <1>5, Zenon
<1>7. emitted' = Len(written') * conf'.block
  BY <1>1, <1>2, <1>4
<1>8. emitted' < pushed'
  OBVIOUS
<1> QED
  BY <1>6, <1>7, <1>8 DEF TilesOpen

(* The last block.                                                         *)
LEMMA LastTile ==
  ASSUME conf \in Configs, TilesOpen, written \in Seq(Block), emitted \in Nat, pushed \in Nat,
         conf' = conf, pushed' = pushed, pushed <= emitted + conf.block,
         written' = Append(written, [from |-> emitted, to |-> pushed, last |-> TRUE])
  PROVE  TilesClosed'
<1>n. PICK n \in Nat : n = Len(written)
  OBVIOUS
<1> DEFINE p == conf.block
           b == [from |-> emitted, to |-> pushed, last |-> TRUE]
<1>1. p \in Nat \ {0} /\ emitted = n * p
  BY <1>n, ConfFacts DEF TilesOpen
<1>2. b = LastBlock(n + 1)
  <2>1. (n + 1) - 1 = n
    BY <1>1
  <2> QED BY <2>1, <1>1, Zenon DEF LastBlock
<1>3. Len(written') = n + 1 /\ written'[n + 1] = b
      /\ \A i \in 1..n : written'[i] = written[i]
  <2> HIDE DEF b
  <2>1. written' = Append(written, b)
    BY DEF b
  <2> QED BY <1>n, <2>1
<1>4. \A i : FullBlock(i)' = FullBlock(i) /\ LastBlock(i)' = LastBlock(i)
  BY Zenon DEF FullBlock, LastBlock
<1>5. \A i \in 1..n : written'[i] = FullBlock(i)'
  BY <1>n, <1>3, <1>4, Zenon DEF TilesOpen
<1>6. written'[n + 1] = LastBlock(n + 1)'
  BY <1>2, <1>3, <1>4, Zenon
<1>7. pushed' <= n * conf'.block + conf'.block
  BY <1>1
<1>8. n = 0 \/ n * conf'.block < pushed'
  <2>1. emitted = 0 => n = 0
    BY <1>1, Z3
  <2>2. emitted = 0 \/ emitted < pushed
    BY DEF TilesOpen
  <2> QED BY <1>1, <2>1, <2>2
<1> QED
  BY <1>1, <1>3, <1>5, <1>6, <1>7, <1>8 DEF TilesClosed

(* Every step keeps the tiling.                                            *)
LEMMA TiledStep == IInv /\ IInv' /\ Tiled /\ [Next]_vars => Tiled'
<1> SUFFICES ASSUME IInv, IInv', Tiled, [Next]_vars PROVE Tiled'
  OBVIOUS
<1>1. /\ conf \in Configs /\ conf.block \in Nat \ {0} /\ pc \in {"open", "parse", "closed"}
      /\ written \in Seq(Block)
  BY Typed, ConfFacts, Written
<1>2. /\ dropped \in Nat /\ emitted \in Nat /\ pushed \in Nat /\ stop \in Nat
      /\ Len(input) \in Nat /\ total = dropped + Len(input) /\ total = pushed
      /\ total' = dropped' + Len(input')
  BY CursorFacts, Zenon DEF Tiled, total
<1>3. ASSUME NEW n \in 1..conf.block, NEW part \in [1..n -> Keys], Push(part) PROVE Tiled'
  <2>1. /\ pc = "open" /\ pc' = "open" /\ input' = input \o part /\ conf' = conf
        /\ pushed' = pushed + Len(part) /\ dropped' = dropped /\ emitted' = emitted
        /\ taken' = taken /\ out' = out
    BY <1>3 DEF Push
  <2>2. part \in Seq(Keys) /\ Len(part) \in Nat /\ input \in Seq(Keys)
    <3>1. n \in Nat
      BY <1>1
    <3> QED BY <3>1, Typed
  <2>3. Len(input') = Len(input) + Len(part)
    BY <2>1, <2>2
  <2>4. total' = pushed'
    BY <1>2, <2>1, <2>2, <2>3
  <2>5. TilesOpen'
    <3>1. written' = written
      BY <2>1 DEF written
    <3>2. pushed' \in Nat /\ pushed <= pushed'
      BY <1>2, <2>1, <2>2
    <3> QED BY <1>2, <2>1, <3>1, <3>2, SameTiles DEF Tiled
  <2> QED
    BY <2>1, <2>4, <2>5 DEF Tiled
<1>4. ASSUME pc = "open", NEW end, NEW is_last \in BOOLEAN, emit_block(end, is_last),
             end \in Nat, emitted < pushed,
             IF is_last THEN end = pushed /\ pushed <= emitted + conf.block
             ELSE end = emitted + conf.block /\ end < pushed
      PROVE  Tiled'
  <2>1. /\ pc' = "parse" /\ conf' = conf /\ input' = input /\ dropped' = dropped
        /\ emitted' = emitted /\ taken' = taken /\ out' = out /\ pushed' = pushed
        /\ stop' = end - dropped
    BY <1>4 DEF emit_block
  <2>2. last' = is_last
    BY <1>4, Zenon DEF emit_block
  <2>3. total' = pushed'
    BY <1>2, <2>1
  <2>4. TilesOpen'
    <3>1. written' = written
      BY <2>1 DEF written
    <3>2. pushed' \in Nat /\ pushed <= pushed'
      BY <1>2, <2>1
    <3>3. TilesOpen
      BY <1>4 DEF Tiled
    <3> QED BY <1>2, <2>1, <3>1, <3>2, <3>3, SameTiles
  <2>5. dropped' + stop' = end
    BY <1>2, <1>4, <2>1
  <2>6. NextBlock'
    <3>1. CASE is_last
      BY <3>1, <1>4, <2>1, <2>2, <2>5 DEF NextBlock
    <3>2. CASE ~is_last
      BY <3>2, <1>4, <2>1, <2>2, <2>5 DEF NextBlock
    <3> QED BY <3>1, <3>2
  <2> QED
    BY <2>1, <2>3, <2>4, <2>6 DEF Tiled
<1>5. CASE drain_full_blocks
  <2>1. pc = "open" /\ ~Drained /\ emit_block(emitted + conf.block, FALSE)
    BY <1>5 DEF drain_full_blocks
  <2>2. emitted + conf.block < pushed /\ emitted + conf.block \in Nat /\ emitted < pushed
    BY <1>1, <1>2, <2>1 DEF Drained
  <2> QED BY <2>1, <2>2, <1>4
<1>6. ASSUME NEW indexed \in BOOLEAN, NEW long \in BOOLEAN, ParsePosition(indexed, long)
      PROVE  Tiled'
  <2>1. /\ pc = "parse" /\ pc' = "parse" /\ conf' = conf /\ input' = input
        /\ dropped' = dropped /\ emitted' = emitted /\ stop' = stop /\ last' = last
        /\ taken' = taken /\ out' = out /\ pushed' = pushed
    BY <1>6 DEF ParsePosition
  <2>2. written' = written /\ total' = total
    BY <2>1 DEF written, total
  <2>3. TilesOpen'
    <3>1. pushed' \in Nat /\ pushed <= pushed'
      BY <1>2, <2>1
    <3>2. TilesOpen
      BY <2>1 DEF Tiled
    <3> QED BY <1>2, <2>1, <2>2, <3>1, <3>2, SameTiles
  <2>4. NextBlock'
    BY <2>1, Zenon DEF Tiled, NextBlock
  <2> QED
    BY <2>1, <2>2, <2>3, <2>4 DEF Tiled
<1>7. CASE EndBlock
  <2> DEFINE b == [from |-> emitted, to |-> emitted', last |-> last]
  <2>1. /\ pc = "parse" /\ emitted' = dropped + stop /\ out' = Append(out, b)
        /\ conf' = conf /\ taken' = taken /\ pushed' = pushed /\ stop <= Len(input)
    BY <1>7, Typed DEF EndBlock, Cursors
  <2>2. b \in Block
    <3>1. last \in BOOLEAN /\ emitted' \in Nat
      BY <1>2, <2>1, Typed
    <3> QED BY <3>1, <1>2 DEF Block
  <2>3. written' = Append(written, b)
    <3>1. written' = taken \o Append(out, b)
      BY <2>1, Zenon DEF written
    <3> QED BY <3>1, <2>2, Written, Zenon
  <2>4. TilesOpen /\ NextBlock
    BY <2>1 DEF Tiled
  <2>5. CASE last
    <3>1. pc' = "closed" /\ input' = input /\ dropped' = dropped
      BY <1>7, <2>5 DEF EndBlock
    <3>2. emitted' = pushed /\ pushed <= emitted + conf.block
      BY <2>1, <2>4, <2>5 DEF NextBlock
    <3>3. b = [from |-> emitted, to |-> pushed, last |-> TRUE]
      BY <2>5, <3>2
    <3>4. TilesClosed'
      <4> HIDE DEF b
      <4> QED BY <1>1, <1>2, <2>1, <2>3, <2>4, <3>2, <3>3, LastTile
    <3> QED
      BY <1>2, <2>1, <3>1, <3>4 DEF Tiled
  <2>6. CASE ~last
    <3> DEFINE drop == SlideDrop(stop)
    <3>1. /\ pc' = "open" /\ dropped' = dropped + drop
          /\ input' = SubSeq(input, drop + 1, Len(input))
      BY <1>7, <2>6 DEF EndBlock, maybe_slide
    <3>2. drop \in 0..stop
      BY <1>1, <1>2, SlideDropFacts
    <3> HIDE DEF drop
    <3>3. Len(input') = Len(input) - drop
      <4>1. input \in Seq(Keys)
        BY Typed
      <4> QED BY <4>1, <1>2, <2>1, <3>1, <3>2
    <3>4. total' = pushed'
      <4>1. dropped' + Len(input') = dropped + Len(input)
        <5>1. dropped' = dropped + drop /\ drop \in Nat
          BY <1>2, <3>1, <3>2
        <5> QED BY <5>1, <1>2, <3>3
      <4>2. pushed' = pushed
        BY <2>1
      <4> QED BY <4>1, <4>2, <1>2
    <3>5. emitted' = emitted + conf.block /\ emitted' < pushed
      BY <2>1, <2>4, <2>6 DEF NextBlock
    <3>6. b = [from |-> emitted, to |-> emitted', last |-> FALSE]
      <4>1. last = FALSE
        BY <2>6, Typed
      <4> QED BY <4>1
    <3>7. TilesOpen'
      <4> HIDE DEF b
      <4> QED BY <1>1, <1>2, <2>1, <2>3, <2>4, <3>5, <3>6, MoreTiles
    <3> QED
      BY <3>1, <3>4, <3>7 DEF Tiled
  <2> QED BY <2>5, <2>6
<1>8. CASE take_output
  <2>1. /\ pc = "open" /\ pc' = "open" /\ conf' = conf /\ input' = input
        /\ dropped' = dropped /\ emitted' = emitted /\ pushed' = pushed
        /\ taken' = taken \o out /\ out' = <<>>
    BY <1>8 DEF take_output
  <2>2. written' = written /\ total' = total
    BY <2>1, Written DEF written, total
  <2>3. TilesOpen'
    <3>1. pushed' \in Nat /\ pushed <= pushed'
      BY <1>2, <2>1
    <3>2. TilesOpen
      BY <2>1 DEF Tiled
    <3> QED BY <1>2, <2>1, <2>2, <3>1, <3>2, SameTiles
  <2> QED
    BY <2>1, <2>2, <2>3 DEF Tiled
<1>9. CASE finish
  <2>1. pc = "open" /\ Drained
    BY <1>9 DEF finish
  <2>2. CASE total = 0
    <3> DEFINE b == [from |-> 0, to |-> 0, last |-> TRUE]
    <3>1. /\ pc' = "closed" /\ out' = Append(out, b) /\ conf' = conf /\ input' = input
          /\ dropped' = dropped /\ emitted' = emitted /\ taken' = taken /\ pushed' = pushed
      BY <1>9, <2>2 DEF finish
    <3>2. emitted = 0 /\ pushed = 0
      BY <1>2, <2>2, CursorFacts
    <3>3. written' = Append(written, b)
      <4>1. b \in Block
        BY DEF Block
      <4>2. written' = taken \o Append(out, b)
        BY <3>1, Zenon DEF written
      <4> QED BY <4>1, <4>2, Written, Zenon
    <3>4. b = [from |-> emitted, to |-> pushed, last |-> TRUE]
      BY <3>2
    <3>5. TilesClosed'
      <4>1. TilesOpen
        BY <2>1 DEF Tiled
      <4>2. pushed <= emitted + conf.block
        BY <1>1, <3>2
      <4> HIDE DEF b
      <4> QED BY <1>1, <1>2, <3>1, <3>3, <3>4, <4>1, <4>2, LastTile
    <3> QED
      BY <1>2, <3>1, <3>5 DEF Tiled
  <2>3. CASE total # 0
    <3>1. emit_block(total, TRUE)
      BY <1>9, <2>3 DEF finish
    <3>2. emitted = 0 \/ emitted < pushed
      BY <2>1 DEF Tiled, TilesOpen
    <3>3. total \in Nat /\ emitted < pushed /\ total = pushed /\ pushed <= emitted + conf.block
      BY <1>1, <1>2, <2>1, <2>3, <3>2 DEF Drained
    <3> QED BY <2>1, <3>1, <3>3, <1>4
  <2> QED BY <2>2, <2>3
<1>10. CASE UNCHANGED vars
  <2>1. /\ pc' = pc /\ conf' = conf /\ input' = input /\ dropped' = dropped
        /\ emitted' = emitted /\ stop' = stop /\ last' = last
        /\ taken' = taken /\ out' = out /\ pushed' = pushed
    BY <1>10 DEF vars
  <2>2. written' = written /\ total' = total
    BY <2>1 DEF written, total
  <2>3. \A i : FullBlock(i)' = FullBlock(i) /\ LastBlock(i)' = LastBlock(i)
    BY <2>1, Zenon DEF FullBlock, LastBlock
  <2>4. (TilesOpen <=> TilesOpen') /\ (NextBlock <=> NextBlock')
    BY <2>1, <2>2, <2>3, Zenon DEF TilesOpen, NextBlock
  <2>5. TilesClosed <=> TilesClosed'
    BY <2>1, <2>2, <2>3, Zenon DEF TilesClosed
  <2> QED
    BY <2>1, <2>2, <2>4, <2>5, Zenon DEF Tiled
<1> QED
  BY <1>3, <1>5, <1>6, <1>7, <1>8, <1>9, <1>10, Zenon DEF Next

(* When the tail past n blocks is neither empty nor more than a block.     *)
LEMMA BlocksBelow ==
  ASSUME NEW a \in Nat \ {0}, NEW p \in Nat \ {0}, NEW n \in Nat,
         n = 0 \/ n * p < a, a <= n * p + p
  PROVE  (a - 1) \div p = n
<1> DEFINE m == n * p
<1>1. m \in Nat /\ (n = 0 => m = 0)
  BY Z3
<1>2. m <= a - 1 /\ a - 1 < m + p /\ a - 1 \in Nat
  <2>1. (n = 0 \/ m < a) /\ a <= m + p
    OBVIOUS
  <2> HIDE DEF m
  <2> QED BY <1>1, <2>1
<1>3. p * n = n * p
  BY Z3
<1> QED
  BY <1>2, <1>3, QuotientIs DEF m

(* ChunkIndependent: push, drain_full_blocks and finish cut the input into *)
(* the same blocks however it arrives and whenever output is taken, for    *)
(* every block size and every length of input.                             *)
THEOREM ChunksIrrelevant == Spec => []ChunkIndependent
<1>1. Init => Tiled
  <2> SUFFICES ASSUME Init PROVE Tiled
    OBVIOUS
  <2>1. /\ pc = "open" /\ input = <<>> /\ dropped = 0 /\ emitted = 0 /\ pushed = 0
        /\ taken = <<>> /\ out = <<>> /\ conf \in Configs
    BY DEF Init
  <2>2. written = <<>> /\ total = 0
    BY <2>1 DEF written, total
  <2>3. conf.block \in Nat
    BY <2>1, ConfFacts
  <2>4. TilesOpen
    <3>1. Len(written) = 0
      BY <2>2
    <3>2. 0 * conf.block = 0
      BY <2>3
    <3> QED BY <2>1, <3>1, <3>2 DEF TilesOpen
  <2> QED
    BY <2>1, <2>2, <2>4 DEF Tiled
<1>2. ASSUME IInv, Tiled PROVE ChunkIndependent
  <2> DEFINE p == conf.block
  <2>1. /\ p \in Nat \ {0} /\ pushed \in Nat /\ emitted \in Nat /\ written \in Seq(Block)
        /\ total = pushed
    BY <1>2, Typed, ConfFacts, CursorFacts, Written DEF Tiled
  <2>2. ASSUME NEW n \in Nat, n = 0 \/ n * p < pushed, NEW i \in 1..n
        PROVE  i * p <= pushed
    <3>1. i * p <= n * p
      <4>1. n - i \in Nat
        OBVIOUS
      <4>2. (n - i) * p \in Nat
        BY <2>1, <4>1, Z3
      <4>3. (n - i) * p = n * p - i * p
        BY <2>1, Z3
      <4>4. n * p \in Int /\ i * p \in Int
        BY <2>1, Z3
      <4> QED BY <4>2, <4>3, <4>4
    <3>2. n * p \in Int /\ i * p \in Int
      BY <2>1, Z3
    <3> QED BY <2>1, <2>2, <3>1, <3>2
  <2>3. ASSUME pc = "open", Drained
        PROVE  taken \o out = [i \in 1..NumBlocks |-> BlockOf(i)]
    <3> DEFINE n == Len(written)
    <3>1. /\ n \in Nat /\ emitted = n * p /\ \A i \in 1..n : written[i] = FullBlock(i)
          /\ emitted = 0 \/ emitted < pushed
      BY <1>2, <2>1, <2>3 DEF Tiled, TilesOpen
    <3>2. pushed <= n * p + p
      BY <2>1, <2>3, <3>1 DEF Drained
    <3>3. n = 0 \/ n * p < pushed
      <4>1. n * p = 0 => n = 0
        BY <2>1, <3>1, Z3
      <4> QED BY <3>1, <4>1
    <3>4. NumBlocks = n
      <4>1. CASE pushed = 0
        <5>1. n = 0
          BY <2>1, <3>1, <3>3, <4>1
        <5> QED BY <5>1, <4>1, <2>3 DEF NumBlocks
      <4>2. CASE pushed # 0
        <5>1. pushed \in Nat \ {0}
          BY <2>1, <4>2
        <5>2. (pushed - 1) \div p = n
          BY <2>1, <3>1, <3>2, <3>3, <5>1, BlocksBelow
        <5> QED BY <5>2, <3>1, <4>2, <2>3 DEF NumBlocks
      <4> QED BY <4>1, <4>2
    <3>5. ASSUME NEW i \in 1..n PROVE written[i] = BlockOf(i)
      <4>1. i * p <= pushed
        BY <2>2, <3>1, <3>3
      <4>2. BlockOf(i) = FullBlock(i)
        BY <4>1, <2>3 DEF BlockOf, FullBlock
      <4> QED BY <4>2, <3>1
    <3>6. written = [i \in 1..n |-> BlockOf(i)]
      <4> HIDE DEF n
      <4>1. written = [i \in 1..n |-> written[i]]
        BY <2>1 DEF n
      <4> QED BY <4>1, <3>5, Zenon
    <3> QED BY <3>4, <3>6, Zenon DEF written
  <2>4. ASSUME pc = "closed"
        PROVE  taken \o out = [i \in 1..NumBlocks |-> BlockOf(i)]
    <3>1. PICK n \in Nat :
            /\ Len(written) = n + 1
            /\ \A i \in 1..n : written[i] = FullBlock(i)
            /\ written[n + 1] = LastBlock(n + 1)
            /\ pushed <= n * p + p
            /\ n = 0 \/ n * p < pushed
      BY <1>2, <2>4 DEF Tiled, TilesClosed
    <3>2. n * p \in Nat /\ (n + 1) * p = n * p + p
      BY <2>1, Z3
    <3>3. NumBlocks = n + 1
      <4>1. CASE pushed = 0
        <5>1. n = 0
          <6>1. ~(n * p < 0)
            BY <3>2
          <6> QED BY <6>1, <3>1, <4>1
        <5> QED BY <5>1, <4>1, <2>4 DEF NumBlocks
      <4>2. CASE pushed # 0
        <5>1. pushed \in Nat \ {0}
          BY <2>1, <4>2
        <5>2. (pushed - 1) \div p = n
          BY <2>1, <3>1, <5>1, BlocksBelow
        <5> QED BY <5>2, <4>2, <2>4 DEF NumBlocks
      <4> QED BY <4>1, <4>2
    <3>4. ASSUME NEW i \in 1..n PROVE written[i] = BlockOf(i)
      <4>1. i * p <= pushed
        BY <2>2, <3>1
      <4>2. i # NumBlocks
        BY <3>3
      <4>3. BlockOf(i) = FullBlock(i)
        BY <4>1, <4>2 DEF BlockOf, FullBlock
      <4> QED BY <4>3, <3>1
    <3>5. written[n + 1] = BlockOf(n + 1)
      <4>1. (IF (n + 1) * p <= pushed THEN (n + 1) * p ELSE pushed) = pushed
        BY <2>1, <3>1, <3>2
      <4>2. BlockOf(n + 1) = LastBlock(n + 1)
        <5>1. (pc = "closed" /\ n + 1 = NumBlocks) = TRUE
          BY <2>4, <3>3
        <5> QED BY <4>1, <5>1, Zenon DEF BlockOf, LastBlock
      <4> QED BY <4>2, <3>1, Zenon
    <3>6. \A i \in 1..n + 1 : written[i] = BlockOf(i)
      BY <3>4, <3>5
    <3>7. written = [i \in 1..n + 1 |-> BlockOf(i)]
      <4>1. written = [i \in 1..n + 1 |-> written[i]]
        BY <2>1, <3>1
      <4> QED BY <4>1, <3>6, Zenon
    <3> QED BY <3>3, <3>7, Zenon DEF written
  <2> QED
    BY <2>3, <2>4 DEF ChunkIndependent
<1> QED
  BY <1>1, <1>2, TiledStep, Invariance, PTL DEF Spec
=============================================================================

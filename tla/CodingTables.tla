---------------------------- MODULE CodingTables ----------------------------
(***************************************************************************)
(* The tables of both entropy coders.  FSE: the spread of symbols over a   *)
(* table, the decoding table (src/fse.rs) and the encoding table           *)
(* (src/encode/fse.rs).  Huffman: the decoding table of a list of weights  *)
(* (src/huff.rs), as the set of its ranges of equal entries.               *)
(*                                                                         *)
(* Symbols count from 0; counts, cells and tables are sequences, so that   *)
(* entry i of the code is entry i + 1 here.  A count is -1 for a symbol of *)
(* "less than one".                                                        *)
(***************************************************************************)
EXTENDS BitNumbers, FiniteSets

-----------------------------------------------------------------------------
(* Both sides spread the symbols alike: those of "less than one" from the  *)
(* top down, the others along a walk that comes by every cell and passes   *)
(* over those taken.                                                       *)

LowSymbols(counts)   == {s \in 0..(Len(counts) - 1) : counts[s + 1] = -1}
High(counts, size)   == size - 1 - Cardinality(LowSymbols(counts))
Positive(counts)     == [i \in 1..Len(counts) |-> Greater(counts[i], 0)]

Step(size)           == (size \div 2) + (size \div 8) + 3
Walk(size)           == Listed([k \in 1..size |-> ((k - 1) * Step(size)) % size])
Turn(walk, cell)     == CHOOSE k \in 1..Len(walk) : walk[k] = cell
Taken(walk, high, k) == {j \in 1..(k - 1) : walk[j] <= high}

Covers(counts, table_log) ==
  Sums(Positive(counts), Len(counts))[Len(counts)] = High(counts, 2^table_log) + 1
spread(counts, table_log) ==
  LET size == 2^table_log
      low  == LowSymbols(counts)
      high == High(counts, size)
      upto == Sums(Positive(counts), Len(counts))
      walk == Walk(size)
      LowAt(i)  == CHOOSE s \in low : Cardinality({t \in low : t < s}) = size - i
      WalkAt(i) == Taker(upto, Len(counts), Cardinality(Taken(walk, high, Turn(walk, i - 1)))) - 1
  IN  Listed([i \in 1..size |-> IF i - 1 > high THEN LowAt(i) ELSE WalkAt(i)])

(* The cells before the i-th that have its symbol.                         *)
Earlier(cells, i) == {v \in 1..(i - 1) : cells[v] = cells[i]}

(* The k-th cell of a symbol, in ascending order, stands for the number    *)
(* count + k - 1, whose high bits say how many bits the transition reads.  *)
DecodeEntry(counts, table_log, cells, u) ==
  LET s == cells[u + 1]
      next == Abs(counts[s + 1]) + Cardinality(Earlier(cells, u + 1))
      num_bits == table_log - highbit32(next)
  IN  [symbol |-> s, num_bits |-> num_bits, base |-> next * 2^num_bits - 2^table_log]
build_dtable(counts, table_log) ==
  LET cells == spread(counts, table_log)
  IN  IF ~Covers(counts, table_log) THEN None
      ELSE [log |-> table_log,
            entries |-> [u \in 0..(2^table_log - 1) |-> DecodeEntry(counts, table_log, cells, u)]]

(* The encoder's: the cells sorted by symbol, and per symbol the bits a    *)
(* transition writes and where its cells start.                            *)
DeltaNbBits(count, table_log) ==
  LET size == 2^table_log
      max_bits_out == table_log - highbit32(count - 1)
  IN  CASE count = 0 -> (table_log + 1) * 65536 - size
        [] count \in {-1, 1} -> table_log * 65536 - size
        [] OTHER -> max_bits_out * 65536 - count * 2^max_bits_out

CellOf(cells, ranks, s, rank) ==
  CHOOSE i \in DOMAIN ranks : cells[i] = s /\ ranks[i] = rank
build_ctable(counts, table_log) ==
  LET size  == 2^table_log
      n     == Len(counts)
      cells == spread(counts, table_log)
      ranks == Listed([i \in DOMAIN cells |-> Cardinality(Earlier(cells, i))])
      upto  == Sums([i \in 1..n |-> Abs(counts[i])], n)
      StateAt(k) ==
        LET i == Taker(upto, n, k - 1)
        IN  size - 1 + CellOf(cells, ranks, i - 1, k - 1 - upto[i - 1])
      FindState(i) == IF counts[i] = 0 THEN 0 ELSE upto[i - 1] - Abs(counts[i])
  IN  [log |-> table_log,
       states |-> Listed([k \in 1..size |-> StateAt(k)]),
       delta_nb_bits |-> Listed([i \in 1..n |-> DeltaNbBits(counts[i], table_log)]),
       delta_find_state |-> Listed([i \in 1..n |-> FindState(i)]),
       present |-> Listed([i \in 1..n |-> counts[i] # 0])]

(* The bits a symbol flushes from a state, and the state after it.         *)
NbBitsOut(t, value, s) == (value + t.delta_nb_bits[s + 1]) \div 65536
NextState(t, value, nb, s) == t.states[(value \div 2^nb) + t.delta_find_state[s + 1] + 1]

(* The state that a symbol's own code starts from.                         *)
init_state2(t, s) ==
  LET dnb == t.delta_nb_bits[s + 1]
      nb  == (dnb + 32768) \div 65536
  IN  NextState(t, nb * 65536 - dnb, nb, s)

(* "The two tables are exact inverses": an encoder step from any state is  *)
(* undone by the decoder's table.                                          *)
Matches(ct, dt) ==
  /\ ct.log = dt.log
  /\ \A i \in DOMAIN ct.present : ct.present[i] =>
       \A value \in 2^ct.log..(2^(ct.log + 1) - 1) :
         LET nb == NbBitsOut(ct, value, i - 1)
             e  == dt.entries[NextState(ct, value, nb, i - 1) - 2^ct.log]
         IN  /\ e.symbol = i - 1 /\ e.num_bits = nb
             /\ e.base + (value % 2^nb) = value - 2^ct.log

-----------------------------------------------------------------------------
(* Huffman.  A weight w stands for a range of 2^(w-1) entries; the ranges  *)
(* are in the order of the weights, then of the symbols.                   *)

HUF_TABLELOG_MAX == 12

TotalOf(weights) ==
  Sums([w \in 1..HUF_TABLELOG_MAX |->
          Cardinality({i \in 1..Len(weights) : weights[i] = w}) * 2^(w - 1)],
       HUF_TABLELOG_MAX)[HUF_TABLELOG_MAX]

IsPower_Any(left, max_bits) == TRUE  \* mutant: any residual passes
IsPower(left, max_bits) == \E b \in 0..max_bits : left = 2^b

Refused(weights, max_bits) ==
  \/ \E i \in 1..Len(weights) : weights[i] > HUF_TABLELOG_MAX
  \/ TotalOf(weights) = 0 \/ max_bits > HUF_TABLELOG_MAX
  \/ ~IsPower(2^max_bits - TotalOf(weights), max_bits)
  \/ Len(weights) + 1 > 256

(* The symbols with a code; the last one's weight is what is left.         *)
Coded(weights, last) ==
  {[symbol |-> i - 1, w |-> weights[i]] : i \in {j \in 1..Len(weights) : weights[j] > 0}}
  \cup {[symbol |-> Len(weights), w |-> last]}

Starts(coded) ==
  Sums([w \in 1..HUF_TABLELOG_MAX |-> Cardinality({d \in coded : d.w = w}) * 2^(w - 1)],
       HUF_TABLELOG_MAX)
First(coded, starts, c) ==
  starts[c.w - 1] + Cardinality({d \in coded : d.w = c.w /\ d.symbol < c.symbol}) * 2^(c.w - 1)

build_table(weights) ==
  LET max_bits == highbit32(TotalOf(weights)) + 1
      coded    == Coded(weights, highbit32(2^max_bits - TotalOf(weights)) + 1)
      starts   == Starts(coded)
  IN  IF Refused(weights, max_bits) THEN None
      ELSE [max_bits |-> max_bits,
            ranges |-> {[symbol |-> c.symbol, first |-> First(coded, starts, c),
                         num_bits |-> max_bits + 1 - c.w] : c \in coded}]

Within(t, c) == c.first..(c.first + 2^(t.max_bits - c.num_bits) - 1)

(* Every entry of the table is one symbol's.                               *)
Complete(t) ==
  /\ t.max_bits \in 1..HUF_TABLELOG_MAX
  /\ \A u \in 0..(2^t.max_bits - 1) : Cardinality({c \in t.ranges : u \in Within(t, c)}) = 1
=============================================================================

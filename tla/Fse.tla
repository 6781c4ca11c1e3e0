-------------------------------- MODULE Fse ---------------------------------
(***************************************************************************)
(* The algorithms of src/encode/fse.rs and src/fse.rs: the choice of a     *)
(* table log, the normalized counts, their description and its reader, the *)
(* encoding and the decoding table, and the two-state stream.              *)
(*                                                                         *)
(* Symbols count from 0; counts, frequencies and tables are sequences, so  *)
(* that entry i of the code is entry i + 1 here.  A count is -1 for a      *)
(* symbol of "less than one".                                              *)
(***************************************************************************)
EXTENDS BitStreams, CodingTables

FSE_MAX_TABLELOG == 15

Repeated(x, n)  == [i \in 1..n |-> x]
Present(f)      == {s \in 0..(Len(f) - 1) : f[s + 1] > 0}

-----------------------------------------------------------------------------
(* The table log.                                                          *)

(* FSE_optimalTableLog, then raised to host one count per symbol.          *)
optimal_table_log(max_log, src_size, max_symbol) ==
  LET n == Greater(src_size, 2)
      max_bits_src == Greater(highbit32(n - 1) - 2, 0)
      min_bits == Lesser(highbit32(n) + 1, highbit32(Greater(max_symbol, 1)) + 2)
  IN  Lesser(Greater(Greater(Lesser(max_log, max_bits_src), min_bits), 5), max_log)

min_table_log(num_present) ==
  Greater(5, IF num_present = 1 THEN 0 ELSE highbit32(num_present - 1) + 1)

(* Proportional shares of at least one, then the rounding is taken back    *)
(* from the most frequent symbol, and from others where it has no more.    *)
Share(f, total, size) == IF f = 0 THEN 0 ELSE Greater((f * size) \div total, 1)

Less(counts, i, n) == [j \in 1..Len(counts) |-> counts[j] - (IF j = i THEN n ELSE 0)]

RECURSIVE TakeBack(_, _, _)
TakeBack(counts, largest, excess) ==
  IF excess = 0 THEN counts
  ELSE IF counts[largest] > 1
       THEN LET taken == Lesser(excess, counts[largest] - 1)
            IN  TakeBack(Less(counts, largest, taken), largest, excess - taken)
  ELSE LET donors == {s \in DOMAIN counts : counts[s] > 1}
       IN  IF donors = {} THEN counts
           ELSE LET d == CHOOSE s \in donors : \A t \in donors : s <= t
                IN  TakeBack(Less(counts, d, 1), largest, excess - 1)

normalize_counts(f, table_log) ==
  LET size == 2^table_log
      shares == [i \in 1..Len(f) |-> Share(f[i], SumOf(f), size)]
      largest == CHOOSE i \in 1..Len(f) : /\ \A j \in 1..Len(f) : f[j] <= f[i]
                                          /\ \A j \in 1..(i - 1) : f[j] < f[i]
      assigned == SumOf(shares)
  IN  IF assigned > size THEN TakeBack(shares, largest, assigned - size)
      ELSE [i \in 1..Len(f) |-> shares[i] + (IF i = largest THEN size - assigned ELSE 0)]

-----------------------------------------------------------------------------
(* The description.  The writer keeps at most 32 bits in its accumulator   *)
(* and flushes two bytes when it holds more than 16 ("pending"); "widest"  *)
(* is the most it ever held.                                               *)

PutField(w, bits) ==
  [w EXCEPT !.bits = @ \o bits, !.pending = @ + Len(bits),
            !.widest = Greater(@, w.pending + Len(bits))]
Flushed(w) == IF w.pending > 16 THEN [w EXCEPT !.pending = @ - 16] ELSE w

(* A run of zero counts after a zero count: 24 at a time, then 3 at a      *)
(* time, then the rest.                                                    *)
RECURSIVE PutRun(_, _)
PutRun_Three(w, run) ==  \* mutant: > for >=
  IF run >= 24 THEN PutRun([PutField(w, Repeated(1, 16)) EXCEPT !.pending = w.pending], run - 24)
  ELSE IF run > 3 THEN PutRun(PutField(w, <<1, 1>>), run - 3)
  ELSE Flushed(PutField(w, ToBits(run, 2)))
PutRun(w, run) ==
  IF run >= 24 THEN PutRun([PutField(w, Repeated(1, 16)) EXCEPT !.pending = w.pending], run - 24)
  ELSE IF run >= 3 THEN PutRun(PutField(w, <<1, 1>>), run - 3)
  ELSE Flushed(PutField(w, ToBits(run, 2)))

(* One count: in a bit less where it is below "max".                       *)
PutCount(w, count) ==
  LET max == 2 * w.threshold - 1 - w.remaining
      c == count + 1 + (IF count + 1 >= w.threshold THEN max ELSE 0)
      left == w.remaining - Abs(count)
      bits == IF left = 0 THEN 0 ELSE highbit32(left)
  IN  [Flushed(PutField(w, ToBits(c, w.nb_bits - (IF c < max THEN 1 ELSE 0)))) EXCEPT
         !.remaining = left, !.previous0 = (count = 0), !.run = 0,
         !.threshold = Lesser(@, 2^bits), !.nb_bits = Lesser(@, bits + 1)]

WriteSymbol(w, count) ==
  IF w.previous0 /\ count = 0 THEN [w EXCEPT !.run = @ + 1]
  ELSE PutCount(IF w.previous0 THEN PutRun(w, w.run) ELSE w, count)

RECURSIVE WriteCounts(_, _, _, _)
WriteCounts(w, counts, lo, hi) ==
  IF w.remaining <= 1 THEN w
  ELSE IF lo = hi THEN WriteSymbol(w, counts[lo])
  ELSE LET mid == (lo + hi) \div 2
       IN  WriteCounts(WriteCounts(w, counts, lo, mid), counts, mid + 1, hi)

write_ncount(counts, table_log) ==
  LET start == [bits |-> ToBits(table_log - 5, 4), pending |-> 4, widest |-> 4,
                remaining |-> 2^table_log + 1, threshold |-> 2^table_log,
                nb_bits |-> table_log + 1, previous0 |-> FALSE, run |-> 0]
      w == WriteCounts(start, counts, 1, Len(counts))
  IN  [bytes |-> w.bits \o Zeros((8 - (Len(w.bits) % 8)) % 8), widest |-> w.widest]

(* read_ncount: its loop, on the counts read so far.                       *)
RECURSIVE ReadRun(_, _, _)
ReadRun(s, f, run) ==
  IF FromBits(ForwardPeek(s, f, 16)) = 65535 THEN ReadRun(s, ForwardConsume(s, f, 16), run + 24)
  ELSE IF FromBits(ForwardPeek(s, f, 2)) = 3 THEN ReadRun(s, ForwardConsume(s, f, 2), run + 3)
  ELSE [f |-> ForwardConsume(s, f, 2), run |-> run + FromBits(ForwardPeek(s, f, 2))]

CountFrom(s, d) ==
  LET max == 2 * d.threshold - 1 - d.remaining
      low == FromBits(ForwardPeek(s, d.f, d.nb_bits))
      short == low % d.threshold < max
      whole == low % (2 * d.threshold)
      c == IF short THEN low % d.threshold
           ELSE IF whole >= d.threshold THEN whole - max ELSE whole
      left == d.remaining - Abs(c - 1)
      bits == IF left = 0 THEN 0 ELSE highbit32(left)
  IN  [counts |-> Append(d.counts, c - 1), remaining |-> left,
       f |-> ForwardConsume(s, d.f, d.nb_bits - (IF short THEN 1 ELSE 0)),
       previous0 |-> (c = 1), threshold |-> Lesser(d.threshold, 2^bits),
       nb_bits |-> Lesser(d.nb_bits, bits + 1)]
SkipRun(d, r) ==
  [d EXCEPT !.f = r.f, !.previous0 = FALSE, !.counts = @ \o Zeros(Lesser(r.run, 256 - Len(@)))]

(* At most so many turns: each reads a count or a run of zeros.            *)
RECURSIVE ReadCounts(_, _, _)
ReadCounts(s, d, turns) ==
  IF d.remaining <= 1 \/ Len(d.counts) >= 256 THEN d
  ELSE IF turns > 1
  THEN ReadCounts(s, ReadCounts(s, d, turns \div 2), turns - (turns \div 2))
  ELSE IF d.previous0 THEN SkipRun(d, ReadRun(s, d.f, 0)) ELSE CountFrom(s, d)

Accepted(d, table_log) ==
  IF d.remaining # 1 THEN None
  ELSE [counts |-> d.counts, log |-> table_log, bytes |-> bytes_consumed(d.f)]
ReadWith(s, f, table_log, max_log) ==
  IF table_log > Lesser(max_log, FSE_MAX_TABLELOG) THEN None
  ELSE Accepted(ReadCounts(s, [counts |-> <<>>, remaining |-> 2^table_log + 1,
                               f |-> ForwardConsume(s, f, 4), previous0 |-> FALSE,
                               threshold |-> 2^table_log, nb_bits |-> table_log + 1], 512),
                table_log)
read_ncount(s, max_log) ==
  LET f == NewForward(s) IN ReadWith(s, f, FromBits(ForwardPeek(s, f, 4)) + 5, max_log)

-----------------------------------------------------------------------------
(* The tables (CodingTables) in use.                                       *)

build_rle_ctable(symbol) == build_ctable(Append(Zeros(symbol), 1), 0)

can_encode(t, codes) ==
  \A i \in 1..Len(codes) : codes[i] < Len(t.present) /\ t.present[codes[i] + 1]

-----------------------------------------------------------------------------
(* Encoding and decoding a stream.                                         *)

(* A symbol flushes the low bits of the state.                             *)
encode_symbol(t, w, value, s) ==
  LET nb == NbBitsOut(t, value, s)
  IN  [w |-> add(w, ToBits(value, nb)), value |-> NextState(t, value, nb, s)]
flush_state(t, w, value) == add(w, ToBits(value, t.log))

(* encode: positions from the back, those of one parity on one state; the  *)
(* even ones are "s1", flushed last.                                       *)
RECURSIVE EncodeDown(_, _, _, _, _)
EncodeDown(t, st, s, lo, hi) ==
  IF lo > hi \/ st.w.full THEN st
  ELSE IF lo < hi
       THEN LET mid == (lo + hi) \div 2
            IN  EncodeDown(t, EncodeDown(t, st, s, mid + 1, hi), s, lo, mid)
  ELSE LET even == lo % 2 = 1  \* 0-based position lo - 1
           e == encode_symbol(t, st.w, st.value[even], s[lo])
       IN  [w |-> e.w, value |-> [st.value EXCEPT ![even] = e.value]]
encode(t, s) ==
  LET n == Len(s)
      value == [even \in BOOLEAN |-> init_state2(t, s[IF even = (n % 2 = 1) THEN n ELSE n - 1])]
      end == EncodeDown(t, [w |-> NewWriter, value |-> value], s, 1, n - 2)
  IN  finish(flush_state(t, flush_state(t, end.w, end.value[FALSE]), end.value[TRUE]))

(* The cost of one channel of a sequences section, without writing it: the *)
(* widths of all transitions and of the final state.                       *)
RECURSIVE CostDown(_, _, _, _, _)
CostDown(t, bits, value, codes, i) ==
  IF i = 0 THEN bits
  ELSE LET nb == NbBitsOut(t, value, codes[i])
       IN  CostDown(t, bits + nb, NextState(t, value, nb, codes[i]), codes, i - 1)
stream_cost_bits(t, codes) ==
  CostDown(t, t.log, init_state2(t, codes[Len(codes)]), codes, Len(codes) - 1)

(* FseDecoder: update.  d is [r, value]: the reader and both states.       *)
DecInit(t, s, d, one) ==
  [r |-> consume(d.r, t.log), value |-> [d.value EXCEPT ![one] = PeekNum(s, d.r, t.log)]]
update(t, s, d, one) ==
  LET e == t.entries[d.value[one]]
  IN  [r |-> consume(d.r, e.num_bits),
       value |-> [d.value EXCEPT ![one] = e.base + PeekNum(s, d.r, e.num_bits)]]
SymbolOf(t, d, one) == t.entries[d.value[one]].symbol

(* decompress: symbols in pairs while a reload leaves a full register,     *)
(* then one at a time until a reload overflows; None where the output      *)
(* would exceed its limit.  x is [d, o, one, over]: the decoder, the       *)
(* output, whose turn it is and whether it has ended.                      *)
TwoSymbols(t, s, x) ==
  LET d0 == [x.d EXCEPT !.r = reload(@).r]
      d1 == update(t, s, d0, TRUE)
  IN  [x EXCEPT !.d = update(t, s, d1, FALSE),
                !.o = @ \o <<SymbolOf(t, d0, TRUE), SymbolOf(t, d1, FALSE)>>]
RECURSIVE Pairs(_, _, _, _, _)
Pairs(t, s, x, max_out, turns) ==
  IF reload(x.d.r).status # "Unfinished" \/ Len(x.o) + 2 > max_out THEN x
  ELSE IF turns = 1 THEN TwoSymbols(t, s, x)
  ELSE LET half == turns \div 2
       IN  Pairs(t, s, Pairs(t, s, x, max_out, half), max_out, turns - half)

LastSymbols(t, s, x, max_out) ==
  LET u == update(t, s, x.d, x.one)
      l == reload(u.r)
      p == Append(x.o, SymbolOf(t, x.d, x.one))
      Over(o) == [x EXCEPT !.over = TRUE, !.o = o]
  IN  IF Len(x.o) >= max_out THEN Over(None)
      ELSE IF l.status # "Overflow"
           THEN [x EXCEPT !.d = [u EXCEPT !.r = l.r], !.o = p, !.one = ~@]
      ELSE Over(IF Len(p) >= max_out THEN None ELSE Append(p, SymbolOf(t, x.d, ~x.one)))
RECURSIVE Tail1(_, _, _, _, _)
Tail1(t, s, x, max_out, turns) ==
  IF x.over THEN x
  ELSE IF turns = 1 THEN LastSymbols(t, s, x, max_out)
  ELSE LET half == turns \div 2
       IN  Tail1(t, s, Tail1(t, s, x, max_out, half), max_out, turns - half)

decompress(s, t, max_out) ==
  IF NewReader(s) = None THEN None
  ELSE LET d == DecInit(t, s, [r |-> NewReader(s), value |-> [one \in BOOLEAN |-> 0]], TRUE)
           x == Pairs(t, s, [d |-> DecInit(t, s, d, FALSE), o |-> <<>>, one |-> TRUE,
                             over |-> FALSE], max_out, max_out)
       IN  Tail1(t, s, [x EXCEPT !.d.r = reload(@).r], max_out, max_out + 1).o
=============================================================================

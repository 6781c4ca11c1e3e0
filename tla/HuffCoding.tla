----------------------------- MODULE HuffCoding -----------------------------
(***************************************************************************)
(* Huffman coded literals, from a histogram to the decoded bytes           *)
(* (src/encode/huff.rs, src/huff.rs, src/literals.rs): length-limited      *)
(* codes, the weights that describe them and their reader, one stream or   *)
(* four, the section's header, the choice among Raw, Compressed and        *)
(* Treeless by exact size, and the table each side keeps for later blocks. *)
(*                                                                         *)
(* Arrays over the 256 symbols are sets of records, one per symbol that    *)
(* counts; a decoding table is the set of its ranges of equal entries.     *)
(***************************************************************************)
EXTENDS Fse

CONSTANTS
  Literals,    \* the literals a block may have
  Histograms,  \* byte histograms a dictionary is trained on
  Foreign,     \* weight lists of tables from elsewhere
  Sizes,       \* sizes a section header may have to hold
  Blocks       \* tables and blocks in a frame

VARIABLES
  pc,       \* "load", "write", "read", "done"; "header", "parse" for a header alone
  block,    \* blocks so far, the dictionary included
  source,   \* what the dictionary's table is made of, then None
  lits,     \* the block's literals
  cur,      \* the encoder's table for Treeless blocks, or None
  section,  \* the bits of the literals section
  cache,    \* the decoder's table, or None
  out       \* what the decoder returned

vars == <<pc, block, source, lits, cur, section, cache, out>>

MaxOf(S) == CHOOSE x \in S : \A y \in S : y <= x

HUF_WEIGHT_MAX_LOG == 6
MAX_CODE_LEN       == 11

-----------------------------------------------------------------------------
(* Code lengths.                                                           *)

Histogram(s) ==
  {[symbol |-> b, count |-> Cardinality({i \in DOMAIN s : s[i] = b})] : b \in ToSet(s)}

(* The two lightest nodes are joined, the older first among equals, until  *)
(* one is left; a node knows how deep its leaves are.                      *)
Lightest(nodes) ==
  CHOOSE a \in nodes : \A b \in nodes : a.w < b.w \/ (a.w = b.w /\ a.id <= b.id)
Merged(nodes) ==
  LET a == Lightest(nodes)
      b == Lightest(nodes \ {a})
      both == [w |-> a.w + b.w, id |-> 512 - Cardinality(nodes),
               leaves |-> {[l EXCEPT !.depth = @ + 1] : l \in a.leaves \cup b.leaves}]
  IN  (nodes \ {a, b}) \cup {both}
RECURSIVE Tree(_, _)
Tree(nodes, merges) ==
  IF Cardinality(nodes) = 1 THEN nodes ELSE IF merges = 1 THEN Merged(nodes)
  ELSE Tree(Tree(nodes, merges \div 2), merges - (merges \div 2))

(* How many codes have each length, after those beyond the limit are moved *)
(* under a shorter code.                                                   *)
RECURSIVE Limited(_, _)
Limited(counts, i) ==
  IF i <= MAX_CODE_LEN THEN counts
  ELSE IF counts[i] = 0 THEN Limited(counts, i - 1)
  ELSE LET j == MaxOf({k \in 1..(i - 2) : counts[k] > 0})
       IN  Limited([counts EXCEPT ![i] = @ - 2, ![i - 1] = @ + 1,
                                  ![j + 1] = @ + 2, ![j] = @ - 1], i)

(* The position of a symbol among all, the most frequent first.            *)
Place(freq, f) ==
  Cardinality({g \in freq : g.count > f.count \/ (g.count = f.count /\ g.symbol < f.symbol)})

code_lengths(freq) ==
  LET nodes == {[w |-> f.count, id |-> f.symbol,
                  leaves |-> {[symbol |-> f.symbol, depth |-> 0]}] : f \in freq}
      leaves == UNION {root.leaves : root \in Tree(nodes, Cardinality(nodes) - 1)}
      deepest == Greater(MAX_CODE_LEN, MaxOf({x.depth : x \in leaves}))
      counts == Limited([l \in 1..deepest |-> Cardinality({x \in leaves : x.depth = l})],
                        deepest)
      UpTo(l) == SumOf([k \in 1..l |-> counts[k]])
      Len_(f) == CHOOSE l \in 1..MAX_CODE_LEN :
                   UpTo(l - 1) <= Place(freq, f) /\ Place(freq, f) < UpTo(l)
  IN  {[symbol |-> f.symbol, len |-> Len_(f)] : f \in freq}

-----------------------------------------------------------------------------
(* The encoder reads its codes out of the decoder's table.                 *)
build_code_table(lengths) ==
  LET max_bits == MaxOf({x.len : x \in lengths})
      max_symbol == MaxOf({x.symbol : x \in lengths})
      weights == [i \in 1..max_symbol |->
                    IF \E x \in lengths : x.symbol = i - 1
                    THEN max_bits + 1 - (CHOOSE x \in lengths : x.symbol = i - 1).len ELSE 0]
      t == build_table(weights)
  IN  [max_symbol |-> max_symbol, weights |-> weights,
       codes |-> {[symbol |-> c.symbol, nbits |-> c.num_bits,
                   code |-> c.first \div 2^(t.max_bits - c.num_bits)] : c \in t.ranges}]

code_table_from_huff(t) ==
  build_code_table({[symbol |-> c.symbol, len |-> c.num_bits] : c \in t.ranges})

can_encode_hist(table, freq) ==
  \A f \in freq : \E c \in table.codes : c.symbol = f.symbol

-----------------------------------------------------------------------------
(* The description of a table: its weights, the last one left out.         *)

Byte(n) == ToBits(n, 8)

write_weight_header_direct(table) ==
  LET n == table.max_symbol
      At(i) == IF i <= n THEN table.weights[i] ELSE 0
      Packed == [k \in 1..(8 * DivUp(n, 2)) |->  \* the high nibble first
                   LET byte == (k - 1) \div 8
                       bit == (k - 1) % 8
                   IN  IF bit >= 4 THEN ToBits(At(2 * byte + 1), 4)[bit - 3]
                       ELSE ToBits(At(2 * byte + 2), 4)[bit + 1]]
  IN  Byte(127 + n) \o Packed

write_weight_header_fse(table) ==
  LET max_w == MaxOf(ToSet(table.weights))
      freq == [i \in 1..(max_w + 1) |->
                 Cardinality({j \in 1..Len(table.weights) : table.weights[j] = i - 1})]
      norm == normalize_counts(freq, HUF_WEIGHT_MAX_LOG)
      With(bits) == IF NumBytes(bits) >= 128 THEN None ELSE Byte(NumBytes(bits)) \o bits
  IN  IF Cardinality(Present(freq)) < 2 THEN None
      ELSE With(write_ncount(norm, HUF_WEIGHT_MAX_LOG).bytes
                \o encode(build_ctable(norm, HUF_WEIGHT_MAX_LOG), table.weights))

write_weight_header(table) ==
  IF table.max_symbol <= 128 THEN write_weight_header_direct(table)
  ELSE write_weight_header_fse(table)

build_fresh_table(freq) ==
  LET Got(table, header) == IF header = None THEN None ELSE [table |-> table, header |-> header]
      With(table) == Got(table, write_weight_header(table))
  IN  IF Cardinality(freq) < 2 THEN None ELSE With(build_code_table(code_lengths(freq)))

write_dict_huffman_table(freq) ==
  LET HeaderOf(fresh) == IF fresh = None THEN None ELSE fresh.header
  IN  HeaderOf(build_fresh_table(freq))

(* The table at the front of s and the bytes it takes; None where it is    *)
(* refused.                                                                *)
ReadFseWeights(s, h, nc) ==
  LET Got(w) == IF w = None THEN None ELSE [weights |-> w, bytes |-> 1 + h]
      With(table) == IF table = None THEN None
                     ELSE Got(decompress(SubSeq(s, 9 + 8 * nc.bytes, 8 + 8 * h), table, 256))
  IN  IF nc = None THEN None ELSE With(build_dtable(nc.counts, nc.log))
ReadDirectWeights(s, n) ==
  LET At(i) == 8 + 8 * ((i - 1) \div 2) + (IF i % 2 = 1 THEN 4 ELSE 0)
  IN  IF NumBytes(s) < 1 + DivUp(n, 2) THEN None
      ELSE [weights |-> [i \in 1..n |-> FromBits(SubSeq(s, At(i) + 1, At(i) + 4))],
            bytes |-> 1 + DivUp(n, 2)]
ReadWeights(s, h) ==
  IF h >= 128 THEN ReadDirectWeights(s, h - 127)
  ELSE IF NumBytes(s) < 1 + h THEN None
  ELSE ReadFseWeights(s, h, read_ncount(SubSeq(s, 9, 8 + 8 * h), HUF_WEIGHT_MAX_LOG))
read_table(s) ==
  LET Got(t, r) == IF t = None THEN None ELSE [table |-> t, bytes |-> r.bytes]
      With(r) == IF r = None THEN None ELSE Got(build_table(r.weights), r)
  IN  IF s = <<>> THEN None ELSE With(ReadWeights(s, FromBits(SubSeq(s, 1, 8))))

-----------------------------------------------------------------------------
(* The streams.  Symbols are written from the last to the first, codes so  *)
(* that their first bit is read first.                                     *)

CodeOf(table, b) == CHOOSE c \in table.codes : c.symbol = b

RECURSIVE PutDown(_, _, _, _, _)
PutDown(table, w, s, lo, hi) ==
  IF lo > hi \/ w.full THEN w
  ELSE IF lo < hi
       THEN LET mid == (lo + hi) \div 2
            IN  PutDown(table, PutDown(table, w, s, mid + 1, hi), s, lo, mid)
  ELSE LET c == CodeOf(table, s[lo])
       IN  add(w, ToBits(c.code, c.nbits))
encode_stream(table, s) == finish(PutDown(table, NewWriter, s, 1, Len(s)))

Segment_Floor(n) == n \div 4  \* mutant: the last stream takes the rest
Segment(n) == DivUp(n, 4)
Quarters(s) ==
  LET seg == Segment(Len(s))
  IN  <<SubSeq(s, 1, seg), SubSeq(s, seg + 1, 2 * seg), SubSeq(s, 2 * seg + 1, 3 * seg),
        SubSeq(s, 3 * seg + 1, Len(s))>>

WithJumps(e) ==
  LET Field(i) == ToBits(NumBytes(e[i]), 16)
  IN  IF \E i \in 1..3 : NumBytes(e[i]) > 65535 THEN None
      ELSE Field(1) \o Field(2) \o Field(3) \o e[1] \o e[2] \o e[3] \o e[4]
encode_4stream(table, s) ==
  WithJumps(Listed([i \in 1..4 |-> encode_stream(table, Quarters(s)[i])]))

UseFour(n) == n >= 256 /\ 3 * DivUp(n, 4) <= n
encode_lit_streams(table, s) ==
  IF UseFour(Len(s)) THEN encode_4stream(table, s) ELSE encode_stream(table, s)

(* The same length without the packing.                                    *)
StreamLen(table, s) == DivUp(SumOf([i \in 1..Len(s) |-> CodeOf(table, s[i]).nbits]) + 1, 8)
streams_byte_len(table, s) ==
  IF ~UseFour(Len(s)) THEN StreamLen(table, s)
  ELSE LET l == [i \in 1..4 |-> StreamLen(table, Quarters(s)[i])]
       IN  IF \E i \in 1..3 : l[i] > 65535 THEN None ELSE 6 + l[1] + l[2] + l[3] + l[4]

(* A lane decodes one stream.                                              *)
Entry(t, code) ==
  IF \E c \in t.ranges : code \in Within(t, c) THEN CHOOSE c \in t.ranges : code \in Within(t, c)
  ELSE [symbol |-> 0, num_bits |-> 0]
Lane(s)     == [s |-> s, r |-> NewReader(s), out |-> <<>>]
Refilled(l) == [l EXCEPT !.r = reload(l.r).r]
IsFull(l)   == reload(l.r).status = "Unfinished"
Symbol(t, l) ==
  LET e == Entry(t, PeekNum(l.s, l.r, t.max_bits))
  IN  [l EXCEPT !.r = consume(l.r, e.num_bits), !.out = Append(@, e.symbol)]
Four(t, l)    == Symbol(t, Symbol(t, Symbol(t, Symbol(t, l))))
huf_one(t, l) == Symbol(t, [l EXCEPT !.r = ensure(l.r, t.max_bits)])

(* One stream: four symbols to a full register, then one to a reload.      *)
RECURSIVE DecodeTail(_, _, _), DecodeInto(_, _, _)
DecodeTail(t, l, count) ==
  IF Len(l.out) >= count THEN l.out ELSE DecodeTail(t, Symbol(t, Refilled(l)), count)
DecodeInto(t, l, count) ==
  IF Len(l.out) + 4 <= count /\ IsFull(l) THEN DecodeInto(t, Four(t, Refilled(l)), count)
  ELSE DecodeTail(t, l, count)
decode_1stream(t, s, regen) ==
  IF NewReader(s) = None THEN None ELSE DecodeInto(t, Lane(s), regen)

(* Four streams, the first k in step until each has "upto" symbols: fours  *)
(* while all their registers are full, then one by one.                    *)
OnLanes(t, op, l, k) ==
  LET Move(lane) == CASE op = "reload" -> Refilled(lane)
                      [] op = "four"   -> Four(t, Refilled(lane))
                      [] op = "one"    -> huf_one(t, lane)
  IN  Listed([i \in 1..4 |-> IF i <= k THEN Move(l[i]) ELSE l[i]])

RECURSIVE Singly(_, _, _, _), InStep(_, _, _, _)
Singly(t, l, upto, k) ==
  IF Len(l[1].out) >= upto THEN l ELSE Singly(t, OnLanes(t, "one", l, k), upto, k)
InStep(t, l, upto, k) ==
  IF Len(l[1].out) + 4 > upto THEN Singly(t, l, upto, k)
  ELSE IF \A i \in 1..k : IsFull(l[i]) THEN InStep(t, OnLanes(t, "four", l, k), upto, k)
  ELSE Singly(t, OnLanes(t, "reload", l, k), upto, k)

decode_4stream(t, s, regen) ==
  LET Field(i) == FromBits(SubSeq(s, 16 * i - 15, 16 * i))
      End(i) == 48 + 8 * SumOf([j \in 1..i |-> Field(j)])
      part == <<SubSeq(s, 49, End(1)), SubSeq(s, End(1) + 1, End(2)),
                SubSeq(s, End(2) + 1, End(3)), SubSeq(s, End(3) + 1, Len(s))>>
      seg == DivUp(regen, 4)
      last == regen - 3 * seg
  IN  IF \/ NumBytes(s) < 6 \/ End(3) > Len(s) \/ 3 * seg > regen
         \/ \E i \in 1..4 : NewReader(part[i]) = None
      THEN None
      ELSE LET all == Listed([i \in 1..4 |-> Lane(part[i])])
               Out(l) == l[1].out \o l[2].out \o l[3].out \o l[4].out
           IN  Out(InStep(t, InStep(t, all, last, 4), seg, 3))

-----------------------------------------------------------------------------
(* The section: a two-bit type (0 Raw, 1 RLE, 2 Compressed, 3 Treeless), a *)
(* two-bit format, the sizes, the payload.                                 *)

size_format_Tight(four, regen, comp) ==  \* mutant: the payload is not looked at
  IF ~four THEN IF regen < 1024 THEN 0 ELSE None
  ELSE CASE regen < 1024 -> 1 [] regen < 16384 -> 2 [] regen < 262144 -> 3 [] OTHER -> None
size_format(four, regen, comp) ==
  LET Fit(limit) == regen < limit /\ comp < limit
  IN  IF ~four THEN IF Fit(1024) THEN 0 ELSE None
      ELSE CASE Fit(1024) -> 1 [] Fit(16384) -> 2 [] Fit(262144) -> 3 [] OTHER -> None

SizeBits(fmt) == CASE fmt \in {0, 1} -> 10 [] fmt = 2 -> 14 [] fmt = 3 -> 18
compressed_header_len(four, regen, comp) ==
  LET fmt == size_format(four, regen, comp)
  IN  IF fmt = None THEN None ELSE (4 + 2 * SizeBits(fmt)) \div 8
write_compressed_lit_header(type, four, regen, comp) ==
  LET fmt == size_format(four, regen, comp)
  IN  IF fmt = None THEN None
      ELSE ToBits(type, 2) \o ToBits(fmt, 2) \o ToBits(regen, SizeBits(fmt))
           \o ToBits(comp, SizeBits(fmt))

raw_header_len(n) == CASE n < 32 -> 1 [] n >= 32 /\ n < 4096 -> 2 [] OTHER -> 3
RawHeader(n) ==
  CASE n < 32 -> ToBits(0, 3) \o ToBits(n, 5)
    [] n >= 32 /\ n < 4096 -> ToBits(0, 2) \o ToBits(1, 2) \o ToBits(n, 12)
    [] OTHER -> ToBits(0, 2) \o ToBits(3, 2) \o ToBits(n, 20)
write_raw_literals(s) ==
  RawHeader(Len(s)) \o [i \in 1..(8 * Len(s)) |-> (s[DivUp(i, 8)] \div 2^((i - 1) % 8)) % 2]

(* Both compressed forms; None where a size has no format.                 *)
AssembleSection(type, header, s, streams) ==
  LET payload == header \o streams
      h == write_compressed_lit_header(type, UseFour(Len(s)), Len(s), NumBytes(payload))
  IN  IF streams = None \/ h = None THEN None ELSE h \o payload
assemble_compressed_section(table, header, s) ==
  AssembleSection(2, header, s, encode_lit_streams(table, s))
build_treeless_section(table, s) == AssembleSection(3, <<>>, s, encode_lit_streams(table, s))

SizeWith(table, header, s) ==
  LET len == streams_byte_len(table, s)
      payload == NumBytes(header) + len
      h == compressed_header_len(UseFour(Len(s)), Len(s), payload)
  IN  IF len = None \/ h = None THEN None ELSE h + payload

(* The candidate that is strictly smaller than those before it: [size,     *)
(* section, table].                                                        *)
Keeps_Fresh(candidate, prev) == candidate.table  \* mutant: the fresh table, sent or not
Keeps(candidate, prev) == IF candidate.type = 2 THEN candidate.table ELSE prev
Raw(s, fresh, prev) ==
  [type |-> 0, size |-> raw_header_len(Len(s)) + Len(s), header |-> <<>>,
   table |-> IF fresh = None THEN prev ELSE fresh.table]
Best(s, freq, fresh, prev) ==
  LET raw == Raw(s, fresh, prev)
      compressed == IF fresh = None THEN raw
                    ELSE [type |-> 2, size |-> SizeWith(fresh.table, fresh.header, s),
                          header |-> fresh.header, table |-> fresh.table]
      treeless == IF prev = None \/ ~can_encode_hist(prev, freq) THEN raw
                  ELSE [type |-> 3, size |-> SizeWith(prev, <<>>, s), header |-> <<>>,
                        table |-> prev]
      Better(a, b) == IF b.size # None /\ b.size < a.size THEN b ELSE a
  IN  Better(Better(raw, compressed), treeless)

(* The winner's bits; without any, the literals are stored.                *)
Emitted(s, candidate, bits, prev) ==
  [type |-> candidate.type, size |-> candidate.size, bits |-> bits,
   table |-> Keeps(candidate, prev)]
Encoded(s, best) ==
  CASE best.type = 0 -> None
    [] best.type = 2 -> assemble_compressed_section(best.table, best.header, s)
    [] best.type = 3 -> build_treeless_section(best.table, s)
write_literals_auto(s, prev) ==
  LET Emit(raw, best, bits) ==
        IF bits = None THEN Emitted(s, raw, write_raw_literals(s), prev)
        ELSE Emitted(s, best, bits, prev)
      Choose(fresh, best) == Emit(Raw(s, fresh, prev), best, Encoded(s, best))
      From(fresh) == Choose(fresh, Best(s, Histogram(s), fresh, prev))
  IN  From(build_fresh_table(Histogram(s)))

(* literals::decode: the sizes in the header, then the whole section, with *)
(* the table it leaves in the cache.                                       *)
ParseHeader(s) ==
  LET type == FromBits(SubSeq(s, 1, 2))
      fmt == FromBits(SubSeq(s, 3, 4))
      Field(from, n) == FromBits(SubSeq(s, from, from + n - 1))
  IN  IF type <= 1
      THEN CASE fmt \in {0, 2} -> [type |-> type, hdr |-> 1, regen |-> Field(4, 5)]
             [] fmt = 1 -> [type |-> type, hdr |-> 2, regen |-> Field(5, 12)]
             [] fmt = 3 -> [type |-> type, hdr |-> 3, regen |-> Field(5, 20)]
      ELSE [type |-> type, hdr |-> (4 + 2 * SizeBits(fmt)) \div 8, four |-> fmt # 0,
            regen |-> Field(5, SizeBits(fmt)), comp |-> Field(5 + SizeBits(fmt), SizeBits(fmt))]

DecodeStreams(h, r, region) ==
  LET stream == SubSeq(region, 8 * r.bytes + 1, Len(region))
      With(o) == IF o = None THEN None
                 ELSE [out |-> o, bytes |-> h.hdr + h.comp, table |-> r.table]
  IN  IF r = None THEN None ELSE IF r.table = None THEN None
      ELSE With(IF h.four THEN decode_4stream(r.table, stream, h.regen)
                ELSE decode_1stream(r.table, stream, h.regen))
DecodeAt(s, h, kept) ==
  LET At(i) == FromBits(SubSeq(s, 8 * i - 7, 8 * i))
      region == SubSeq(s, 8 * h.hdr + 1, 8 * (h.hdr + h.comp))
  IN  CASE h.type = 0 -> [out |-> [i \in 1..h.regen |-> At(h.hdr + i)],
                          bytes |-> h.hdr + h.regen, table |-> kept]
        [] h.type = 1 -> [out |-> Repeated(At(h.hdr + 1), h.regen),
                          bytes |-> h.hdr + 1, table |-> kept]
        [] OTHER -> IF NumBytes(s) < h.hdr + h.comp THEN None
                    ELSE DecodeStreams(h, IF h.type = 2 THEN read_table(region)
                                          ELSE [table |-> kept, bytes |-> 0], region)
decode(s, kept) == DecodeAt(s, ParseHeader(s), kept)

-----------------------------------------------------------------------------
(* A frame: its dictionary's table, if any, then blocks, each written and  *)
(* read with the tables of the blocks before it.                           *)

Init ==
  /\ \/ pc = "write" /\ source = None
     \/ /\ pc = "load"
        /\ source \in {[weights |-> w] : w \in Foreign} \cup {[freq |-> h] : h \in Histograms}
     \/ pc = "header" /\ source = None
  /\ block = 0 /\ lits = <<>> /\ cur = None /\ section = None /\ cache = None /\ out = None

(* The decoder loads the dictionary's table, the encoder makes its own     *)
(* from that.                                                              *)
Reread(header) ==
  LET With(r) == IF r = None THEN None ELSE r.table
  IN  IF header = None THEN None ELSE With(read_table(header \o Repeated(1, 64)))
Load ==
  /\ pc = "load"
  /\ cache' = IF "weights" \in DOMAIN source THEN build_table(source.weights)
              ELSE Reread(write_dict_huffman_table(source.freq))
  /\ cur' = IF cache' = None THEN None ELSE code_table_from_huff(cache')
  /\ pc' = IF cache' = None THEN "done" ELSE "write"
  /\ block' = 1
  /\ UNCHANGED <<source, lits, section, out>>

Write ==
  /\ pc = "write" /\ block < Blocks
  /\ lits' \in Literals
  /\ section' = write_literals_auto(lits', cur)
  /\ cur' = section'.table
  /\ pc' = "read" /\ block' = block + 1
  /\ UNCHANGED <<source, cache, out>>

(* The sequences section follows the literals.                             *)
Read ==
  /\ pc = "read"
  /\ out' = decode(section.bits \o Repeated(1, 16), cache)
  /\ cache' = IF out' = None THEN cache ELSE out'.table
  /\ pc' = "write"
  /\ UNCHANGED <<block, source, lits, cur, section>>

(* A header alone, with sizes no block of an instance reaches.             *)
Header ==
  /\ pc = "header"
  /\ \E regen, comp \in Sizes, four \in BOOLEAN, type \in {0, 2, 3} :
       /\ lits' = [type |-> type, four |-> four, regen |-> regen, comp |-> comp]
       /\ section' = IF type = 0 THEN RawHeader(regen)
                     ELSE write_compressed_lit_header(type, four, regen, comp)
  /\ section' # None
  /\ pc' = "parse"
  /\ UNCHANGED <<block, source, cur, cache, out>>

Parse ==
  /\ pc = "parse" /\ out' = ParseHeader(section \o Repeated(1, 16)) /\ pc' = "done"
  /\ UNCHANGED <<block, source, lits, cur, section, cache>>

Next == Load \/ Write \/ Read \/ Header \/ Parse
Spec == Init /\ [][Next]_vars

-----------------------------------------------------------------------------
(* Properties.                                                             *)

(* Whatever weights are accepted, every entry of the table is one symbol's *)
(* (build_table's residual check): no stream can run into an empty entry.  *)
AcceptedComplete == cache # None => Complete(cache)

(* "Build length-limited Huffman code lengths": a dictionary trained on a  *)
(* histogram has codes of at most eleven bits that use up the code space,  *)
(* and a more frequent symbol never has a longer one.                      *)
LengthsSound ==
  pc = "load" /\ "freq" \in DOMAIN source /\ Cardinality(source.freq) >= 2 =>
    LET lengths == code_lengths(source.freq)
        LenOf(b) == (CHOOSE x \in lengths : x.symbol = b).len
    IN  /\ SumOf([l \in 1..MAX_CODE_LEN |->
                    Cardinality({x \in lengths : x.len = l}) * 2^(MAX_CODE_LEN - l)])
             = 2^MAX_CODE_LEN
        /\ \A f, g \in source.freq : f.count > g.count => LenOf(f.symbol) <= LenOf(g.symbol)

(* The codes in use are prefix codes without a gap.                        *)
CodesComplete == AcceptedComplete /\ LengthsSound

(* A dictionary's histogram that has a description has one the decoder     *)
(* reads back.                                                             *)
DictLoads ==
  pc = "done" /\ source # None /\ "freq" \in DOMAIN source =>
    write_dict_huffman_table(source.freq) = None

(* "The two can never drift apart": between blocks the encoder's codes are *)
(* those of the decoder's cached table, whichever kinds of blocks came     *)
(* before and wherever the table is from.                                  *)
SameTable ==
  pc = "write" =>
    /\ cur = None <=> cache = None
    /\ cur # None =>
         {[symbol |-> c.symbol, num_bits |-> c.nbits, code |-> c.code] : c \in cur.codes} =
         {[symbol |-> c.symbol, num_bits |-> c.num_bits,
           code |-> c.first \div 2^(cache.max_bits - c.num_bits)] : c \in cache.ranges}

(* Both sides have the same tables, those of a dictionary included.        *)
TablesAgree == SameTable /\ DictLoads

(* The decoder returns the literals and the length of the section.         *)
RoundTrip ==
  pc = "write" /\ section # None =>
    out # None /\ out.out = lits /\ out.bytes = NumBytes(section.bits)

(* "Pick the smallest candidate by its exact size, computed without        *)
(* encoding any streams": the section has the size it was chosen for, and  *)
(* none of its alternatives, encoded in full, would have been shorter.     *)
SizeExact ==
  pc = "read" =>
    LET fresh == build_fresh_table(Histogram(lits))
        Shorter(bits) == bits # None /\ Len(bits) < Len(section.bits)
    IN  /\ section.size = NumBytes(section.bits)
        /\ ~Shorter(write_raw_literals(lits))
        /\ fresh # None => ~Shorter(assemble_compressed_section(fresh.table, fresh.header, lits))

(* The sizes of a header come back, at every boundary of its formats, with *)
(* the length the sizer counts.                                            *)
HeaderExact ==
  pc = "done" /\ source = None =>
    /\ out.type = lits.type /\ out.regen = lits.regen
    /\ IF out.type = 0 THEN out.hdr = raw_header_len(lits.regen)
       ELSE /\ out.four = lits.four /\ out.comp = lits.comp
            /\ out.hdr = compressed_header_len(lits.four, lits.regen, lits.comp)

(* What the sizer counts is what is written.                               *)
SizesExact == SizeExact /\ HeaderExact
=============================================================================

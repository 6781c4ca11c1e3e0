------------------------------ MODULE SeqCoding ------------------------------
(***************************************************************************)
(* The sequences section of a compressed block, from the sequences of the  *)
(* parse to those the decoder reads (src/encode/sequences.rs,              *)
(* src/sequences.rs): the codes of a sequence's three fields, the table    *)
(* mode of each channel by exact cost, the bits, their reader, and the     *)
(* tables each side keeps for later blocks.  A frame may start from a      *)
(* dictionary's tables (src/dict.rs), trained here or made elsewhere.      *)
(*                                                                         *)
(* A sequence is <<lit_len, match_len, offset_value>>.                     *)
(***************************************************************************)
EXTENDS Fse

CONSTANTS
  Sections,     \* the sequences a block may have
  Training,     \* sequences a dictionary's tables are made of
  Foreign,      \* tables of dictionaries from elsewhere: <<counts, log>> per channel
  Damages,      \* among how many leading bits of theirs damage may begin
  Counts,       \* numbers of sequences a header may have to hold
  MaxBlocks     \* bound: sections per frame, a dictionary counted as one

VARIABLES
  pc,       \* "load", "plan", "write", "read", "refused"; "count" for a header alone
  dict,     \* the dictionary: [ss, bits], ss None for one from elsewhere
  prev,     \* the encoder's tables, None where there is none
  cache,    \* the decoder's
  block,    \* sections so far, the dictionary included
  seqs,     \* the section's sequences
  plan,     \* what plan_channel chose, per channel
  section,  \* its bits
  got       \* what the decoder read

vars == <<pc, dict, prev, cache, block, seqs, plan, section, got>>

Channel == {"ll", "of", "ml"}
NoTables == [c \in Channel |-> None]
OneMissing(t) == \E c \in Channel : t[c] = None

-----------------------------------------------------------------------------
(* Codes, and the bits that complete them.                                 *)

LL_BASE == <<0, 1, 2, 3, 4, 5, 6, 7, 8, 9, 10, 11, 12, 13, 14, 15, 16, 18, 20, 22, 24, 28, 32,
  40, 48, 64, 128, 256, 512, 1024, 2048, 4096, 8192, 16384, 32768, 65536>>
LL_BITS == Zeros(16) \o <<1, 1, 1, 1, 2, 2, 3, 3, 4, 6, 7, 8, 9, 10, 11, 12, 13, 14, 15, 16>>
ML_BASE == [i \in 1..32 |-> i + 2] \o <<35, 37, 39, 41, 43, 47, 51, 59, 67, 83, 99, 131, 259,
  515, 1027, 2051, 4099, 8195, 16387, 32771, 65539>>
ML_BITS == Zeros(32) \o <<1, 1, 1, 1, 2, 2, 3, 3, 4, 4, 5, 7, 8, 9, 10, 11, 12, 13, 14, 15, 16>>

LL_DEFAULT == <<4, 3>> \o Repeated(2, 11) \o Repeated(1, 3) \o Repeated(2, 9) \o <<3, 2>>
  \o Repeated(1, 5) \o Repeated(-1, 4)
OF_DEFAULT == Repeated(1, 6) \o <<2, 2, 2>> \o Repeated(1, 15) \o Repeated(-1, 5)
ML_DEFAULT == <<1, 4, 3>> \o Repeated(2, 6) \o Repeated(1, 37) \o Repeated(-1, 7)

Default == [ll |-> LL_DEFAULT, of |-> OF_DEFAULT, ml |-> ML_DEFAULT]
PredLog == [ll |-> 6, of |-> 5, ml |-> 6]
MaxLog  == [ll |-> 9, of |-> 8, ml |-> 9]

(* The largest code whose baseline fits.                                   *)
LastFitting(base, x) == Cardinality({i \in DOMAIN base : base[i] <= x}) - 1
ll_code(lit_len)      == LastFitting(LL_BASE, lit_len)
ml_code(match_len)    == LastFitting(ML_BASE, match_len)
of_code(offset_value) == highbit32(offset_value)

Code(c, s) == CASE c = "ll" -> ll_code(s[1])
                [] c = "ml" -> ml_code(s[2])
                [] c = "of" -> of_code(s[3])
Codes(c, ss) == [i \in 1..Len(ss) |-> Code(c, ss[i])]
Extra(c, s) ==
  LET code == Code(c, s)
  IN  CASE c = "ll" -> ToBits(s[1] - LL_BASE[code + 1], LL_BITS[code + 1])
        [] c = "ml" -> ToBits(s[2] - ML_BASE[code + 1], ML_BITS[code + 1])
        [] c = "of" -> ToBits(s[3], code)

-----------------------------------------------------------------------------
(* The number of sequences.                                                *)

write_seq_count(n) ==
  IF n < 128 THEN ToBits(n, 8)
  ELSE IF n < 32512 THEN ToBits(128 + (n \div 256), 8) \o ToBits(n % 256, 8)
  ELSE ToBits(255, 8) \o ToBits((n - 32512) % 256, 8) \o ToBits((n - 32512) \div 256, 8)

ByteAt(s, p) == FromBits(SubSeq(s, 8 * p + 1, 8 * p + 8))
ReadCount(s) ==
  LET b0 == ByteAt(s, 0)
      bytes == IF b0 < 128 THEN 1 ELSE IF b0 < 255 THEN 2 ELSE 3
  IN  IF NumBytes(s) < bytes THEN None
      ELSE [p |-> bytes,
            nb_seq |-> CASE bytes = 1 -> b0
                         [] bytes = 2 -> 256 * (b0 - 128) + ByteAt(s, 1)
                         [] bytes = 3 -> ByteAt(s, 1) + 256 * ByteAt(s, 2) + 32512]

-----------------------------------------------------------------------------
(* The table mode of a channel: predefined (0), a single code (1),         *)
(* described (2) or repeated (3), whichever costs least in bits.           *)

Freq(codes) ==
  LET max_sym == CHOOSE m \in ToSet(codes) : \A x \in ToSet(codes) : x <= m
  IN  [i \in 1..(max_sym + 1) |-> Cardinality({j \in DOMAIN codes : codes[j] = i - 1})]
TableLog(c, f) ==
  Lesser(MaxLog[c], Greater(optimal_table_log(MaxLog[c], SumOf(f), Len(f) - 1),
                            min_table_log(Cardinality(Present(f)))))

Planned(mode, ct, header, cost) ==
  [mode |-> mode, ct |-> ct, header |-> header, cost |-> cost]
Log(c, codes)  == TableLog(c, Freq(codes))
Norm(c, codes) == normalize_counts(Freq(codes), Log(c, codes))
PredCt(c) == build_ctable(Default[c], PredLog[c])

Predefined(c, codes) ==
  IF \E x \in ToSet(codes) : x >= Len(Default[c]) THEN {}
  ELSE LET ct == PredCt(c) IN {Planned(0, ct, <<>>, stream_cost_bits(ct, codes))}
Rle(codes) ==
  IF Cardinality(ToSet(codes)) > 1 THEN {}
  ELSE {Planned(1, build_rle_ctable(codes[1]), ToBits(codes[1], 8), 8)}
HeaderCost_Free(header) == 0  \* mutant: the description costs nothing
HeaderCost(header) == Len(header)
Described(c, codes) ==
  IF Cardinality(ToSet(codes)) < 2 THEN {}
  ELSE LET norm   == Norm(c, codes)
           header == write_ncount(norm, Log(c, codes)).bytes
           ct     == build_ctable(norm, Log(c, codes))
       IN  {Planned(2, ct, header, stream_cost_bits(ct, codes) + HeaderCost(header))}
Repeat(codes, t) ==
  IF t = None \/ ~can_encode(t, codes) THEN {}
  ELSE {Planned(3, t, <<>>, stream_cost_bits(t, codes))}

Candidates(c, codes, t) ==
  Predefined(c, codes) \cup Rle(codes) \cup Described(c, codes) \cup Repeat(codes, t)

(* The first of the cheapest, in the order of the modes.                   *)
plan_channel(c, codes, t) ==
  LET all == Candidates(c, codes, t)
  IN  CHOOSE p \in all : \A q \in all : p.cost < q.cost \/ (p.cost = q.cost /\ p.mode <= q.mode)

-----------------------------------------------------------------------------
(* The bits: from the last sequence to the first, its state transitions    *)
(* (offset, match length, literals length), then its extra bits.  st is    *)
(* [w, value]: the writer and the three states.                            *)

PutExtra(w, s) == add(add(add(w, Extra("ll", s)), Extra("ml", s)), Extra("of", s))
Transition(p, st, c, s) ==
  LET e == encode_symbol(p[c].ct, st.w, st.value[c], Code(c, s))
  IN  [w |-> e.w, value |-> [st.value EXCEPT ![c] = e.value]]
PutSequence(p, st, s) ==
  LET t == Transition(p, Transition(p, Transition(p, st, "of", s), "ml", s), "ll", s)
  IN  [t EXCEPT !.w = PutExtra(@, s)]

RECURSIVE PutDown(_, _, _, _, _)
PutDown(p, st, ss, lo, hi) ==
  IF lo > hi \/ st.w.full THEN st
  ELSE IF lo = hi THEN PutSequence(p, st, ss[lo])
  ELSE LET mid == (lo + hi) \div 2
       IN  PutDown(p, PutDown(p, st, ss, mid + 1, hi), ss, lo, mid)

Flush(p, st, c) == [st EXCEPT !.w = flush_state(p[c].ct, @, st.value[c])]
encode_seq_bitstream(p, ss) ==
  LET last  == ss[Len(ss)]
      start == [w |-> PutExtra(NewWriter, last),
                value |-> [c \in Channel |-> init_state2(p[c].ct, Code(c, last))]]
      end   == PutDown(p, start, ss, 1, Len(ss) - 1)
  IN  finish(Flush(p, Flush(p, Flush(p, end, "ml"), "of"), "ll").w)

WriteSection(p, ss) ==
  IF ss = <<>> THEN write_seq_count(0)
  ELSE write_seq_count(Len(ss))
       \o ToBits(64 * p["ll"].mode + 16 * p["of"].mode + 4 * p["ml"].mode, 8)
       \o p["ll"].header \o p["of"].header \o p["ml"].header
       \o encode_seq_bitstream(p, ss)

-----------------------------------------------------------------------------
(* The reader.  rd is [p, modes], p the next byte; None once it failed.    *)

rle_table(symbol) ==
  [log |-> 0, entries |-> (0 :> [symbol |-> symbol, num_bits |-> 0, base |-> 0])]

parse_mode(s, p, raw, max_log) ==
  LET rest == SubSeq(s, 8 * p + 1, Len(s))
      With(nc) == IF nc = None THEN None
                  ELSE [p |-> p + nc.bytes, mode |-> "Fse",
                        table |-> build_dtable(nc.counts, nc.log)]
  IN  CASE raw = 0 -> [p |-> p, mode |-> "Predefined", table |-> None]
        [] raw = 1 -> IF rest = <<>> THEN None
                      ELSE [p |-> p + 1, mode |-> "Rle", table |-> rle_table(ByteAt(s, p))]
        [] raw = 2 -> With(read_ncount(rest, max_log))
        [] raw = 3 -> [p |-> p, mode |-> "Repeat", table |-> None]

PredDt(c) == build_dtable(Default[c], PredLog[c])
resolve_table(c, parsed, tables) ==
  CASE parsed.mode = "Repeat" -> tables[c]
    [] parsed.mode = "Predefined" -> PredDt(c)
    [] OTHER -> parsed.table

(* One sequence: extra bits of offset, match length and literals length,   *)
(* then, unless it is the last, the transitions of literals length, match  *)
(* length and offset.  d is [r, state, seqs], r None for a code out of     *)
(* range.                                                                  *)
Lazy(s, r, n) ==
  LET g == ensure(r, n) IN [r |-> consume(g, n), value |-> PeekNum(s, g, n)]
Updated(s, d, c, e) ==
  [r |-> consume(d.r, e.num_bits), seqs |-> d.seqs,
   state |-> [d.state EXCEPT ![c] = e.base + PeekNum(s, d.r, e.num_bits)]]

AllUpdated_OffsetFirst(s, d, e) ==  \* mutant: in the order of the extra bits
  Updated(s, Updated(s, Updated(s, d, "of", e["of"]), "ml", e["ml"]), "ll", e["ll"])
AllUpdated(s, d, e) ==
  Updated(s, Updated(s, Updated(s, d, "ll", e["ll"]), "ml", e["ml"]), "of", e["of"])

ReadSequence(s, t, d, more) ==
  LET e   == [c \in Channel |-> t[c].entries[d.state[c]]]
      of  == Lazy(s, d.r, e["of"].symbol)
      ml  == Lazy(s, of.r, ML_BITS[e["ml"].symbol + 1])
      ll  == Lazy(s, ml.r, LL_BITS[e["ll"].symbol + 1])
      seq == <<LL_BASE[e["ll"].symbol + 1] + ll.value, ML_BASE[e["ml"].symbol + 1] + ml.value,
               2^e["of"].symbol + of.value>>
      full == ensure(ll.r, e["ll"].num_bits + e["ml"].num_bits + e["of"].num_bits)
      read == [r |-> IF more THEN full ELSE ll.r, state |-> d.state, seqs |-> Append(d.seqs, seq)]
  IN  IF \/ e["ll"].symbol >= Len(LL_BASE) \/ e["ml"].symbol >= Len(ML_BASE)
         \/ e["of"].symbol > 31
      THEN [d EXCEPT !.r = None]
      ELSE IF more THEN AllUpdated(s, read, e) ELSE read

RECURSIVE ReadUp(_, _, _, _, _, _)
ReadUp(s, t, d, lo, hi, n) ==
  IF lo > hi \/ d.r = None THEN d
  ELSE IF lo = hi THEN ReadSequence(s, t, d, lo < n)
  ELSE LET mid == (lo + hi) \div 2
       IN  ReadUp(s, t, ReadUp(s, t, d, lo, mid, n), mid + 1, hi, n)

(* The states are read in the order literals length, offset, match length. *)
ReadBitstream(s, t, n) ==
  LET r0 == NewReader(s)
      r1 == consume(r0, t["ll"].log)
      r2 == consume(r1, t["of"].log)
      start == [r |-> consume(r2, t["ml"].log), seqs |-> <<>>,
                state |-> [ll |-> PeekNum(s, r0, t["ll"].log),
                           of |-> PeekNum(s, r1, t["of"].log),
                           ml |-> PeekNum(s, r2, t["ml"].log)]]
      end == ReadUp(s, t, start, 1, n, n)
  IN  IF r0 = None THEN None ELSE IF end.r = None THEN None ELSE end.seqs

(* The tables of the channels in the order literals length, offset, match  *)
(* length.  rd is [p, tables]: the next byte and the tables so far.        *)
Resolved(c, rd, parsed, kept) ==
  IF parsed = None THEN None
  ELSE [p |-> parsed.p, tables |-> [rd.tables EXCEPT ![c] = resolve_table(c, parsed, kept)]]
ReadTable(s, rd, c, raw, kept) ==
  IF rd = None THEN None ELSE Resolved(c, rd, parse_mode(s, rd.p, raw, MaxLog[c]), kept)
ReadTables(s, p, kept) ==
  LET modes == ByteAt(s, p)
      ll == ReadTable(s, [p |-> p + 1, tables |-> NoTables], "ll", modes \div 64, kept)
      of == ReadTable(s, ll, "of", (modes \div 16) % 4, kept)
  IN  ReadTable(s, of, "ml", (modes \div 4) % 4, kept)

(* A whole section: the sequences and the tables kept, or None.            *)
ReadSequences(s, rd, n) ==
  LET Got(ss) == IF ss = None THEN None ELSE [seqs |-> ss, tables |-> rd.tables]
  IN  IF rd = None THEN None ELSE IF OneMissing(rd.tables) THEN None
      ELSE Got(ReadBitstream(SubSeq(s, 8 * rd.p + 1, Len(s)), rd.tables, n))
decode(s, tables) ==
  LET From(count) ==
        IF count = None THEN None
        ELSE IF count.nb_seq = 0 THEN [seqs |-> <<>>, tables |-> tables]
        ELSE IF NumBytes(s) <= count.p THEN None
        ELSE ReadSequences(s, ReadTables(s, count.p, tables), count.nb_seq)
  IN  From(ReadCount(s))

-----------------------------------------------------------------------------
(* The tables of a dictionary, in its own order: offset, match length,     *)
(* literals length.                                                        *)

write_dict_fse_table(c, codes) ==
  IF Cardinality(ToSet(codes)) < 2 THEN write_ncount(Default[c], PredLog[c]).bytes
  ELSE write_ncount(Norm(c, codes), Log(c, codes)).bytes
write_dict_seq_tables(ss) ==
  write_dict_fse_table("of", Codes("of", ss)) \o write_dict_fse_table("ml", Codes("ml", ss))
    \o write_dict_fse_table("ll", Codes("ll", ss))

(* Dictionary::parse: the counts of each, of which the encoder builds its  *)
(* tables, and the decoder's, or None.                                     *)
ParseCounts(bits, rd, c) ==
  LET With(nc) == IF nc = None THEN None
                  ELSE [p |-> rd.p + nc.bytes, counts |-> [rd.counts EXCEPT ![c] = nc]]
  IN  IF rd = None THEN None
      ELSE With(read_ncount(SubSeq(bits, 8 * rd.p + 1, Len(bits)), MaxLog[c]))
ParsedTables(rd) ==
  LET With(dt) == IF OneMissing(dt) THEN None ELSE [counts |-> rd.counts, tables |-> dt]
  IN  IF rd = None THEN None
      ELSE With([c \in Channel |-> build_dtable(rd.counts[c].counts, rd.counts[c].log)])
parse(bits) ==
  LET of == ParseCounts(bits, [p |-> 0, counts |-> NoTables], "of")
  IN  ParsedTables(ParseCounts(bits, ParseCounts(bits, of, "ml"), "ll"))

-----------------------------------------------------------------------------
(* The frame: a cold start or a dictionary, then its sections.             *)

ForeignBits(t) ==
  write_ncount(t["of"][1], t["of"][2]).bytes \o write_ncount(t["ml"][1], t["ml"][2]).bytes
    \o write_ncount(t["ll"][1], t["ll"][2]).bytes
(* A bit flipped, or everything from a byte on lost.                       *)
Damaged(bits, i) ==
  {[bits EXCEPT ![i] = 1 - @]}
  \cup (IF i % 8 = 0 THEN {SubSeq(bits, 1, i) \o Repeated(1, 256)} ELSE {})

Init ==
  /\ \/ pc = "plan" /\ dict = None /\ section = <<>>
     \/ pc = "load" /\ section = <<>>
        /\ \/ \E ss \in Training : dict = [ss |-> ss, bits |-> write_dict_seq_tables(ss)]
           \/ \E t \in Foreign : dict = [ss |-> None, bits |-> ForeignBits(t)]
           \/ \E t \in Foreign, i \in 1..Damages :
                \E bits \in Damaged(ForeignBits(t), i) : dict = [ss |-> None, bits |-> bits]
     \/ pc = "count" /\ dict = None /\ \E n \in Counts : section = <<n>>
  /\ prev = NoTables /\ cache = NoTables
  /\ block = 0 /\ seqs = <<>> /\ plan = NoTables /\ got = None

StartFrom(t) ==
  IF t = None THEN pc' = "refused" /\ UNCHANGED <<prev, cache>>
  ELSE /\ pc' = "plan"
       /\ prev' = [c \in Channel |-> build_ctable(t.counts[c].counts, t.counts[c].log)]
       /\ cache' = t.tables
Load ==
  /\ pc = "load" /\ StartFrom(parse(dict.bits))
  /\ block' = block + 1
  /\ UNCHANGED <<dict, seqs, plan, section, got>>

Plan ==
  /\ pc = "plan" /\ block < MaxBlocks
  /\ \E ss \in Sections :
       /\ seqs' = ss
       /\ plan' = IF ss = <<>> THEN NoTables
                  ELSE [c \in Channel |-> plan_channel(c, Codes(c, ss), prev[c])]
  /\ got' = None /\ section' = <<>> /\ block' = block + 1 /\ pc' = "write"
  /\ UNCHANGED <<dict, prev, cache>>

(* An empty section leaves the tables as they are.                         *)
Used_First == [c \in Channel |->  \* mutant: the first tables stay
  IF prev[c] # None \/ seqs = <<>> THEN prev[c] ELSE plan[c].ct]
Used == [c \in Channel |-> IF seqs = <<>> THEN prev[c] ELSE plan[c].ct]
Write ==
  /\ pc = "write"
  /\ section' = WriteSection(plan, seqs) /\ prev' = Used /\ pc' = "read"
  /\ UNCHANGED <<dict, cache, block, seqs, plan, got>>

Take(d) ==
  IF d = None THEN pc' = "refused" /\ UNCHANGED <<cache, got>>
  ELSE pc' = "plan" /\ cache' = d.tables /\ got' = d.seqs
Read ==
  /\ pc = "read" /\ Take(decode(section, cache))
  /\ UNCHANGED <<dict, prev, block, seqs, plan, section>>

Next == Load \/ Plan \/ Write \/ Read
Spec == Init /\ [][Next]_vars

-----------------------------------------------------------------------------
(* Properties.                                                             *)

(* Every section is read back as the sequences it was written for, and no  *)
(* section is refused, whatever tables and blocks came before.             *)
RoundTrip ==
  /\ pc = "plan" /\ section # <<>> => got = seqs
  /\ pc = "refused" => section = <<>>

(* "The reused table is byte-identical on both sides": after every section *)
(* and every dictionary the parser accepts, damaged ones included, an      *)
(* encoder step from any state is undone by the decoder's table.           *)
SameTables ==
  pc = "plan" => \A c \in Channel : prev[c] # None => Matches(prev[c], cache[c])

(* A described table has a count for exactly the codes that occur and      *)
(* fills its size, and the writer's 32-bit accumulator held its            *)
(* description.                                                            *)
NormExact ==
  pc = "write" /\ seqs # <<>> =>
    \A c \in Channel : plan[c].mode = 2 =>
      LET codes == Codes(c, seqs)
          norm  == Norm(c, codes)
      IN  /\ SumOf(norm) = 2^plan[c].ct.log
          /\ \A x \in 0..(Len(norm) - 1) :
               IF x \in ToSet(codes) THEN norm[x + 1] >= 1 ELSE norm[x + 1] = 0
          /\ write_ncount(norm, Log(c, codes)).widest <= 32

(* The tables are those of the data, and both sides have them or neither.  *)
TablesSound ==
  /\ NormExact /\ SameTables
  /\ pc = "plan" => \A c \in Channel : prev[c] = None <=> cache[c] = None

(* "Choosing the cheapest table mode per channel": no other mode that      *)
(* could encode a channel makes the section shorter, predefined included.  *)
Cheapest ==
  pc = "write" /\ seqs # <<>> =>
    LET chosen == Len(WriteSection(plan, seqs))
    IN  \A c \in Channel : \A q \in Candidates(c, Codes(c, seqs), prev[c]) \ {plan[c]} :
          chosen <= Len(WriteSection([plan EXCEPT ![c] = q], seqs))

(* A trained dictionary loads, and each channel's table can encode what it *)
(* was trained on (a single code beyond the predefined table excepted).    *)
DictServes ==
  dict # None /\ block = 1 /\ seqs = <<>> =>
    IF dict.ss = None THEN TRUE
    ELSE /\ pc # "refused"
         /\ \A c \in Channel :
              LET codes == Codes(c, dict.ss)
              IN  \/ can_encode(prev[c], codes)
                  \/ Cardinality(ToSet(codes)) = 1 /\ codes[1] >= Len(Default[c])

(* The count of sequences comes back from one, two or three bytes,         *)
(* whatever follows it.                                                    *)
CountExact ==
  pc = "count" =>
    LET head == write_seq_count(section[1])
    IN  ReadCount(head \o Repeated(1, 16)) = [p |-> NumBytes(head), nb_seq |-> section[1]]

(* A section is read back from its count to its last sequence.             *)
SectionRoundTrip == RoundTrip /\ CountExact
=============================================================================

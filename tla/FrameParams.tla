---------------------------- MODULE FrameParams ----------------------------
(***************************************************************************)
(* From a level, options and an input size to the header a decoder reads:  *)
(* src/encode/params.rs, src/encode/options.rs, the sizing of the finders  *)
(* (src/encode/lz.rs), the constructors of src/encode/stream.rs, the       *)
(* header writers of src/encode/frame.rs and the parser of src/frame.rs.   *)
(*                                                                         *)
(* A size is a record [k, r]: k * 1024 + r bytes, with r < 1024, so that   *)
(* sizes beyond 4 GiB have their real value.                               *)
(***************************************************************************)
EXTENDS Integers, Sequences, FiniteSets, SequencesExt

CONSTANTS
  LevelArgs,    \* level arguments
  Sizes,        \* input sizes
  DictSizes, DictIds,  \* dictionary sizes; ids, as their four bytes
  WindowArgs,   \* window_log overrides
  None

(* The sizes of 64 bits, and what a parse of a header returns.             *)
Window    == [k : Nat, r : 0..1023]
ByteCount == {n \in Window : n.k \div 2^30 < 2^24}
DictId    == [1..4 -> 0..255]
Header    == [header_len : Nat, checksum : BOOLEAN, content_size : ByteCount \cup {None},
              window : Window, id : DictId]

ASSUME FrameParamsAssumption ==
  /\ LevelArgs \subseteq Int /\ WindowArgs \subseteq Int
  /\ Sizes \subseteq ByteCount /\ DictSizes \subseteq ByteCount /\ DictIds \subseteq DictId
  /\ None \notin Int /\ None \notin ByteCount /\ None \notin Header

VARIABLES
  pc,      \* "resolve", "write", "sent", "parsed"
  req,     \* the call: entry point, level, size, dictionary, overrides
  params,  \* the resolved parameters, with the reach of the regular finder
  wire,    \* the header bytes the decoder gets
  whole,   \* how many the encoder wrote
  parsed   \* what parse_frame_header makes of them

vars == <<pc, req, params, wire, whole, parsed>>

Least(a, b)    == IF a <= b THEN a ELSE b
Most(a, b)     == IF a >= b THEN a ELSE b
Clamp(x, l, h) == Least(Most(x, l), h)

Size(k, r)   == [k |-> k, r |-> r]
Leq(m, n)    == m.k < n.k \/ (m.k = n.k /\ m.r <= n.r)
Plus(m, n)   == Size(m.k + n.k + ((m.r + n.r) \div 1024), (m.r + n.r) % 1024)
Minus1(n)    == IF n.r > 0 THEN Size(n.k, n.r - 1) ELSE Size(n.k - 1, 1023)
Pow2(log)    == IF log >= 10 THEN Size(2^(log - 10), 0) ELSE Size(0, 2^log)

-----------------------------------------------------------------------------
(* params.rs.                                                              *)

MIN_WINDOW_LOG == 10
MAX_WINDOW_LOG == 23
LDM_MAX_WINDOW_LOG == 27
BlockLog == 17  \* BLOCK_SIZE_MAX = MAX_BLOCK_SIZE = 128 KiB

Strategies == <<"Fast", "Dfast", "Greedy", "Lazy", "Lazy2", "BtLazy2", "Btopt", "Btultra",
                "Btultra2">>
Rank(s) == CHOOSE i \in 1..9 : Strategies[i] = s

(* LEVELS: window, hash and chain log and strategy of levels 1 to 22.      *)
LEVELS ==
  << <<19, 14, 13, "Fast">>, <<20, 16, 15, "Fast">>, <<21, 17, 16, "Dfast">>,
     <<21, 18, 18, "Dfast">>, <<21, 19, 18, "Greedy">>, <<21, 19, 19, "Lazy">>,
     <<21, 20, 19, "Lazy2">>, <<21, 20, 20, "Lazy2">>, <<21, 21, 20, "Lazy2">>,
     <<22, 22, 21, "Lazy2">>, <<22, 22, 21, "Lazy2">>, <<22, 23, 22, "Lazy2">>,
     <<22, 22, 22, "BtLazy2">>, <<22, 23, 22, "BtLazy2">>, <<22, 23, 22, "BtLazy2">>,
     <<22, 23, 23, "Btopt">>, <<23, 23, 23, "Btopt">>, <<23, 23, 23, "Btultra">>,
     <<23, 24, 24, "Btultra2">>, <<25, 25, 25, "Btultra2">>, <<26, 26, 26, "Btultra2">>,
     <<27, 27, 27, "Btultra2">> >>

(* ceil_log2: the bits of n - 1, after the cast "as u32".                  *)
BitLength(x) == CHOOSE b \in 0..31 : (b = 0 \/ 2^(b - 1) <= x) /\ (b = 31 \/ x < 2^b)
ceil_log2(n) ==
  IF Leq(n, Size(0, 1)) THEN 0
  ELSE LET m == Minus1(n)
           k == m.k % 2^22
       IN  IF k > 0 THEN 10 + BitLength(k) ELSE BitLength(m.r)

params_for_level(level, n) ==
  LET row == LEVELS[Clamp(level, 1, 22)]
      needed == Most(ceil_log2(n), MIN_WINDOW_LOG)
      window == Least(Least(row[1], needed), MAX_WINDOW_LOG)
  IN  [window_log |-> window, hash_log |-> Least(row[2], window + 1),
       chain_log |-> Least(row[3], window + 1), strategy |-> row[4]]

(* The window is bumped to span the dictionary.                            *)
params_for_level_with_dict_NoBump(level, n, dict) ==  \* mutant: sized for the sum alone
  params_for_level(level, n)
params_for_level_with_dict(level, n, dict) ==
  LET p == params_for_level(level, Plus(n, dict))
      dict_reach == Clamp(ceil_log2(dict), MIN_WINDOW_LOG, MAX_WINDOW_LOG)
  IN  [p EXCEPT !.window_log = Most(@, dict_reach)]

params_for_level_ldm(level, n) ==
  LET needed == Clamp(ceil_log2(n), MIN_WINDOW_LOG, LDM_MAX_WINDOW_LOG)
  IN  [params_for_level(level, n) EXCEPT !.window_log = Most(@, needed)]

(* CompressOptions::resolve.                                               *)
Override(v, default) == IF v = None THEN default ELSE v
resolve(o, n) ==
  LET p == IF o.long_distance THEN params_for_level_ldm(o.level, n)
           ELSE params_for_level(o.level, n)
      win_max == IF o.long_distance THEN LDM_MAX_WINDOW_LOG ELSE MAX_WINDOW_LOG
  IN  [window_log |-> IF o.window = None THEN p.window_log
                      ELSE Clamp(o.window, MIN_WINDOW_LOG, win_max),
       hash_log |-> Override(o.table, p.hash_log),
       chain_log |-> Override(o.table, p.chain_log),
       strategy |-> Override(o.strategy, p.strategy)]

(* usize::MAX, which the streaming encoders pass for an unknown size: only *)
(* its low 32 bits matter.                                                 *)
UsizeMax == Size(2^22 - 1, 1023)

(* What each entry point works with: its parameters, and how far its       *)
(* regular finder may reach.  compress_with_options with long_distance     *)
(* keeps the finder within the level's own window and the advertised one.  *)
Reach_LevelOnly(p, level, n) == params_for_level(level, n).window_log  \* mutant: no min
Reach(p, level, n) == Least(params_for_level(level, n).window_log, p.window_log)

Parameters(p, reach) ==
  [window_log |-> p.window_log, hash_log |-> p.hash_log, chain_log |-> p.chain_log,
   strategy |-> p.strategy, reach |-> reach]
EntryParams(q) ==
  CASE q.entry \in {"compress", "parallel"} ->
         LET p == params_for_level(q.level, q.n) IN Parameters(p, p.window_log)
    [] q.entry = "dict" ->
         LET p == params_for_level_with_dict(q.level, q.n, q.dict)
         IN  Parameters(p, p.window_log)
    [] q.entry = "long" ->
         LET p == params_for_level_ldm(q.level, q.n)
         IN  Parameters(p, params_for_level(q.level, q.n).window_log)
    [] q.entry = "options" ->
         LET p == resolve(q, q.n)
         IN  Parameters(p, IF q.long_distance THEN Reach(p, q.level, q.n) ELSE p.window_log)
    [] q.entry = "stream" ->
         LET p == params_for_level(q.level, UsizeMax) IN Parameters(p, p.window_log)
    [] q.entry = "stream_long" ->
         LET p == params_for_level(q.level, UsizeMax)
         IN  [Parameters(p, p.window_log) EXCEPT
                !.window_log = Clamp(q.window, p.window_log, LDM_MAX_WINDOW_LOG)]

-----------------------------------------------------------------------------
(* lz.rs: the tables a finder allocates, as logs; None if it has none.     *)

TableLog(log) == Clamp(log, 6, 22)  \* MIN_HASH_LOG, MAX_HASH_LOG
HasTree(p)  == Rank(p.strategy) >= Rank("BtLazy2")
HasChain(p) == Rank(p.strategy) >= Rank("Greedy")
TreeLog(p) == Clamp(p.window_log, 6, 23)   \* MAX_BT_LOG
FinderTables(p) ==
  [hash |-> TableLog(p.hash_log),
   chain |-> IF HasChain(p) THEN TableLog(p.chain_log) ELSE None,
   tree |-> IF HasTree(p) THEN TreeLog(p) ELSE None]

(* Finder::slide_period, as a log.                                         *)
slide_period(p) ==
  LET t == FinderTables(p)
  IN  IF t.tree # None THEN Most(t.chain, t.tree)
      ELSE IF t.chain # None THEN t.chain ELSE 0

(* split_depth_for, and the overlap of a parallel worker (in logs).        *)
split_depth_for(s) ==
  IF Rank(s) >= Rank("Btopt") THEN 4 ELSE IF Rank(s) >= Rank("BtLazy2") THEN 2 ELSE 0
overlap_rlog(s) ==
  CASE s = "Btultra2" -> 0
    [] s \in {"Btopt", "Btultra"} -> 1
    [] s \in {"Lazy2", "BtLazy2"} -> 2
    [] OTHER -> 3

-----------------------------------------------------------------------------
(* The header on the wire.                                                 *)

(* The little-endian bytes of a size and back.                             *)
Bytes8(n) ==
  LET high == n.k \div 2^30
  IN  <<n.r % 256, (n.r \div 256) + 4 * (n.k % 64), (n.k \div 64) % 256, (n.k \div 2^14) % 256,
        (n.k \div 2^22) % 256, high % 256, (high \div 256) % 256, high \div 2^16>>
SizeOf(b) ==
  LET at(i) == IF i <= Len(b) THEN b[i] ELSE 0
      high  == at(6) + 256 * at(7) + 2^16 * at(8)
  IN  Size((at(2) \div 4) + 64 * at(3) + 2^14 * at(4) + 2^22 * at(5) + high * 2^30,
           at(1) + 256 * (at(2) % 4))

(* write_frame_header and write_frame_header_streaming.  A dictionary id   *)
(* takes the smallest field that holds it; None stands for a size that is  *)
(* not pledged.                                                            *)
DictIdSize(id) ==
  IF id = <<0, 0, 0, 0>> THEN 0 ELSE IF id[2] + id[3] + id[4] = 0 THEN 1
  ELSE IF id[3] + id[4] = 0 THEN 2 ELSE 4

write_frame_header_Size(n, checksum, window_log, id) ==  \* mutant: 4 bytes for any size
  LET id_size == DictIdSize(id)
      fhd == 2 * 64 + (IF checksum THEN 4 ELSE 0) + Least(id_size, 3)
  IN  <<fhd, (window_log - 10) * 8>> \o SubSeq(id, 1, id_size) \o SubSeq(Bytes8(n), 1, 4)
write_frame_header(n, checksum, window_log, id) ==
  LET fcs_flag == IF n.k < 2^22 THEN 2 ELSE 3
      id_size == DictIdSize(id)
      fhd == fcs_flag * 64 + (IF checksum THEN 4 ELSE 0) + Least(id_size, 3)
  IN  <<fhd, (window_log - 10) * 8>> \o SubSeq(id, 1, id_size)
        \o SubSeq(Bytes8(n), 1, IF fcs_flag = 2 THEN 4 ELSE 8)

write_frame_header_streaming(checksum, window_log) ==
  <<IF checksum THEN 4 ELSE 0, (window_log - 10) * 8>>

(* parse_frame_header: the descriptor says which fields follow and how     *)
(* long they are; a missing byte is an error.                              *)
parse_frame_header(src) ==
  LET fhd == src[1]
      single == (fhd \div 32) % 2 = 1
      id_size == <<0, 1, 2, 4>>[(fhd % 4) + 1]
      id_at == IF single THEN 1 ELSE 2
      fcs_at == id_at + id_size
      fcs_size == <<IF single THEN 1 ELSE 0, 2, 4, 8>>[(fhd \div 64) + 1]
      field == SizeOf(SubSeq(src, fcs_at + 1, fcs_at + fcs_size))
      content_size == IF fcs_size = 0 THEN None
                      ELSE IF fcs_size = 2 THEN Plus(field, Size(0, 256)) ELSE field
      base == Pow2(10 + (src[2] \div 8))
      window == Plus(base, Size((base.k * (src[2] % 8)) \div 8,
                                128 * ((base.k * (src[2] % 8)) % 8)))
  IN  IF src = <<>> \/ (fhd \div 8) % 2 = 1 \/ Len(src) < fcs_at + fcs_size THEN None
      ELSE [header_len |-> fcs_at + fcs_size, checksum |-> (fhd \div 4) % 2 = 1,
            content_size |-> content_size,
            window |-> IF single THEN content_size ELSE window,
            id |-> [i \in 1..4 |-> IF i <= id_size THEN src[id_at + i] ELSE 0]]

-----------------------------------------------------------------------------
NoDict == Size(0, 0)
NoId   == <<0, 0, 0, 0>>
Call(entry, level, n) ==
  [entry |-> entry, level |-> level, n |-> n, dict |-> NoDict, id |-> NoId, checksum |-> FALSE,
   window |-> None, table |-> None, strategy |-> None, long_distance |-> FALSE]

PlainCalls ==
  {Call(e, l, n) : e \in {"compress", "long", "parallel"}, l \in LevelArgs, n \in Sizes}
DictCall(l, n, d, id) == [Call("dict", l, n) EXCEPT !.dict = d, !.id = id]
DictCalls ==
  {DictCall(l, n, d, id) : l \in LevelArgs, n \in Sizes, d \in DictSizes, id \in DictIds}
OptionsCall(l, n, w, ld, c, t, s) ==
  [Call("options", l, n) EXCEPT !.window = w, !.long_distance = ld, !.checksum = c,
                                !.table = t, !.strategy = s]
OptionsCalls ==
  {OptionsCall(l, n, w, ld, c, t, s) :
     l \in LevelArgs, n \in Sizes, w \in WindowArgs \cup {None}, ld \in BOOLEAN,
     c \in BOOLEAN, t \in {None, 3, 30}, s \in {None, "Fast", "Btopt"}}
StreamCalls ==
  {[Call("stream", l, None) EXCEPT !.checksum = c] : l \in LevelArgs, c \in BOOLEAN}
  \cup {[Call("stream_long", l, None) EXCEPT !.window = w] : l \in LevelArgs, w \in WindowArgs}
Calls == PlainCalls \cup DictCalls \cup OptionsCalls \cup StreamCalls

Init ==
  /\ pc = "resolve" /\ req \in Calls
  /\ params = None /\ wire = <<>> /\ whole = 0 /\ parsed = None

Resolve ==
  /\ pc = "resolve" /\ params' = EntryParams(req) /\ pc' = "write"
  /\ UNCHANGED <<req, wire, whole, parsed>>

WriteHeader ==
  /\ pc = "write"
  /\ wire' = IF req.entry \in {"stream", "stream_long"}
             THEN write_frame_header_streaming(req.checksum, params.window_log)
             ELSE write_frame_header(req.n, req.checksum, params.window_log, req.id)
  /\ whole' = Len(wire') /\ pc' = "sent"
  /\ UNCHANGED <<req, params, parsed>>

(* The stream may end inside the header, or go on with the first block.    *)
Cut ==
  /\ pc = "sent" /\ Len(wire) = whole
  /\ \E n \in 1..(whole - 1) : wire' = SubSeq(wire, 1, n)
  /\ UNCHANGED <<pc, req, params, whole, parsed>>
Body ==
  /\ pc = "sent" /\ Len(wire) = whole /\ wire' = wire \o <<7, 0, 0>>
  /\ UNCHANGED <<pc, req, params, whole, parsed>>

Parse ==
  /\ pc = "sent" /\ parsed' = parse_frame_header(wire) /\ pc' = "parsed"
  /\ UNCHANGED <<req, params, wire, whole>>

Next == Resolve \/ WriteHeader \/ Cut \/ Body \/ Parse \/ (pc = "parsed" /\ UNCHANGED vars)
Spec == Init /\ [][Next]_vars

-----------------------------------------------------------------------------
(* Properties.                                                             *)

Resolved == params # None
LongDistance == req.entry \in {"long", "stream_long"} \/ req.long_distance

(* The decoder reads what the encoder meant: the pledged size, the window, *)
(* the dictionary id and the checksum flag, and where the blocks start;    *)
(* and a header that was cut short is refused, not misread.                *)
HeaderRoundTrip ==
  pc = "parsed" =>
    IF Len(wire) < whole THEN parsed = None
    ELSE /\ parsed # None
         /\ parsed.header_len = whole
         /\ parsed.content_size = req.n
         /\ parsed.window = Pow2(params.window_log)
         /\ parsed.id = req.id /\ parsed.checksum = req.checksum

(* A decoder takes no block larger than the window (block_max), and the    *)
(* encoders cut blocks of up to 128 KiB: whenever the caller leaves the    *)
(* window alone and ceil_log2 sees the whole size, the largest block of    *)
(* the frame fits it.                                                      *)
LargestBlock == IF req.n # None /\ Leq(req.n, Pow2(BlockLog)) THEN req.n ELSE Pow2(BlockLog)
LargestFits == Leq(LargestBlock, Pow2(params.window_log))
SizeCut == req.n # None /\ ~Leq(Plus(req.n, req.dict), Size(2^22, 0))
BlocksFit == Resolved /\ req.window = None /\ ~SizeCut => LargestFits

(* The dictionary lies in the window whole, as far as a portable window    *)
(* goes, so that its bytes and its repeat offsets can be used.             *)
DictInWindow ==
  Resolved /\ Leq(req.dict, Pow2(MAX_WINDOW_LOG)) => Leq(req.dict, Pow2(params.window_log))

(* The window the frame advertises covers what the frame needs of it.      *)
WindowCovers == BlocksFit /\ DictInWindow

(* No frame asks for a window above 8 MiB, or above 128 MiB with           *)
(* long-distance matching, and the regular finder never reaches beyond the *)
(* window the frame advertises, nor past what its own tree can hold        *)
(* without two live positions sharing a slot.                              *)
ReachCovered ==
  Resolved =>
    /\ params.window_log >= MIN_WINDOW_LOG
    /\ params.window_log <= IF LongDistance THEN LDM_MAX_WINDOW_LOG ELSE MAX_WINDOW_LOG
    /\ params.reach <= params.window_log
    /\ LET tree == IF req.entry = "stream_long"
                   THEN FinderTables([params EXCEPT !.window_log = params.reach]).tree
                   ELSE FinderTables(params).tree
       IN  tree # None => params.reach <= tree

(* An index slide is a multiple of every ring the finder indexes by        *)
(* position.                                                               *)
SlideAligned ==
  Resolved => LET t == FinderTables(params)
              IN  \A ring \in {t.chain, t.tree} \ {None} : slide_period(params) >= ring

(* Whatever the caller asked for, the finder's tables have sizes it can    *)
(* work with.                                                              *)
TablesInRange ==
  Resolved => LET t == FinderTables(params)
              IN  /\ t.hash \in 6..22 /\ t.chain \in 6..22 \cup {None}
                  /\ t.tree \in 6..23 \cup {None}
                  /\ split_depth_for(params.strategy) \in 0..4
                  /\ overlap_rlog(params.strategy) \in 0..3

(* The finder's tables, its reach and its slides fit the window.           *)
FinderCovered == ReachCovered /\ SlideAligned /\ TablesInRange

(* "Output is always a conformant frame (libzstd and this crate's decoder  *)
(* both decode it)" (options.rs): also with a window_log override.         *)
OptionsConformant ==
  Resolved /\ req.entry = "options" => LargestFits
=============================================================================

-------------------------- MODULE StreamingEncoder --------------------------
(***************************************************************************)
(* StreamingEncoder (src/encode/stream.rs): input pushed in parts of any   *)
(* size, cut into blocks of BLOCK_SIZE_MAX, each searched against the      *)
(* retained input; a dead prefix of that input is dropped now and then,    *)
(* which moves every position the match finder's tables hold.              *)
(*                                                                         *)
(* A position's content is the key its bytes hash to.  The finder is the   *)
(* hash chain of src/encode/lz.rs (head per key, chain per ring slot); the *)
(* single-slot finders read only the head.                                 *)
(* The long-distance index of src/encode/ldm.rs is a second table per key. *)
(* Which positions a parse searches and indexes, and which candidate it    *)
(* takes, are free choices; the binary tree is not modelled.               *)
(*                                                                         *)
(* ref is a history variable: the same tables in an encoder that never     *)
(* slides.                                                                 *)
(***************************************************************************)
EXTENDS Integers, Sequences

CONSTANTS
  Keys,       \* what the bytes at a position may hash to
  LdmKeys,    \* the keys that pass the gate of LdmState::generate
  Configs,    \* [block, window, reach, period]: BLOCK_SIZE_MAX, max_offset,
              \*   regular_reach and slide_period()
  MaxInput    \* bound: bytes pushed in all

Config == [block : Nat \ {0}, window : Nat \ {0}, reach : Nat \ {0},
           period : Nat \ {0}]

ASSUME EncoderAssumption ==
  /\ LdmKeys \subseteq Keys
  /\ Configs \subseteq Config
  /\ \A c \in Configs : c.reach <= c.window
  /\ MaxInput \in Nat

VARIABLES
  conf,     \* the configuration in use
  pc,       \* "open" | "parse" | "closed"
  input,    \* retained input
  dropped,  \* bytes dropped off its front
  emitted,  \* bytes emitted as blocks
  ip, stop, \* the parse in progress: next position and end, relative to input
  last,     \* it is the last block's
  tables,   \* [head, chain, ldm] of relative positions, -1 = empty
  out,      \* blocks written and not yet taken, [from, to, last]
  taken,    \* blocks handed out by take_output
  pushed,   \* history: bytes pushed
  ref       \* history: [head, chain, ldm] of absolute positions

vars == <<conf, pc, input, dropped, emitted, ip, stop, last, tables, out, taken,
          pushed, ref>>

EmptyTables(period) ==
  [head |-> [k \in Keys |-> -1], chain |-> [s \in 0..period - 1 |-> -1],
   ldm |-> [k \in Keys |-> -1]]

Init ==
  /\ conf \in Configs
  /\ pc = "open" /\ input = <<>> /\ dropped = 0 /\ emitted = 0
  /\ ip = 0 /\ stop = 0 /\ last = FALSE
  /\ tables = EmptyTables(conf.period)
  /\ out = <<>> /\ taken = <<>>
  /\ pushed = 0 /\ ref = EmptyTables(conf.period)

total == dropped + Len(input)
Drained_Eager == total - emitted < conf.block  \* mutant: a full tail is not held back
Drained == total - emitted <= conf.block

-----------------------------------------------------------------------------
(* One part of push (at most a block of it): a longer push is several of   *)
(* these, each drained before the next.                                    *)
Push(part) ==
  /\ pc = "open" /\ Drained
  /\ Len(part) <= conf.block /\ pushed + Len(part) <= MaxInput
  /\ input' = input \o part
  /\ pushed' = pushed + Len(part)
  /\ UNCHANGED <<conf, pc, dropped, emitted, ip, stop, last, tables, out, taken, ref>>

(* emit_block up to its parse.                                             *)
emit_block(end, is_last) ==
  /\ pc' = "parse"
  /\ ip' = emitted - dropped /\ stop' = end - dropped /\ last' = is_last
  /\ UNCHANGED <<conf, input, dropped, emitted, tables, out, taken, pushed, ref>>

drain_full_blocks ==
  /\ pc = "open" /\ ~Drained
  /\ emit_block(emitted + conf.block, FALSE)

(* ChainState::insert and the update of the long-distance table, on        *)
(* position at of tables t.                                                *)
insert(t, k, at) ==
  [head  |-> [t.head EXCEPT ![k] = at],
   chain |-> [t.chain EXCEPT ![at % conf.period] = t.head[k]],
   ldm   |-> t.ldm]
ldm_insert(t, k, at) ==
  [head |-> t.head, chain |-> t.chain, ldm |-> [t.ldm EXCEPT ![k] = at]]

(* One position of the parse: perhaps indexed by the finder, perhaps by    *)
(* the long-distance index.                                                *)
ParsePosition(indexed, long) ==
  /\ pc = "parse" /\ ip < stop
  /\ LET k == input[ip + 1]
         update(t, at) == LET u == IF indexed THEN insert(t, k, at) ELSE t
                          IN  IF long THEN ldm_insert(u, k, at) ELSE u
     IN  /\ long => k \in LdmKeys
         /\ tables' = update(tables, ip)
         /\ ref' = update(ref, dropped + ip)
  /\ ip' = ip + 1
  /\ UNCHANGED <<conf, pc, input, dropped, emitted, stop, last, out, taken, pushed>>

(* The slide: how much to drop, and what dropping does to a table entry.   *)
SlideDrop_Unaligned(history) ==  \* mutant: not rounded down to the ring period
  IF history <= 2 * conf.window THEN 0 ELSE history - conf.window
SlideDrop_Late(history) ==  \* mutant: slides only once a third window is full
  LET desired == history - conf.window
  IN  IF history <= 3 * conf.window THEN 0 ELSE desired - (desired % conf.period)
SlideDrop(history) ==
  LET desired == history - conf.window
  IN  IF history <= 2 * conf.window THEN 0 ELSE desired - (desired % conf.period)

reduce_index_entry(e, drop) ==
  IF e < 0 THEN e ELSE IF e >= drop THEN e - drop ELSE -1

reduce_index_SkipsLdm(t, drop) ==  \* mutant: the long-distance table is forgotten
  [head  |-> [k \in Keys |-> reduce_index_entry(t.head[k], drop)],
   chain |-> [s \in 0..conf.period - 1 |-> reduce_index_entry(t.chain[s], drop)],
   ldm   |-> t.ldm]
reduce_index(t, drop) ==
  [head  |-> [k \in Keys |-> reduce_index_entry(t.head[k], drop)],
   chain |-> [s \in 0..conf.period - 1 |-> reduce_index_entry(t.chain[s], drop)],
   ldm   |-> [k \in Keys |-> reduce_index_entry(t.ldm[k], drop)]]

maybe_slide_KeepsBase(drop) ==  \* mutant: dropped is not advanced
  /\ tables' = reduce_index(tables, drop)
  /\ input' = SubSeq(input, drop + 1, Len(input))
  /\ dropped' = dropped
maybe_slide(drop) ==
  /\ tables' = reduce_index(tables, drop)
  /\ input' = SubSeq(input, drop + 1, Len(input))
  /\ dropped' = dropped + drop

(* The end of emit_block, then maybe_slide unless it was finish's block.   *)
EndBlock ==
  /\ pc = "parse" /\ ip = stop
  /\ out' = Append(out, [from |-> emitted, to |-> dropped + stop, last |-> last])
  /\ emitted' = dropped + stop
  /\ IF last
     THEN pc' = "closed" /\ UNCHANGED <<input, dropped, tables>>
     ELSE pc' = "open" /\ maybe_slide(SlideDrop(stop))
  /\ UNCHANGED <<conf, ip, stop, last, taken, pushed, ref>>

take_output ==
  /\ pc = "open" /\ Drained /\ out # <<>>
  /\ taken' = taken \o out /\ out' = <<>>
  /\ UNCHANGED <<conf, pc, input, dropped, emitted, ip, stop, last, tables, pushed, ref>>

finish ==
  /\ pc = "open" /\ Drained
  /\ IF total = 0
     THEN /\ pc' = "closed"
          /\ out' = Append(out, [from |-> 0, to |-> 0, last |-> TRUE])
          /\ UNCHANGED <<conf, input, dropped, emitted, ip, stop, last, tables, taken,
                         pushed, ref>>
     ELSE emit_block(total, TRUE)

Next ==
  \/ \E n \in 1..conf.block : \E part \in [1..n -> Keys] : Push(part)
  \/ drain_full_blocks
  \/ \E indexed, long \in BOOLEAN : ParsePosition(indexed, long)
  \/ EndBlock \/ take_output \/ finish

Spec == Init /\ [][Next]_vars

-----------------------------------------------------------------------------
Tabs == [head : [Keys -> Int], chain : [0..conf.period - 1 -> Int], ldm : [Keys -> Int]]
Block == [from : Nat, to : Nat, last : BOOLEAN]

(* Types.  The cursors of the usize subtractions of stream.rs are ordered: *)
(* dropped <= emitted <= total (total - emitted, emitted - dropped,        *)
(* history - max_offset).                                                  *)
TypeOK ==
  /\ conf \in Configs /\ pc \in {"open", "parse", "closed"}
  /\ input \in Seq(Keys) /\ pushed \in Nat
  /\ dropped \in Nat /\ emitted \in dropped..total
  /\ stop \in 0..Len(input) + dropped /\ ip \in 0..stop /\ last \in BOOLEAN
  /\ pc = "parse" => ip >= emitted - dropped /\ stop <= Len(input)
  /\ tables \in Tabs /\ ref \in Tabs
  /\ out \in Seq(Block) /\ taken \in Seq(Block)

(* ChainState::find from position at, as distances (0: the walk ends): the *)
(* first candidate from the head, and after the one at distance d the next *)
(* along the chain.                                                        *)
find_first(h, at) == IF h >= 0 /\ at - h <= conf.reach THEN at - h ELSE 0
find_next(chain, at, d) ==
  LET c    == at - d
      next == chain[c % conf.period]
  IN  IF next < 0 \/ next >= c \/ at - next > conf.reach THEN 0 ELSE at - next

(* LdmState::generate: the long match it may offer there, 0 if none.       *)
generate(c, at) ==
  IF c >= 0 /\ at - c > conf.reach /\ at - c <= conf.window THEN at - c ELSE 0

(* Sliding is invisible: from every position the finder, the long-distance *)
(* index and the repeat-offset probe (rep_match_at: off > p) see exactly   *)
(* the distances an encoder that never slides would see.                   *)
SlideTransparent ==
  pc = "parse" /\ ip < stop =>
    LET k == input[ip + 1]
    IN  /\ find_first(tables.head[k], ip) = find_first(ref.head[k], dropped + ip)
        /\ \A d \in 1..conf.reach : d <= ip =>
             find_next(tables.chain, ip, d) = find_next(ref.chain, dropped + ip, d)
        /\ generate(tables.ldm[k], ip) = generate(ref.ldm[k], dropped + ip)
        /\ \A off \in 1..conf.window : off <= ip <=> off <= dropped + ip

(* Every table entry points at a retained byte already passed, at one with *)
(* the entry's own key: p - c does not wrap and data[c] is in bounds.      *)
IndexMatchesInput ==
  LET behind == IF pc = "parse" THEN ip ELSE emitted - dropped
      sound(c, k) == c >= 0 => c < behind /\ input[c + 1] = k
  IN  /\ \A k \in Keys : sound(tables.head[k], k) /\ sound(tables.ldm[k], k)
      /\ \A s \in 0..conf.period - 1 :
           LET c == tables.chain[s] IN c < behind

(* The blocks written depend only on how much was pushed, never on how it  *)
(* was cut into pushes or when output was taken: full blocks with a tail   *)
(* held back, the tail as last block, one empty block for no input.        *)
NumBlocks ==
  IF pushed = 0 THEN IF pc = "closed" THEN 1 ELSE 0
  ELSE ((pushed - 1) \div conf.block) + IF pc = "closed" THEN 1 ELSE 0
BlockOf(i) ==
  [from |-> (i - 1) * conf.block,
   to   |-> IF i * conf.block <= pushed THEN i * conf.block ELSE pushed,
   last |-> pc = "closed" /\ i = NumBlocks]
ChunkIndependent ==
  pc = "closed" \/ (pc = "open" /\ Drained) =>
    taken \o out = [i \in 1..NumBlocks |-> BlockOf(i)]

(* Retained input is bounded whatever is pushed: the history kept by a     *)
(* slide, plus a tail of one block between pushes and two inside one.      *)
HistoryBound ==
  LET slid == conf.window + conf.period - 1
  IN  IF slid >= 2 * conf.window THEN slid ELSE 2 * conf.window
RetentionBounded ==
  /\ pc = "open" => emitted - dropped <= HistoryBound
  /\ pc = "open" /\ Drained => Len(input) <= HistoryBound + conf.block
  /\ Len(input) <= HistoryBound + 2 * conf.block
=============================================================================

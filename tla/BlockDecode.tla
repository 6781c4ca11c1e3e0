---------------------------- MODULE BlockDecode ----------------------------
(***************************************************************************)
(* What decoding ONE block computes: the pure part of src/block.rs,        *)
(* src/literals.rs and src/sequences.rs that the one-shot decoder          *)
(* (src/frame.rs) and the streaming decoder (src/streaming.rs) share.      *)
(*                                                                         *)
(* A compressed frame is kept as the result of its bit-level parse: a      *)
(* block is a record                                                       *)
(*   type      "raw" | "rle" | "comp" | "reserved"                         *)
(*   last      Last_Block                                                  *)
(*   size      Block_Size of the header (for "rle": the repeat count)      *)
(*   malformed the input ends inside the block, or a section of it does    *)
(*             not parse (what a corrupt code word inside the sequences    *)
(*             leaves behind is never handed over)                         *)
(*   lits      the literal bytes (the body of "raw", the byte of "rle")    *)
(*   lit       "raw" | "huff" | "treeless": how the literals are coded     *)
(*             (an RLE literals section counts as "raw": both leave the    *)
(*             Huffman cache alone)                                        *)
(*   repeat    some sequence channel reuses the cached FSE table           *)
(*   seqs      the sequences [ll, ml, ov]: literal length, match length    *)
(*             and Offset_Value                                            *)
(* Bytes are members of a small set.                                       *)
(***************************************************************************)
EXTENDS Integers, Sequences

CONSTANTS
  MaxBlockSize,  \* MAX_BLOCK_SIZE (128 KiB in the code)
  None           \* an absent option: no dictionary, no pledged size, ...

ASSUME MaxBlockSizeAssumption == MaxBlockSize \in Nat \ {0}

Minimum(a, b) == IF a <= b THEN a ELSE b
SatSub(a, b)  == IF a >= b THEN a - b ELSE 0

(***************************************************************************)
(* Repeat offsets.  rep is the triple of the last three offsets; the       *)
(* result is the actual copy offset and the updated triple.                *)
(***************************************************************************)
DefaultRep == <<1, 4, 8>>

resolve_offset(rep, offset_value, ll0) ==
  LET code == offset_value - 1 + (IF ll0 THEN 1 ELSE 0)
      off  == IF code = 3 THEN SatSub(rep[1], 1) ELSE rep[code + 1]
  IN  IF offset_value > 3
      THEN [offset |-> offset_value - 3,
            rep    |-> <<offset_value - 3, rep[1], rep[2]>>]
      ELSE IF code = 0
      THEN [offset |-> rep[1], rep |-> rep]
      ELSE [offset |-> off,
            rep    |-> <<off, rep[1], IF code >= 2 THEN rep[2] ELSE rep[3]>>]

(* The four copy loops of decode_capped (bulk, one byte, power-of-two      *)
(* pattern, doubling) all append match_len bytes of the offset-periodic    *)
(* continuation of out.                                                    *)
CopyMatch(out, offset, match_len) ==
  [k \in 1..match_len |-> out[Len(out) - offset + 1 + ((k - 1) % offset)]]

(* decode_compressed: what one compressed block may add to the output that *)
(* real_so_far bytes already make up.                                      *)
BlockCap(max_output, real_so_far, block_max) ==
  Minimum(max_output, real_so_far + block_max)

(* Why one sequence of decode_capped is refused, in the order of its       *)
(* checks; "ok" if it is not.  headroom is what the ceiling leaves,        *)
(* left what remains of the literals, history the length of out.           *)
SequenceVerdict(offset, s, headroom, left, history) ==
  IF offset = 0 THEN "zero_offset"
  ELSE IF s.ll + s.ml > headroom THEN "output_too_large"
  ELSE IF s.ll > left THEN "literals_length"
  ELSE IF offset > history + s.ll THEN "offset_too_large"
  ELSE "ok"

(* The bytes an accepted sequence appends to out.                          *)
SequenceBytes(out, lits, lit_pos, s, offset) ==
  LET run == SubSeq(lits, lit_pos + 1, lit_pos + s.ll)
  IN  run \o CopyMatch(out \o run, offset, s.ml)

(* literals::decode and resolve_table, as far as they depend on earlier    *)
(* blocks: a treeless literals section and a Repeat channel need a table   *)
(* in the cache; a Huffman-coded section and every channel of a block with *)
(* sequences leave theirs there.                                           *)
LiteralsAccepted(b, have_huff) == b.lit = "treeless" => have_huff
HuffAfter(b, have_huff)        == have_huff \/ b.lit = "huff"
TablesAccepted(b, have_seq)    == b.repeat /\ b.seqs # <<>> => have_seq
TablesAfter(b, have_seq)       == have_seq \/ b.seqs # <<>>

(* Whether decode_block_at gets past its headers: the size and type of the *)
(* block, its sections, and the tables it reuses from earlier blocks.      *)
(* have_huff, have_seq: whether the table caches are filled; room is what  *)
(* the output ceiling leaves for a raw or RLE block (check_ceiling).       *)
BlockAccepted(b, block_max, have_huff, have_seq, room) ==
  /\ b.size <= block_max
  /\ b.type # "reserved"
  /\ ~b.malformed
  /\ b.type \in {"raw", "rle"} => b.size <= room
  /\ b.type = "comp" =>
       LiteralsAccepted(b, have_huff) /\ TablesAccepted(b, have_seq)

(* decode_raw and decode_rle.                                              *)
PlainBytes(b) ==
  IF b.type = "raw" THEN b.lits ELSE [k \in 1..b.size |-> b.lits[1]]
=============================================================================

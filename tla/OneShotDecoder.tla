--------------------------- MODULE OneShotDecoder ---------------------------
(***************************************************************************)
(* decode_frame of src/frame.rs: the one-shot decoder, which keeps the     *)
(* dictionary and the whole output as history.  It drives the same block   *)
(* decoder (BlockDecode) as the streaming one and serves as its reference. *)
(*                                                                         *)
(* Its two loops are recursive functions: s[i] is the state after i rounds.*)
(***************************************************************************)
EXTENDS BlockDecode

CONSTANT Unlimited  \* a max_output that no input reaches

(* The part of BlockState that changes, with what the comparison needs: ok *)
(* is FALSE once an error was returned, ended TRUE after the last block;   *)
(* data is the output of the blocks before the last; near says that no     *)
(* match reached back further than the window, and legal that none reached *)
(* further than RFC 8878 allows (a dictionary is in reach whole while the  *)
(* output is within the window).                                           *)
History(d) == IF d = None THEN <<>> ELSE d.content
Primed(d)  == d # None /\ d.entropy
NewState(d) ==
  [out |-> History(d), have_huff |-> Primed(d), have_seq |-> Primed(d),
   rep |-> IF Primed(d) THEN d.rep ELSE DefaultRep, lit_pos |-> 0,
   ok |-> TRUE, ended |-> FALSE, data |-> <<>>, near |-> TRUE, legal |-> TRUE]

Refused(st)       == [st EXCEPT !.ok = FALSE]
output_len(st, d) == Len(st.out) - Len(History(d))
OutputOf(st, d)   == SubSeq(st.out, Len(History(d)) + 1, Len(st.out))

(* decode_capped: its loop over the sequences of block b, then the         *)
(* trailing literals.                                                      *)
OneSequence(st, f, d, b, cap, s) ==
  LET r == resolve_offset(st.rep, s.ov, s.ll = 0)
      decoded == output_len(st, d) + s.ll
      near == r.offset <= f.window
      legal == near \/ (decoded <= f.window /\ r.offset > decoded)
  IN  IF \/ ~st.ok
         \/ SequenceVerdict(r.offset, s, SatSub(cap, output_len(st, d)),
                            Len(b.lits) - st.lit_pos, Len(st.out)) # "ok"
      THEN Refused(st)
      ELSE [st EXCEPT !.rep = r.rep, !.near = @ /\ near, !.legal = @ /\ legal,
              !.out = @ \o SequenceBytes(@, b.lits, st.lit_pos, s, r.offset),
              !.lit_pos = @ + s.ll]

SequenceLoop(st, f, d, b, cap) ==
  LET s[i \in 0..Len(b.seqs)] == IF i = 0 THEN [st EXCEPT !.lit_pos = 0]
                                 ELSE OneSequence(s[i - 1], f, d, b, cap, b.seqs[i])
  IN  s

LastLiterals(st, d, b, cap) ==
  LET rest == SubSeq(b.lits, st.lit_pos + 1, Len(b.lits))
  IN  IF ~st.ok \/ Len(rest) > SatSub(cap, output_len(st, d)) THEN Refused(st)
      ELSE [st EXCEPT !.out = @ \o rest]

decode_capped(st, f, d, b, cap) ==
  LastLiterals(SequenceLoop(st, f, d, b, cap)[Len(b.seqs)], d, b, cap)

block_max_of(f) == Minimum(f.window, MaxBlockSize)

decode_block_at(st, f, d, b, max_output) ==
  IF ~BlockAccepted(b, block_max_of(f), st.have_huff, st.have_seq, max_output - output_len(st, d))
  THEN Refused(st)
  ELSE IF b.type = "comp"
  THEN decode_capped([st EXCEPT !.have_huff = HuffAfter(b, @), !.have_seq = TablesAfter(b, @)],
                     f, d, b, BlockCap(max_output, output_len(st, d), block_max_of(f)))
  ELSE [st EXCEPT !.out = @ \o PlainBytes(b)]

(* The block loop of decode_frame.                                         *)
NextBlock(st, f, d, b, max_output) ==
  LET next == decode_block_at(st, f, d, b, max_output)
  IN  IF ~st.ok \/ st.ended THEN st
      ELSE IF ~next.ok THEN next
      ELSE IF b.last THEN [next EXCEPT !.ended = TRUE]
      ELSE [next EXCEPT !.data = OutputOf(next, d)]

BlockLoop(f, d, max_output) ==
  LET s[i \in 0..Len(f.blocks)] == IF i = 0 THEN NewState(d)
                                   ELSE NextBlock(s[i - 1], f, d, f.blocks[i], max_output)
  IN  s

decode_blocks(f, d, max_output) == BlockLoop(f, d, max_output)[Len(f.blocks)]

(* The pledge and the checksum, checked over the whole output.             *)
Verified(f, data) ==
  /\ f.content_size # None => Len(data) = f.content_size
  /\ f.has_checksum => f.stored = data

(* decode_frame itself: output ceiling, dictionary id, blocks, checks.     *)
DictAccepted(f, d) ==
  IF d = None THEN f.dictionary_id = 0 ELSE f.dictionary_id \in {0, d.id}

decode_frame(f, d, max_output) ==
  LET st == decode_blocks(f, d, IF f.content_size = None THEN max_output ELSE f.content_size)
  IN  [ok |-> /\ f.content_size # None => f.content_size <= max_output
              /\ DictAccepted(f, d)
              /\ st.ok /\ st.ended /\ Verified(f, OutputOf(st, d)),
       data |-> OutputOf(st, d), near |-> st.near, legal |-> st.legal]

(* What the blocks of f regenerate when no output ceiling is set, up to    *)
(* the first block that fails; the output of a last block only counts when *)
(* it passes the final checks.                                             *)
Content(f, d) ==
  LET st == decode_blocks(f, d, Unlimited)
  IN  IF st.ended /\ Verified(f, OutputOf(st, d)) THEN OutputOf(st, d) ELSE st.data
=============================================================================

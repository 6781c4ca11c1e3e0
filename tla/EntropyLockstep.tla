-------------------------- MODULE EntropyLockstep --------------------------
(***************************************************************************)
(* The state that encoder and decoder each keep a copy of and that only    *)
(* the bytes between them hold equal: the three repeat offsets, one FSE    *)
(* table per sequence channel and the literals' Huffman table.  EncState   *)
(* (src/encode/block.rs) on one side, the rep, seq and huff fields of      *)
(* BlockState (src/block.rs) on the other.                                 *)
(*                                                                         *)
(* The encoder works chunk by chunk (the block loop of compress_with_params,*)
(* compress_with_dict, compress_segment and emit_block): parse the chunk   *)
(* into sequences, emit them as one or several compressed blocks, and keep *)
(* either those (Commit) or a raw/RLE block (Store).  Which matches it     *)
(* finds, which table mode is cheapest and which form is smaller are       *)
(* choices; what each choice does to the state is not.  (The alternatives  *)
(* emit_and_pick rejects leave no trace: each is parsed and emitted from   *)
(* the committed state, as the winner is.)  In a frame made by             *)
(* compress_parallel the next worker starts cold (Seam).                   *)
(*                                                                         *)
(* The decoder's state is a function of the blocks written so far, so it   *)
(* is run along: each committed chunk is decoded before the next begins.   *)
(***************************************************************************)
EXTENDS BlockDecode

CONSTANTS
  Offsets,    \* match distances the finder may report
  Tables,     \* entropy tables a block may describe
  Channels,   \* sequence channels (LL, OF, ML in the code: all alike)
  InitStates, \* entropy state at the start of the frame, [enc, dec]
  MaxSeqs,    \* bound: sequences per chunk
  MaxBlocks,  \* bound: blocks a chunk may be split into (2^split_depth)
  MaxChunks   \* bound: chunks per frame

Table == Tables \cup {None}
Triple == Nat \X Nat \X Nat
EntropyState == [rep : Triple, seq : [Channels -> Table], lit : Table]

(* The encoder knows at most what the decoder has.                         *)
TableCompat(e, d) ==
  /\ \A c \in Channels : e.seq[c] \in {None, d.seq[c]}
  /\ e.lit \in {None, d.lit}

(* Both start from nothing, or from a structured dictionary's tables and   *)
(* offsets (code_table_from_huff may fail and leave the encoder without a  *)
(* literals table).                                                        *)
ASSUME LockstepAssumption ==
  /\ Offsets \subseteq Nat \ {0}
  /\ None \notin Tables
  /\ MaxSeqs \in Nat /\ MaxBlocks \in Nat \ {0} /\ MaxChunks \in Nat
  /\ \A s \in InitStates : /\ s.enc \in EntropyState /\ s.dec \in EntropyState
                           /\ s.enc.rep = s.dec.rep /\ TableCompat(s.enc, s.dec)

VARIABLES
  pc,        \* "parse" | "emit" | "decode"
  enc,       \* the committed EncState
  rep,       \* the repeat offsets of the parse in progress
  real,      \* history: offsets it and the frame before it coded in full
             \*   since the last seam
  seqs,      \* its sequences [ll0, ov, offset, rep, real]: rep and real as
             \*   they were before the sequence
  cur,       \* tables threaded from block to block by emit_split, [seq, lit]
  blocks,    \* blocks emitted for the chunk: the sequences each one goes up
             \*   to, its choices, and cur as it was before (pre)
  dec,       \* the decoder's state
  decoded,   \* offsets the decoder resolved for the chunk being decoded
  nblock,    \* blocks of the chunk whose tables it has read
  failed,    \* the decoder met a table it does not have
  kept,      \* history: real as of the last committed chunk
  chunks     \* chunks encoded so far

vars == <<pc, enc, rep, real, seqs, cur, blocks, dec, decoded, nblock, failed,
          kept, chunks>>

Init ==
  /\ pc = "parse"
  /\ \E s \in InitStates : enc = s.enc /\ dec = s.dec
  /\ rep = enc.rep /\ seqs = <<>>
  /\ cur = [seq |-> enc.seq, lit |-> enc.lit] /\ blocks = <<>>
  /\ decoded = <<>> /\ nblock = 0 /\ failed = FALSE
  /\ real = 3 /\ kept = 3 /\ chunks = 0

-----------------------------------------------------------------------------
(* encode_offset: the cheapest Offset_Value the decoder would resolve to   *)
(* this offset, given the running repeat offsets.                          *)
encode_offset_IgnoresLl0(r, offset, ll0) ==  \* mutant: probes with ll0 = FALSE
  LET hit(ov) == resolve_offset(r, ov, FALSE).offset = offset
  IN  IF hit(1) THEN 1 ELSE IF hit(2) THEN 2 ELSE IF hit(3) THEN 3
      ELSE offset + 3

encode_offset(r, offset, ll0) ==
  LET hit(ov) == resolve_offset(r, ov, ll0).offset = offset
  IN  IF hit(1) THEN 1 ELSE IF hit(2) THEN 2 ELSE IF hit(3) THEN 3
      ELSE offset + 3

(* One match of the parse: code its offset, evolve rep as the decoder will.*)
ParseSequence(offset, ll0) ==
  /\ pc = "parse" /\ chunks < MaxChunks /\ Len(seqs) < MaxSeqs
  /\ LET ov == encode_offset(rep, offset, ll0)
     IN  /\ seqs' = Append(seqs, [ll0 |-> ll0, ov |-> ov, offset |-> offset,
                                  rep |-> rep, real |-> real])
         /\ rep' = resolve_offset(rep, ov, ll0).rep
         /\ real' = IF ov > 3 THEN real + 1 ELSE real
  /\ UNCHANGED <<pc, enc, cur, blocks, dec, decoded, nblock, failed, kept, chunks>>

EndParse ==
  /\ pc = "parse" /\ chunks < MaxChunks
  /\ pc' = "emit"
  /\ UNCHANGED <<enc, rep, real, seqs, cur, blocks, dec, decoded, nblock, failed,
                 kept, chunks>>

(* emit_one on the sequences emitted+1..upto: write_literals_auto picks a  *)
(* raw, a fresh or (given a table) a treeless literals section, and        *)
(* plan_channel a described or (given a table) a repeated table for each   *)
(* channel; a section without sequences leaves the tables alone.           *)
(* emit_split cuts the chunk into blocks at sequence boundaries, none of   *)
(* them without a sequence unless the chunk has none.                      *)
emitted == IF blocks = <<>> THEN 0 ELSE blocks[Len(blocks)].upto
AllEmitted == blocks # <<>> /\ emitted = Len(seqs)

write_literals_auto_NoPrev ==  \* mutant: reuses a table there is not
  {[mode |-> "raw", table |-> cur.lit]}
  \cup {[mode |-> "huff", table |-> t] : t \in Tables}
  \cup {[mode |-> "treeless", table |-> cur.lit]}
write_literals_auto ==
  {[mode |-> "raw", table |-> cur.lit]}
  \cup {[mode |-> "huff", table |-> t] : t \in Tables}
  \cup {[mode |-> "treeless", table |-> t] : t \in {cur.lit} \ {None}}
plan_channel(c) ==
  {[mode |-> "described", table |-> t] : t \in Tables}
  \cup {[mode |-> "repeat", table |-> t] : t \in {cur.seq[c]} \ {None}}
write_sequences ==
  {p \in [Channels -> UNION {plan_channel(c) : c \in Channels}] :
     \A c \in Channels : p[c] \in plan_channel(c)}

emit_one(upto, lit, plan) ==
  /\ blocks' = Append(blocks, [upto |-> upto, empty |-> upto = emitted,
                               lit |-> lit, plan |-> plan, pre |-> cur])
  /\ cur' = [seq |-> IF upto = emitted THEN cur.seq
                     ELSE [c \in Channels |-> plan[c].table],
             lit |-> lit.table]

EmitBlock(upto) ==
  /\ pc = "emit" /\ ~AllEmitted
  /\ upto = Len(seqs) \/ (upto > emitted /\ Len(blocks) + 1 < MaxBlocks)
  /\ \E lit \in write_literals_auto, plan \in write_sequences :
       emit_one(upto, lit, plan)
  /\ UNCHANGED <<pc, enc, rep, real, seqs, dec, decoded, nblock, failed, kept, chunks>>

(* A chunk starts from the committed state e.                              *)
NewChunk(e, n) ==
  /\ pc' = "parse"
  /\ rep' = e.rep /\ real' = n /\ seqs' = <<>>
  /\ cur' = [seq |-> e.seq, lit |-> e.lit] /\ blocks' = <<>>
  /\ decoded' = <<>> /\ nblock' = 0

(* The compressed form is smaller: its state is committed and its blocks   *)
(* are written.                                                            *)
Commit ==
  /\ pc = "emit" /\ AllEmitted
  /\ enc' = [rep |-> rep, seq |-> cur.seq, lit |-> cur.lit]
  /\ kept' = real
  /\ pc' = "decode"
  /\ UNCHANGED <<rep, real, seqs, cur, blocks, dec, decoded, nblock, failed, chunks>>

(* It is not, or it could not be written: a raw or RLE block instead, and  *)
(* the trial's state is dropped.  The decoder's state does not change.     *)
Store_KeepsTrial ==  \* mutant: the trial's repeat offsets are kept
  /\ pc = "emit"
  /\ enc' = [enc EXCEPT !.rep = rep] /\ kept' = real
  /\ NewChunk(enc', real)
  /\ chunks' = chunks + 1
  /\ UNCHANGED <<dec, failed>>
Store ==
  /\ pc = "emit"
  /\ NewChunk(enc, kept)
  /\ chunks' = chunks + 1
  /\ UNCHANGED <<enc, dec, failed, kept>>

(* The next worker's segment of compress_parallel: it knows nothing of     *)
(* where the previous one ended.  (The code starts such a frame without a  *)
(* dictionary; the model lets a seam follow any start.)                    *)
Invalidated == <<0, 0, 0>>
Seam ==
  /\ pc = "parse" /\ seqs = <<>> /\ chunks > 0 /\ chunks < MaxChunks
  /\ enc' = [rep |-> Invalidated, seq |-> [c \in Channels |-> None], lit |-> None]
  /\ kept' = 0
  /\ NewChunk(enc', 0)
  /\ UNCHANGED <<dec, failed, chunks>>

-----------------------------------------------------------------------------
(* The decoder reads the tables of the next block (literals::decode,       *)
(* resolve_table), then resolves its sequences one by one.  That a match   *)
(* it resolves stays inside the window is the finder's business and not    *)
(* modelled here; an offset of zero, which it refuses, would show in       *)
(* Faithful.  A refused block ends the frame: what it had cached by then   *)
(* is never used and not kept.                                             *)
block == blocks[nblock + 1]
refused ==
  \/ block.lit.mode = "treeless" /\ dec.lit = None
  \/ ~block.empty /\ \E c \in Channels :
       block.plan[c].mode = "repeat" /\ dec.seq[c] = None
resolve_table(c) ==
  IF block.plan[c].mode = "repeat" THEN dec.seq[c] ELSE block.plan[c].table

literals_decode_RawClears(lit, cache) ==  \* mutant: raw literals drop the table
  CASE lit.mode = "huff" -> lit.table
    [] lit.mode = "raw" -> None
    [] OTHER -> cache
literals_decode(lit, cache) == IF lit.mode = "huff" THEN lit.table ELSE cache

DecodeTables ==
  /\ pc = "decode" /\ ~failed /\ nblock < Len(blocks)
  /\ nblock > 0 => Len(decoded) = blocks[nblock].upto
  /\ IF refused
     THEN failed' = TRUE /\ UNCHANGED <<dec, nblock>>
     ELSE /\ dec' = [dec EXCEPT
                       !.lit = literals_decode(block.lit, @),
                       !.seq = IF block.empty THEN @
                               ELSE [c \in Channels |-> resolve_table(c)]]
          /\ nblock' = nblock + 1 /\ UNCHANGED failed
  /\ UNCHANGED <<pc, enc, rep, real, seqs, cur, blocks, decoded, kept, chunks>>

DecodeSequence ==
  /\ pc = "decode" /\ ~failed /\ nblock > 0
  /\ Len(decoded) < blocks[nblock].upto
  /\ LET s == seqs[Len(decoded) + 1]
         r == resolve_offset(dec.rep, s.ov, s.ll0)
     IN  decoded' = Append(decoded, r.offset) /\ dec' = [dec EXCEPT !.rep = r.rep]
  /\ UNCHANGED <<pc, enc, rep, real, seqs, cur, blocks, nblock, failed, kept, chunks>>

EndChunk ==
  /\ pc = "decode" /\ ~failed
  /\ nblock = Len(blocks) /\ Len(decoded) = Len(seqs)
  /\ NewChunk(enc, kept)
  /\ chunks' = chunks + 1
  /\ UNCHANGED <<enc, dec, failed, kept>>

Next ==
  \/ \E offset \in Offsets, ll0 \in BOOLEAN : ParseSequence(offset, ll0)
  \/ EndParse
  \/ \E upto \in 0..Len(seqs) : EmitBlock(upto)
  \/ Commit \/ Store \/ Seam
  \/ DecodeTables \/ DecodeSequence \/ EndChunk

Spec == Init /\ [][Next]_vars

-----------------------------------------------------------------------------
Tabs == [seq : [Channels -> Table], lit : Table]
SeqRecord == [ll0 : BOOLEAN, ov : Nat \ {0}, offset : Nat \ {0}, rep : Triple,
              real : Nat]
BlockRecord ==
  [upto : Nat, empty : BOOLEAN,
   lit : [mode : {"raw"}, table : Table]
         \cup [mode : {"huff", "treeless"}, table : Tables],
   plan : [Channels -> [mode : {"described", "repeat"}, table : Tables]],
   pre : Tabs]

(* Types.  A block that reuses a table names one: nothing is repeated or   *)
(* treeless where EncState holds no table (plan_channel's Some(t),         *)
(* write_literals_auto's prev.unwrap()).                                   *)
TypeOK ==
  /\ pc \in {"parse", "emit", "decode"}
  /\ enc \in EntropyState /\ dec \in EntropyState
  /\ rep \in Triple /\ real \in Nat /\ kept \in Nat
  /\ seqs \in Seq(SeqRecord) /\ cur \in Tabs /\ blocks \in Seq(BlockRecord)
  /\ decoded \in Seq(Nat) /\ nblock \in 0..Len(blocks)
  /\ failed \in BOOLEAN /\ chunks \in Nat

(* Every sequence the decoder resolves is copied from the distance the     *)
(* parse meant, across stored, split and dropped chunks and job seams      *)
(* ("encode and decode can't drift", encode_offset in lz.rs).              *)
Faithful == \A i \in 1..Len(decoded) : decoded[i] = seqs[i].offset

(* The decoder never lacks a table a block reuses, and the table it then   *)
(* decodes with is the one the encoder coded with.                         *)
SameTables ==
  /\ ~failed
  /\ pc = "decode" /\ nblock > 0 =>
       LET b == blocks[nblock]
       IN  /\ b.lit.mode # "raw" => dec.lit = b.lit.table
           /\ ~b.empty => \A c \in Channels : dec.seq[c] = b.plan[c].table

(* After three offsets coded in full since a seam the two triples are      *)
(* equal again (the claim of the header of parallel.rs), stored chunks and *)
(* repeat codes in between or not; before the first seam they always are.  *)
Reconverged == pc = "parse" /\ seqs = <<>> /\ kept >= 3 => enc.rep = dec.rep
=============================================================================

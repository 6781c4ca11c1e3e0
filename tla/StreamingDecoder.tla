-------------------------- MODULE StreamingDecoder --------------------------
(***************************************************************************)
(* The bounded-memory decoder of src/streaming.rs: StreamingDecoder, a     *)
(* Read over one frame.  Every read decodes whole blocks into the sliding  *)
(* buffer out until there is something to hand over, hands over what fits  *)
(* the caller's buffer, and evicts (compact) what is both delivered and    *)
(* older than the window.                                                  *)
(*                                                                         *)
(* One read is several steps here: Read enters the loop, StartBlock,       *)
(* DecodeSequence and FinishBlock are its body (decode_next_block then     *)
(* compact), Deliver is what follows the loop.  pc says where in read the  *)
(* decoder is; no other operation can run meanwhile (read takes &mut self).*)
(***************************************************************************)
EXTENDS BlockDecode

CONSTANTS
  Byte,        \* the values of a byte
  Frames,      \* the frames the decoder may be opened on
  Dicts,       \* the dictionaries it may be given
  WindowMax,   \* 1 << window_log_max
  BufSizes     \* the lengths of the buffers passed to read

Sequence  == [ll : Nat, ml : Nat, ov : Nat \ {0}]
Block     == [type : {"raw", "rle", "comp", "reserved"}, last : BOOLEAN,
              size : Nat, malformed : BOOLEAN, lits : Seq(Byte),
              lit : {"raw", "huff", "treeless"}, repeat : BOOLEAN,
              seqs : Seq(Sequence)]
Frame     == [window : Nat, content_size : Nat \cup {None},
              dictionary_id : Nat, blocks : Seq(Block),
              has_checksum : BOOLEAN, stored : Seq(Byte) \cup {None}]
RepTriple == Nat \X Nat \X Nat
Dict      == [id : Nat, content : Seq(Byte), entropy : BOOLEAN,
              rep : RepTriple]

(* The raw and RLE bodies of a frame hold the bytes their headers promise. *)
WellFormedBlock(b) ==
  /\ b.type = "raw" => Len(b.lits) = b.size
  /\ b.type = "rle" => Len(b.lits) = 1

ASSUME ConstantsAssumption ==
  /\ Frames \subseteq Frame
  /\ \A f \in Frames : \A i \in 1..Len(f.blocks) : WellFormedBlock(f.blocks[i])
  /\ Dicts \subseteq Dict
  /\ None \notin Dict /\ None \notin Nat /\ None \notin Seq(Byte)
  /\ WindowMax \in Nat
  /\ BufSizes \subseteq Nat

VARIABLES
  frame, dict,          \* what with_options was called with
  pc,                   \* "new" | "idle" | "loop" | "seqs" | "check" | "rejected"
  pos,                  \* index of the next block of the frame
  out, dict_len,        \* state.out, state.dict_len
  have_huff, have_seq,  \* whether state.huff, state.seq hold tables
  rep,                  \* state.rep
  read_off, last_done,
  hashed,               \* the bytes hasher has been updated with
  total_out,
  poisoned,
  buf_len,              \* buf.len() of the read in progress
  before, lit_pos, nseq,\* locals of decode_next_block and decode_capped
  delivered,            \* history: every byte handed to the caller
  ret                   \* history: how the last completed read returned

vars == <<frame, dict, pc, pos, out, dict_len, have_huff, have_seq, rep,
          read_off, last_done, hashed, total_out, poisoned, buf_len,
          before, lit_pos, nseq, delivered, ret>>

input    == <<frame, dict>>
locals   == <<before, lit_pos, nseq>>
tables   == <<have_huff, have_seq>>
window    == frame.window
block_max == Minimum(window, MaxBlockSize)
content   == IF dict = None THEN <<>> ELSE dict.content

Init ==
  /\ frame \in Frames /\ dict \in Dicts \cup {None}
  /\ pc = "new" /\ pos = 1
  /\ out = <<>> /\ dict_len = 0
  /\ have_huff = FALSE /\ have_seq = FALSE /\ rep = DefaultRep
  /\ read_off = 0 /\ last_done = FALSE /\ hashed = <<>> /\ total_out = 0
  /\ poisoned = FALSE /\ buf_len = 0
  /\ before = 0 /\ lit_pos = 0 /\ nseq = 0
  /\ delivered = <<>> /\ ret = "none"

-----------------------------------------------------------------------------
(* with_options: the window ceiling, the dictionary id, and the            *)
(* dictionary preloaded as already-delivered history.                      *)
Acceptable ==
  /\ window <= WindowMax
  /\ dict # None => frame.dictionary_id \in {0, dict.id}

with_options ==
  /\ pc = "new"
  /\ IF ~Acceptable
     THEN /\ pc' = "rejected"
          /\ UNCHANGED <<out, dict_len, read_off, tables, rep>>
     ELSE /\ pc' = "idle"
          /\ out' = content
          /\ dict_len' = Len(content)
          /\ read_off' = Len(content)
          /\ IF dict # None /\ dict.entropy
             THEN have_huff' = TRUE /\ have_seq' = TRUE /\ rep' = dict.rep
             ELSE UNCHANGED <<tables, rep>>
  /\ UNCHANGED <<input, pos, last_done, hashed, total_out, poisoned, buf_len,
                 locals, delivered, ret>>

(* compact, applied to the buffer o with read cursor r and dictionary      *)
(* prefix d: how many bytes it drains, and what it leaves.                 *)
compact_drop_WhenDrained(o, r) ==    \* mutant: waits until all is delivered
  IF r = Len(o) THEN SatSub(Len(o), window) ELSE 0
compact_drop_KeepsBlock(o, r) ==     \* mutant: retains one block, not one window
  Minimum(r, SatSub(Len(o), block_max))

compact_drop(o, r) == Minimum(r, SatSub(Len(o), window))

compact_KeepsCursor(o, r, d) ==      \* mutant: read_off not moved with the drain
  LET drop == compact_drop(o, r)
  IN  /\ out' = SubSeq(o, drop + 1, Len(o))
      /\ read_off' = Minimum(r, Len(o) - drop)
      /\ dict_len' = SatSub(d, drop)

compact_KeepsDictLen(o, r, d) ==     \* mutant: dict_len not shrunk by the drain
  LET drop == compact_drop(o, r)
  IN  /\ out' = SubSeq(o, drop + 1, Len(o))
      /\ read_off' = r - drop
      /\ dict_len' = d

compact_PlainSub(o, r, d) ==         \* mutant: dict_len - drop, not saturating
  LET drop == compact_drop(o, r)
  IN  /\ out' = SubSeq(o, drop + 1, Len(o))
      /\ read_off' = r - drop
      /\ dict_len' = d - drop

compact(o, r, d) ==
  LET drop == compact_drop(o, r)
  IN  /\ out' = SubSeq(o, drop + 1, Len(o))
      /\ read_off' = r - drop
      /\ dict_len' = SatSub(d, drop)

(* read: the sticky error, or into the loop.                               *)
Read(n) ==
  /\ pc = "idle"
  /\ IF poisoned
     THEN ret' = "err" /\ UNCHANGED <<pc, buf_len>>
     ELSE pc' = "loop" /\ buf_len' = n /\ UNCHANGED ret
  /\ UNCHANGED <<input, pos, out, dict_len, tables, rep, read_off, last_done,
                 hashed, total_out, poisoned, locals, delivered>>

(* decode_next_block failed: read records the error and returns it.        *)
Poison ==
  /\ poisoned' = TRUE /\ pc' = "idle" /\ ret' = "err"
  /\ UNCHANGED <<input, read_off, dict_len, buf_len, delivered>>

(* The condition of read's loop, and leaving it.                           *)
NeedBlock == pc = "loop" /\ read_off >= Len(out) /\ ~last_done
LoopExit_OnBytes == pc = "loop" /\ read_off < Len(out)   \* mutant: no EOF
LoopExit == pc = "loop" /\ ~NeedBlock
(* The block decode_block_at is called on; past the end of src there is    *)
(* no header to read.                                                      *)
block == frame.blocks[pos]
accepted ==
  /\ pos <= Len(frame.blocks)
  /\ BlockAccepted(block, block_max, have_huff, have_seq, block.size)

StartBlock ==
  /\ NeedBlock
  /\ IF ~accepted
     THEN Poison /\ UNCHANGED <<pos, out, tables, rep, last_done, hashed,
                                total_out, locals>>
     ELSE /\ before' = Len(out) /\ lit_pos' = 0 /\ nseq' = 0
          /\ IF block.type = "comp"
             THEN /\ pc' = "seqs"
                  /\ have_huff' = HuffAfter(block, have_huff)
                  /\ have_seq' = TablesAfter(block, have_seq)
                  /\ UNCHANGED out
             ELSE /\ pc' = "check"
                  /\ out' = out \o PlainBytes(block)
                  /\ UNCHANGED tables
          /\ UNCHANGED <<input, pos, dict_len, rep, read_off, last_done,
                         hashed, total_out, poisoned, buf_len, delivered, ret>>

(* max_output is usize::MAX here, so only the per-block cap binds: what    *)
(* decode_capped's headroom leaves of it.                                  *)
headroom == SatSub(before - dict_len + block_max, Len(out) - dict_len)

DecodeSequence ==
  /\ pc = "seqs" /\ nseq < Len(block.seqs)
  /\ LET s == block.seqs[nseq + 1]
         r == resolve_offset(rep, s.ov, s.ll = 0)
         v == SequenceVerdict(r.offset, s, headroom,
                              Len(block.lits) - lit_pos, Len(out))
         run == SubSeq(block.lits, lit_pos + 1, lit_pos + s.ll)
     IN  /\ rep' = r.rep
         /\ CASE v = "ok" ->
                   /\ out' = out \o SequenceBytes(out, block.lits, lit_pos,
                                                  s, r.offset)
                   /\ lit_pos' = lit_pos + s.ll /\ nseq' = nseq + 1
                   /\ UNCHANGED <<input, pc, dict_len, read_off, poisoned,
                                  buf_len, before, delivered, ret>>
              [] v = "offset_too_large" ->     \* found after the literal run
                   Poison /\ out' = out \o run /\ UNCHANGED locals
              [] OTHER -> Poison /\ UNCHANGED <<out, locals>>
  /\ UNCHANGED <<pos, tables, last_done, hashed, total_out>>

TrailingLiterals ==
  /\ pc = "seqs" /\ nseq = Len(block.seqs)
  /\ LET rest == SubSeq(block.lits, lit_pos + 1, Len(block.lits))
     IN  IF Len(rest) > headroom
         THEN Poison /\ UNCHANGED out
         ELSE /\ out' = out \o rest /\ pc' = "check"
              /\ UNCHANGED <<input, dict_len, read_off, poisoned, buf_len,
                             delivered, ret>>
  /\ UNCHANGED <<pos, tables, rep, last_done, hashed, total_out, locals>>

(* decode_next_block after decode_block_at: hash, count, and on the last   *)
(* block verify the pledge and the checksum; then compact (in read).       *)
produced  == SubSeq(out, before + 1, Len(out))
FinalOk_IgnoresPledge(hash, total) ==  \* mutant: content size not compared
  frame.has_checksum => frame.stored = hash
FinalOk(hash, total) ==
  /\ frame.content_size # None => total = frame.content_size
  /\ frame.has_checksum => frame.stored = hash

FinishBlock ==
  /\ pc = "check"
  /\ pos' = pos + 1
  /\ hashed' = hashed \o produced
  /\ total_out' = total_out + Len(produced)
  /\ last_done' = block.last
  /\ IF block.last /\ ~FinalOk(hashed', total_out')
     THEN Poison /\ UNCHANGED out
     ELSE /\ pc' = "loop"
          /\ compact(out, read_off, dict_len)
          /\ UNCHANGED <<input, poisoned, buf_len, delivered, ret>>
  /\ UNCHANGED <<tables, rep, locals>>

(* The end of read: nothing left (clean EOF), or hand over min(avail, n).  *)
Deliver ==
  /\ LoopExit
  /\ pc' = "idle"
  /\ LET avail == Len(out) - read_off
         n     == Minimum(avail, buf_len)
     IN  IF avail = 0
         THEN ret' = "eof" /\ UNCHANGED <<out, read_off, dict_len, delivered>>
         ELSE /\ ret' = "data"
              /\ delivered' = delivered \o SubSeq(out, read_off + 1, read_off + n)
              /\ compact(out, read_off + n, dict_len)
  /\ UNCHANGED <<input, pos, tables, rep, last_done, hashed, total_out,
                 poisoned, buf_len, locals>>

Next ==
  \/ with_options
  \/ \E n \in BufSizes : Read(n)
  \/ StartBlock \/ DecodeSequence \/ TrailingLiterals \/ FinishBlock
  \/ Deliver

(* read runs to its end once called; the caller, like read_to_end, calls   *)
(* it again and again and not only with empty buffers (hence SF: a read in *)
(* progress or an empty buffer disables that call for a while).            *)
Fairness ==
  /\ WF_vars(with_options)
  /\ WF_vars(StartBlock \/ DecodeSequence \/ TrailingLiterals \/ FinishBlock
             \/ Deliver)
  /\ SF_vars(\E n \in BufSizes \ {0} : Read(n))

Spec     == Init /\ [][Next]_vars
FairSpec == Spec /\ Fairness

-----------------------------------------------------------------------------
TypeOK ==
  /\ frame \in Frame /\ dict \in Dict \cup {None}
  /\ pc \in {"new", "idle", "loop", "seqs", "check", "rejected"}
  /\ pos \in Nat \ {0}
  /\ out \in Seq(Byte) /\ dict_len \in Nat
  /\ have_huff \in BOOLEAN /\ have_seq \in BOOLEAN /\ rep \in RepTriple
  /\ read_off \in Nat /\ last_done \in BOOLEAN
  /\ hashed \in Seq(Byte) /\ total_out \in Nat
  /\ poisoned \in BOOLEAN /\ buf_len \in Nat
  /\ before \in Nat /\ lit_pos \in Nat /\ nseq \in Nat
  /\ delivered \in Seq(Byte) /\ ret \in {"none", "data", "eof", "err"}

(* Everything the frame has regenerated so far, dictionary first: what the *)
(* one-shot decoder would still hold at this point.                        *)
whole == content \o hashed
Opened == pc \notin {"new", "rejected"}
Maximum(a, b) == IF a >= b THEN a ELSE b

(* The three cursors into the buffer keep their order through every drain, *)
(* so that none of the usize subtractions out.len() - dict_len             *)
(* (BlockState::output_len), out.len() - read_off (buffered_len) and       *)
(* read_off - drop (compact) wraps around.                                 *)
NoUnderflow == dict_len <= read_off /\ read_off <= Len(out)

(* The memory bound the docs give for StreamingDecoder (window + one       *)
(* block): between reads that succeeded the buffer is within the window as *)
(* soon as a block was decoded, and at its peak, inside a read or after    *)
(* one that failed, it holds at most one block more than the window (or    *)
(* than the dictionary it was opened with, before the first eviction).     *)
MemoryBounded ==
  /\ pc = "idle" /\ ~poisoned /\ pos > 1 => Len(out) <= window
  /\ Len(out) <= Maximum(window, Len(content)) + block_max

(* compact never evicts a byte that a later block may still refer to or    *)
(* that was not handed over: whenever a block may start, out is the end of *)
(* the whole history and is at least one window long (or all there is).    *)
HistoryKept ==
  Opened /\ pc \in {"idle", "loop"} /\ ~poisoned =>
    /\ Len(out) <= Len(whole)
    /\ Len(out) >= Minimum(window, Len(whole))
    /\ \A i \in 1..Len(out) : out[i] = whole[Len(whole) - Len(out) + i]

(* The bytes the content checksum is computed over are exactly the bytes   *)
(* handed over plus the ones waiting in the buffer: no eviction, cursor    *)
(* move or partial read loses, repeats or reorders one of them.            *)
DeliveredIsHashed ==
  pc \in {"idle", "loop"} /\ ~poisoned =>
    hashed = delivered \o SubSeq(out, read_off + 1, Len(out))

(* A caller that keeps reading sees the end of the stream or an error:     *)
(* blocks that regenerate nothing do not make read spin for ever.          *)
EventuallyEnds == <>(ret \in {"eof", "err"} \/ pc = "rejected")
=============================================================================

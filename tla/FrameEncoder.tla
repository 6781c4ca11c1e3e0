---------------------------- MODULE FrameEncoder ----------------------------
(***************************************************************************)
(* How the one-shot encoders put a frame together: the block loops of      *)
(* src/encode/frame.rs (compress_store, compress, compress_long,           *)
(* compress_with_dict, compress_huffman_literals) and src/encode/          *)
(* parallel.rs, where several threads run the same loop, each on its       *)
(* segment of the input with some of the preceding bytes as history.       *)
(*                                                                         *)
(* A serial encoder is the parallel one with a single job.  All positions  *)
(* are positions in whole, the dictionary followed by the input.  What the *)
(* match finder finds and whether the compressed form wins are choices:    *)
(* any match that is there, and any verdict.                               *)
(***************************************************************************)
EXTENDS BlockDecode

CONSTANTS
  Datas, Dicts,  \* inputs, and dictionary contents (<<>> for none)
  Windows,       \* 1 << window_log of the parameters in use
  MinJobSize,    \* MIN_JOB_SIZE
  MaxJobs,       \* MAX_JOBS
  JobCounts,     \* n_jobs arguments
  MaxMatch,      \* bound: the longest match a parse offers
  LdmMinMatch,   \* LDM_MIN_MATCH
  Usize          \* 2^32 or 2^64: sums and products of lengths are taken modulo it

Byte == 0..255

ASSUME FrameEncoderAssumption ==
  /\ Datas \subseteq Seq(Byte) /\ Dicts \subseteq Seq(Byte)
  /\ Windows \subseteq Nat \ {0} /\ JobCounts \subseteq Nat
  /\ MinJobSize \in Nat \ {0} /\ MaxJobs \in Nat \ {0} /\ Usize \in Nat \ {0}
  /\ MaxMatch \in Nat /\ LdmMinMatch \in Nat
  /\ None \notin Nat \X Nat
  /\ None \notin [at : Nat, offset : Nat, len : Nat]
  /\ None \notin [ll : Nat, ml : Nat, offset : Nat]

VARIABLES
  pc,      \* "plan", "work", "done" or "panic"
  entry,   \* which function was called
  data, dict, structured,  \* the input; the dictionary, and whether it has tables
  max_offset, regular_reach, checksum, n_jobs, overlap_rlog,  \* its arguments and parameters
  plan,    \* the jobs
  worker,  \* per job: the next position, its blocks, and the tables of its EncState
  joined,  \* how many workers have been joined
  out,     \* the blocks of the frame so far
  frame    \* the frame returned, or None

args == <<entry, data, dict, structured, max_offset, regular_reach, checksum, n_jobs, overlap_rlog>>
vars == <<pc, args, plan, worker, joined, out, frame>>

whole == dict \o data

(* The tables a structured dictionary starts both sides with.              *)
DictTables == IF structured THEN <<0, 0>> ELSE None

-----------------------------------------------------------------------------
(* The plan.                                                               *)

(* effective_jobs.                                                         *)
effective_jobs_RoundUp ==  \* mutant: a last segment may be short
  LET by_size == (Len(data) + MinJobSize - 1) \div MinJobSize
  IN  IF n_jobs < 1 \/ by_size = 0 THEN 1 ELSE Minimum(n_jobs, Minimum(by_size, MaxJobs))
effective_jobs ==
  LET by_size == IF Len(data) \div MinJobSize = 0 THEN 1 ELSE Len(data) \div MinJobSize
      most == Minimum(by_size, MaxJobs)
  IN  IF n_jobs < 1 THEN 1 ELSE Minimum(n_jobs, most)

(* The seams i * len / jobs, and the history a job after the first starts  *)
(* from: window >> overlap_rlog bytes, if there are as many before it.     *)
Seam_Narrow(i, jobs) == ((i * Len(data)) % 16) \div jobs  \* mutant: a 4-bit product
Seam(i, jobs) == ((i * Len(data)) % Usize) \div jobs

overlap_bytes == max_offset \div (<<1, 2, 4, 8>>[overlap_rlog + 1])

IsLast(i, jobs) == i = jobs - 1
Job(i, jobs) ==
  LET a == Seam(i, jobs)
      overlap == IF i = 0 THEN 0 ELSE Minimum(a, overlap_bytes)
  IN  [lo |-> a - overlap, overlap |-> overlap, hi |-> Seam(i + 1, jobs),
       is_last |-> IsLast(i, jobs)]

(* A serial encoder: all of whole, of which the dictionary is history.     *)
SerialJob == [lo |-> 0, overlap |-> Len(dict), hi |-> Len(whole), is_last |-> TRUE]

Plan ==
  LET jobs == IF entry = "parallel" THEN effective_jobs ELSE 1
      p == IF jobs <= 1 THEN <<SerialJob>> ELSE [g \in 1..jobs |-> Job(g - 1, jobs)]
  IN  /\ pc = "plan"
      /\ plan' = p
      /\ worker' = [g \in 1..jobs |->
           [start |-> p[g].lo + p[g].overlap, blocks |-> <<>>, lit |-> DictTables]]
      /\ pc' = IF \E g \in 1..jobs : p[g].lo > p[g].hi THEN "panic" ELSE "work"
      /\ UNCHANGED <<args, joined, out, frame>>

-----------------------------------------------------------------------------
(* The block loop: frame.rs, and compress_segment of parallel.rs.          *)

Bytes(from, to) == SubSeq(whole, from + 1, to)
BlockEnd(g) == Minimum(worker[g].start + MaxBlockSize, plan[g].hi)

(* write_store_block: RLE if every byte of the chunk is the same.          *)
store_block(last, chunk) ==
  LET rle == chunk # <<>> /\ \A i \in 1..Len(chunk) : chunk[i] = chunk[1]
  IN  [type |-> IF rle THEN "rle" ELSE "raw", last |-> last, size |-> Len(chunk),
       lits |-> IF rle THEN <<chunk[1]>> ELSE chunk,
       id |-> None, reuse |-> None, seq |-> None]

(* The matches a parse may use in the block [from, to): they repeat bytes  *)
(* of the job's view, at most reach back.                                  *)
Matches(g, from, to, reach) ==
  {s \in [at : from..(to - 1), offset : 1..reach, len : 1..MaxMatch] :
     /\ s.at + s.len <= to /\ s.at - s.offset >= plan[g].lo
     /\ \A k \in 1..s.len : whole[s.at + k] = whole[s.at + k - s.offset]}

(* LdmState::generate: long matches beyond the regular finder's reach.     *)
LongMatches(g, from, to) ==
  {s \in Matches(g, from, to, max_offset) : s.offset > regular_reach /\ s.len >= LdmMinMatch}

(* write_compressed_block and write_huffman_literals_block, as what the    *)
(* decoder will see: literals around at most one match, tables of its own  *)
(* (named by id), or those of the last block this worker committed.        *)
compressed_block(g, last, from, to, s, reuse) ==
  [type |-> "comp", last |-> last, size |-> to - from,
   lits |-> IF s = None THEN Bytes(from, to) ELSE Bytes(from, s.at) \o Bytes(s.at + s.len, to),
   id |-> IF reuse = None THEN <<g, from>> ELSE reuse, reuse |-> reuse,
   seq |-> IF s = None THEN None ELSE [ll |-> s.at - from, ml |-> s.len, offset |-> s.offset]]

at_least_two_distinct(chunk) == \E i \in 1..Len(chunk) : chunk[i] # chunk[1]

(* Which tables the worker's EncState holds after the block: those of the  *)
(* trial only if the trial was emitted.                                    *)
Committed_Always(g, block, trial) == trial.id  \* mutant: state = next although stored
Committed(g, block, trial) == IF block = trial THEN trial.id ELSE worker[g].lit

(* One turn of a block loop: the candidate for the block is stored, or one *)
(* of the compressed forms is emitted instead.                             *)
Emit(g, trials, keep) ==
  LET to == BlockEnd(g)
      store == store_block(plan[g].is_last /\ to = plan[g].hi, Bytes(worker[g].start, to))
  IN  /\ pc = "work" /\ worker[g].start < plan[g].hi
      /\ \E trial \in IF trials = {} THEN {store} ELSE trials : \E block \in {store, trial} :
           worker' = [worker EXCEPT ![g] =
             [start |-> to, blocks |-> Append(@.blocks, block),
              lit |-> IF keep THEN Committed(g, block, trial) ELSE None]]
      /\ UNCHANGED <<pc, args, plan, joined, out, frame>>

(* The compressed forms of the next block, given the matches of a parse.   *)
Trials(g, matches) ==
  LET from == worker[g].start
      to == BlockEnd(g)
      last == plan[g].is_last /\ to = plan[g].hi
  IN  {compressed_block(g, last, from, to, s, reuse) :
         s \in matches \cup {None}, reuse \in {None, worker[g].lit}}

FinderMatches(g, reach) == Matches(g, worker[g].start, BlockEnd(g), reach)

(* The loops: compress_store, compress_huffman_literals, compress, with    *)
(* compress_long its finder bounded to its own tables' reach, with a       *)
(* dictionary primed as history, and a parallel worker's segment.          *)
StoreLoop(g) == entry = "store" /\ Emit(g, {}, FALSE)
HuffmanLoop(g) ==
  /\ entry = "huffman"
  /\ Emit(g, IF at_least_two_distinct(Bytes(worker[g].start, BlockEnd(g)))
             THEN {b \in Trials(g, {}) : b.reuse = None} ELSE {}, FALSE)
SerialLoop(g) == entry = "serial" /\ Emit(g, Trials(g, FinderMatches(g, max_offset)), TRUE)
LongLoop(g) ==
  /\ entry = "long"
  /\ Emit(g, Trials(g, FinderMatches(g, regular_reach)
                         \cup LongMatches(g, worker[g].start, BlockEnd(g))), TRUE)
DictLoop(g) == entry = "dict" /\ Emit(g, Trials(g, FinderMatches(g, max_offset)), TRUE)
compress_segment(g) ==
  entry = "parallel" /\ Emit(g, Trials(g, FinderMatches(g, max_offset)), TRUE)

EmitBlock(g) ==
  \/ StoreLoop(g) \/ HuffmanLoop(g) \/ SerialLoop(g)
  \/ LongLoop(g) \/ DictLoop(g) \/ compress_segment(g)

(* A frame needs a block: empty input is one empty last raw block.         *)
EmptyInput ==
  /\ pc = "work" /\ data = <<>> /\ worker[1].blocks = <<>>
  /\ worker' = [worker EXCEPT ![1].blocks = <<store_block(TRUE, <<>>)>>]
  /\ UNCHANGED <<pc, args, plan, joined, out, frame>>

(* The workers are joined in spawn order, whatever the order they end in.  *)
Ended(g) == worker[g].start >= plan[g].hi /\ (data = <<>> => worker[g].blocks # <<>>)

Collect(g) == g = joined + 1
Join(g) ==
  /\ pc = "work" /\ Collect(g) /\ Ended(g)
  /\ joined' = joined + 1
  /\ out' = out \o worker[g].blocks
  /\ UNCHANGED <<pc, args, plan, worker, frame>>

(* Header, blocks, checksum.                                               *)
Assemble ==
  /\ pc = "work" /\ joined = Len(plan)
  /\ pc' = "done"
  /\ frame' = [window |-> max_offset, content_size |-> Len(data), blocks |-> out,
               stored |-> IF checksum THEN data ELSE None]
  /\ UNCHANGED <<args, plan, worker, joined, out>>

-----------------------------------------------------------------------------
(* The window is chosen so that a block fits it (BlocksFit of FrameParams; *)
(* not so of inputs past 4 GiB).                                           *)
Init ==
  /\ pc = "plan"
  /\ entry \in {"store", "huffman", "serial", "long", "dict", "parallel"}
  /\ data \in Datas /\ dict \in IF entry = "dict" THEN Dicts ELSE {<<>>}
  /\ structured \in IF entry = "dict" THEN BOOLEAN ELSE {FALSE}
  /\ max_offset \in Windows /\ Minimum(MaxBlockSize, Len(data)) <= max_offset
  /\ checksum \in BOOLEAN
  /\ regular_reach = IF entry = "long" THEN max_offset \div 2 ELSE max_offset
  /\ n_jobs \in IF entry = "parallel" THEN JobCounts ELSE {1}
  /\ overlap_rlog \in IF entry = "parallel" THEN 0..1 ELSE {0}
  /\ plan = <<>> /\ worker = <<>> /\ joined = 0 /\ out = <<>> /\ frame = None

Next ==
  \/ Plan \/ EmptyInput \/ Assemble
  \/ \E g \in 1..Len(plan) : EmitBlock(g) \/ Join(g)
  \/ pc \in {"done", "panic"} /\ UNCHANGED vars

(* The caller's thread runs on, and so does every worker.                  *)
Fairness ==
  /\ WF_vars(Plan) /\ WF_vars(EmptyInput) /\ WF_vars(Assemble)
  /\ \A g \in 1..MaxJobs : /\ WF_vars(g <= Len(plan) /\ EmitBlock(g))
                           /\ WF_vars(g <= Len(plan) /\ Join(g))

Spec == Init /\ [][Next]_vars /\ Fairness

-----------------------------------------------------------------------------
(* What a decoder makes of the frame: the history, starting with the       *)
(* dictionary, and the tables of the last compressed block.                *)
BlockBytes(h, b) ==
  IF b.type # "comp" THEN PlainBytes(b)
  ELSE IF b.seq = None THEN b.lits
  ELSE SequenceBytes(h, b.lits, 0, b.seq, b.seq.offset)
         \o SubSeq(b.lits, b.seq.ll + 1, Len(b.lits))

BlockFits(st, b) ==
  /\ b.size <= Minimum(frame.window, MaxBlockSize)
  /\ b.reuse # None => b.reuse = st.tables
  /\ b.seq # None => b.seq.offset <= Minimum(frame.window, Len(st.h) + b.seq.ll)

DecodeStart == [h |-> dict, ok |-> TRUE, ended |-> FALSE, tables |-> DictTables]
DecodeBlock(st, b) ==
  IF ~st.ok \/ ~BlockFits(st, b) \/ st.ended THEN [st EXCEPT !.ok = FALSE]
  ELSE [h |-> st.h \o BlockBytes(st.h, b), ok |-> TRUE, ended |-> b.last,
        tables |-> IF b.type = "comp" THEN b.id ELSE st.tables]

(* After n blocks.                                                         *)
Decoding[n \in 0..Len(frame.blocks)] ==
  IF n = 0 THEN DecodeStart ELSE DecodeBlock(Decoding[n - 1], frame.blocks[n])
Decoded == Decoding[Len(frame.blocks)]

(* The frame every entry point returns decodes to its input, for every     *)
(* interleaving of the workers, every choice of matches and every block    *)
(* that was stored instead: no match reaches out of the window or of the   *)
(* output, no block reuses tables the decoder does not hold, exactly the   *)
(* last block ends the frame, and the pledge and the checksum agree.       *)
RoundTrip ==
  pc = "done" =>
    LET d == Decoded
    IN  /\ d.ok /\ d.ended /\ d.h = whole
        /\ frame.content_size = Len(d.h) - Len(dict)
        /\ checksum => frame.stored = data

(* "Deterministic contiguous segments; ... segment sizes differ by at most *)
(* one byte, and every segment is non-empty" (compress_parallel).          *)
SegmentsEven ==
  pc # "plan" /\ Len(plan) > 1 =>
    LET from(g) == plan[g].lo + plan[g].overlap
        size(g) == plan[g].hi - from(g)
    IN  /\ from(1) = 0 /\ plan[Len(plan)].hi = Len(data)
        /\ \A g \in 1..(Len(plan) - 1) : plan[g].hi = from(g + 1)
        /\ \A g, h \in 1..Len(plan) : size(g) > 0 /\ size(g) <= size(h) + 1

(* No input is worth more than MIN_JOB_SIZE per thread: a segment is never *)
(* shorter, unless the whole input is.                                     *)
SegmentsWorthwhile ==
  Len(plan) > 1 => \A g \in 1..Len(plan) :
    plan[g].hi - (plan[g].lo + plan[g].overlap) >= MinJobSize

(* A worker emits nothing past its segment, and no more workers are joined *)
(* than were started.                                                      *)
WorkersInside ==
  /\ Len(worker) = Len(plan) /\ joined \in 0..Len(plan) /\ Len(plan) <= MaxJobs
  /\ pc # "panic" =>
       \A g \in 1..Len(plan) : worker[g].start \in (plan[g].lo + plan[g].overlap)..plan[g].hi

(* How compress_parallel divides the work: evenly, worthwhile segments,    *)
(* and every worker inside its own.                                        *)
PlanSound == SegmentsEven /\ SegmentsWorthwhile /\ WorkersInside

(* The call returns.                                                       *)
FrameReturned == <>(pc = "done")
=============================================================================

# Verification of zstd-pure

zstd-pure is a Zstandard codec in Rust. This directory holds TLA+ modules that
model its stateful parts, TLC configurations that check them on small instances,
and TLAPS proofs of their main invariants for every instance. Paths below are
relative to the crate (`src/src/` in `PROJECT.json` is the crate's `src/`).

## 1. The system

| component | state it keeps | operations | correct when |
|---|---|---|---|
| streaming decoder (`streaming.rs`) | sliding buffer `state.out`, cursors `dict_len`, `read_off`, hash, totals, sticky error | `with_options`, `Read::read` (`decode_next_block`, `compact`) | hands over exactly the frame's content for any buffer sizes, within window + one block of memory |
| block decoder (`block.rs`, `literals.rs`, `sequences.rs`) | output, Huffman and FSE table caches, three repeat offsets | `decode_block_at` | output within its ceilings; tables and offsets follow the stream |
| one-shot decoder (`frame.rs`) | as above, whole output as history; totals over concatenated frames | `decode_frame`, `decompress_capped`, ... | accepts exactly the valid frames, never exceeds the caller's ceiling |
| dictionaries (`dict.rs`) | id, content, entropy tables | `raw`, `parse` | primes both decoders and the encoder alike |
| seekable format (`seekable.rs`) | seek table | `compress_seekable`, `SeekTable::parse`, parallel decode | frame boundaries agree with the table; groups decoded by several threads reassemble in order |
| streaming encoder (`encode/stream.rs`) | retained window, match-finder index, entropy state, hash | `push`, `drain_full_blocks`, `maybe_slide`, `finish` | output independent of how the input was chunked; sliding never changes a match; memory bounded |
| block encoder (`encode/block.rs`, `encode/sequences.rs`, ...) | `EncState`: repeat offsets, Huffman and FSE tables shared with the decoder | `write_compressed_block`, `emit_split`, stored fallback | its state stays in lockstep with the decoder's |
| match finders (`encode/lz.rs`, `encode/ldm.rs`) | hash, chain and tree tables of positions | `find`, `insert`, `reduce_index` | every match lies inside the window |
| parallel encoder (`encode/parallel.rs`) | jobs over segments with overlap | plan, spawn, join, assemble | one conformant frame whatever the thread schedule |
| frame encoders, options, parameters (`encode/frame.rs`, `encode/options.rs`, `encode/params.rs`) | none | block loops, `resolve`, `params_for_level`, header writers | every combination gives a frame the decoder accepts and reads as meant |
| bit streams, entropy coders (`bits.rs`, `fse.rs`, `huff.rs`, `encode/bitstream.rs`, `encode/fse.rs`, `encode/huff.rs`) | registers, states, tables | readers, writer, table building, mode choice | what is written is read back, from the same tables, at the size it was chosen for |
| checksum (`xxhash.rs`) | accumulators, a partial stripe | `update`, `digest`, `xxh64` | the digest does not depend on how the input was cut |
| dictionary training (`encode/train.rs`) | dmer values, sliding window, picked segments | `train_dictionary`, `train_dictionary_structured` | segments of single samples, best first, never worth nothing, within the size asked for |

The decoders share the block decoder; the streaming, parallel, dictionary and
one-shot encoders share the block encoder. The encoder's `EncState` and the
decoder's `BlockState` are two copies of one state kept equal only by what the
bytes between them say. Threads appear in two places (parallel encode, seekable
decode), each with scoped workers that are joined in order.

What is hard here: buffers that slide under indices (`compact`, `maybe_slide`);
caller-chosen chunk sizes on both sides; state that must agree across encoder and
decoder after blocks that were stored, split or cut by a job boundary; errors
half-way through a block; checks that come after most output was handed over;
window and block-size limits at their edges. `PROJECT.json` lists these as
hazards, each at its line with the properties that cover it.

## 2. Modules

**BlockDecode** - what decoding one block computes, as pure operators on a
*parsed* block (type, header size, literals, sequences, how literals and tables
are coded): repeat offsets, the match copy, the checks of `decode_capped` in the
order of the code, the acceptance of a block, the table caches. Bit-level parsing is abstracted: a
block that does not parse has `malformed = TRUE`.

**StreamingDecoder** - `StreamingDecoder` as a state machine. Its variables are
the fields of the struct and of `BlockState`, the locals of `decode_next_block`
and `decode_capped` (`before`, `lit_pos`, `nseq`) and two history variables
(`delivered`, `ret`). One call of `read` is `Read`, then per block `StartBlock`,
`DecodeSequence`*, `TrailingLiterals`, `FinishBlock` (which ends in `compact`),
then `Deliver` (which also ends in `compact`). The checksum is modelled as the hashed bytes
themselves, a digest without collisions.

**OneShotDecoder** - `decode_frame` as a recursive function, the reference.

**ByteStream** - the abstract contract of a decoder behind `std::io::Read`.

**DecoderContract** - the same frame and dictionary given to both decoders: `oneshot` holds
what `decode_frame` makes of them, and `ReadContract` reads StreamingDecoder as a ByteStream
over it. `with_options` does not ask for a dictionary a frame names when it is given
none (section 3), so `Input` then is the frame without the name.

**MCStreamingDecoder** - the instance: every frame of up to three blocks out of
a stock of ten, windows of 2 and 4 bytes, blocks of at most 3 bytes, pledged
sizes and checksums that fit or do not, frames cut short, an empty window, one
beyond the ceiling, and no dictionary, a raw one longer than the window, or one
with entropy tables. `MCSpec` is `ContractSpec` with the fairness of section 3.

**EntropyLockstep** - `EncState` on one side, `rep`, `seq` and `huff` of
`BlockState` on the other. `ParseSequence` is a match of the parse (`encode_offset`,
then `resolve_offset` on the running triple), `EmitBlock` is `emit_one` under
`emit_split`, `Commit` and `Store` are the two arms of the block loop, `Seam` is
the start of the next worker of `compress_parallel`; `DecodeTables` and
`DecodeSequence` are the decoder on the committed blocks. Which match, table mode
and form is best is a free choice, so every heuristic of the finders and every
size comparison is covered. `kept`/`real` count the offsets coded in full since
the last seam.

**MCEntropyLockstep** - cold start, structured dictionary, and a dictionary whose
Huffman table `code_table_from_huff` could not rebuild.

**StreamingEncoder** - `StreamingEncoder` of `encode/stream.rs` with its match
finder. `Push` appends one part of a push, `drain_full_blocks` and `finish` start a
block (`emit_block`), `ParsePosition` is one position of its parse, `EndBlock` writes
it and runs `maybe_slide`, `take_output` hands blocks out. A byte is the key its
position hashes to; the finder is `ChainState` (a head per key, a ring of chain
slots; the single-slot finders use the head only), the long-distance index of
`ldm.rs` a second table. Which positions are indexed and which candidate is taken is
a free choice, so `ParsePosition` covers every parser. The history variable `ref` is
the same pair of tables in an encoder that never slides. The binary tree of the
optimal parsers, the entropy state (EntropyLockstep's) and the hash are left out.

**MCStreamingEncoder** - blocks of one and two bytes, windows of two and three, rings
smaller than, equal to and larger than the window, with and without a long index.

**BitStreams** - the forward and the reverse bit reader and the bit writer, as
operators on their registers. A register is the part of the stream it holds, so a
field read across its end, or a byte loaded twice, shows as wrong bits.

**BitNumbers**, **CodingTables** - the arithmetic both coders rest on, and their tables: the
spread of symbols, FSE's decoding and encoding table made from the same counts, the encoder's
transition and start state, and the Huffman table of a list of weights as the set of its
ranges. No operator here is `RECURSIVE` (sums are recursive functions), so these two modules
can be proved about.

**Fse** - normalization, the description of a table (`write_ncount`, `read_ncount`),
and the interleaved two-state stream over the tables of CodingTables.

**HuffCoding** - a machine around the literals section: a frame starts cold or from a
dictionary (trained on a histogram, or any list of weights), and each block's
literals are written by `write_literals_auto` with the table of the blocks before and
read by `decode` with the decoder's. Length limiting, direct and FSE-coded weights,
one and four streams, every header format, the choice of the smallest form.

**SeqCoding** - the same for the sequences section: codes and extra bits, predefined,
RLE, described and repeated tables chosen per channel by exact cost, the shared bit
stream and its three states, and the dictionary's three tables, trained here, made
elsewhere or damaged.

**FrameEncoder** - the block loops of the one-shot encoders and `compress_parallel`.
`Plan` computes jobs, seams and overlaps; an entry's loop (`StoreLoop`,
`HuffmanLoop`, `SerialLoop`, `LongLoop`, `DictLoop`, `compress_segment`) emits one
block per step, so that workers interleave block by block; `Join` collects in spawn order;
`Assemble` ends the frame. A serial encoder is the parallel one with one job. Which
match is taken, and whether the compressed form wins, is a free choice.

**FrameParams** - the 22 level rows, `params_for_level` and its variants, `resolve`,
the sizes of the finders' tables and rings, and the frame header on the wire, written
and parsed. Sizes are pairs (multiples of 1024, rest), since 4 GiB is beyond
TLC's integers and the low 32 bits are what the code keeps of them.

**Seekable** - an archive as a sequence of cells: `WriteChunk` and `WriteTable` write
it, `DamageArchive` is what storage may do to it before or after the table is
parsed, `Parse` checks it, `decompress_seekable_parallel_capped` allocates the output
and spawns the workers, `WorkerFrame` decodes one frame into its region, `Join` and
`EndScope` are the join loop and the end of the thread scope.

**Hasher** - the streaming XXH64. The arithmetic is left out: a digest is the term of
what enters it, in order, so two digests are equal only if the same bytes entered in
the same places.

**Trainer** - greedy COVER: `Round` seeds the window, `Slide` moves it by one position
with its running score, `Pick` takes the best segment and spends its dmers,
`Concatenate` and `Finish` assemble the content and cut it to size.

**MCHuffCoding**, **MCSeqCoding**, **MCFrameEncoder**, **MCFrameParams**, **MCSeekable**,
**MCHasher**, **MCTrainer** - their instances (section 3).

**StreamingDecoderProofs**, **EntropyLockstepProofs** (EntropyLockstep and CodingTables),
**StreamingEncoderProofs**, **FrameFieldsProofs** (FrameParams and Hasher),
**FrameEncoderProofs**, **SeekableProofs**, **TrainerProofs** - the theorems (section 4), and
**DataLemmas**, what most of them need of sequences, division, powers of two and recursive
functions.

How they fit together: EntropyLockstep leaves open what a section's bits are and shows that
both sides always hold the same tables and offsets; HuffCoding and SeqCoding show
that with the same tables a section comes back and leaves the same tables.
FrameEncoder leaves open what the finder returns, StreamingEncoder shows that what
it returns is there and in reach. StreamingDecoder is checked against OneShotDecoder.

Definitions named `X_Variant` and marked `mutant` are plausible errors in `X`; nothing
refers to them, and each makes the property it is listed with in `PROJECT.json` fail.

## 3. What TLC checks

Several invariants are conjunctions of named parts, each commented where it is
defined.

`streaming_decoder` (405,302 states):

- `TypeOK`, `NoUnderflow`: cursors `dict_len <= read_off <= out.len()`.
- `MemoryBounded`: after a successful read at most one window is buffered; at the
  peak at most one block more than the window (or than the dictionary).
- `HistoryKept`: whenever a block may start, the buffer is a suffix of everything
  regenerated and at least one window of it.
- `DeliveredIsHashed`: hashed = delivered + pending.
- `EventuallyEnds`: a caller that keeps reading reaches the end or an error.
- `ReadContract`: a refinement of `ByteStream` over the one-shot decoder's output:
  the stream ends cleanly only if `decode_frame` accepts the frame and after
  exactly its bytes; it fails only if `decode_frame` does or a match reaches
  beyond the window.

Fairness: a `read` that was entered runs on (it is sequential code without
blocking), and the caller passes a non-empty buffer again and again (strong
fairness, since a read in progress disables the next; `read_to_end` does so).
The terminal state of a refused frame is why deadlock is not checked.
Bounds: three blocks are the least in which a block is evicted, a second one
refers across the eviction, and a third uses tables and offsets left by both;
windows 2 and 4 with blocks of at most 3 bytes give blocks smaller than, equal to
and larger than the window; read sizes 0, 1 and 3 give empty, partial and whole
deliveries.

`lockstep` (3,350,341 states):

- `Faithful`: the decoder copies each match from the distance the parse chose.
- `Reconverged`: the claim of the header of `parallel.rs` that three offsets coded in
  full after a seam make the triples equal.
- `SameTables`: a repeated table or a treeless section finds the table it was coded with.
- `TypeOK`: no block reuses a table that is not there.

Four chunks of two matches allow a frame start, a seam, a stored chunk and three full
offsets in two chunks after it; distances 2, 3 and 4 hit the default and dictionary
triples, their "minus one" code and neither. Two tables tell a stale one from the
right one; chunks of two blocks let a table survive a stored chunk and a block
without sequences. One channel: the three of the code are treated alike and do
not interact. Offsets and tables do not interact either (no guard or assignment of
one reads the other), so `OneAtATime` cuts the product: as soon as two tables are about or
a chunk is split, chunks are bounded by three and all matches have one distance. The tables are
interchangeable model values (`SYMMETRY`; no liveness is checked in this run).
The frame simply ends, so deadlock is not checked.

`streaming_encoder` (3,941,852 states):

- `SlideTransparent`: from every position the head, every step of the chain walk and
  the repeat probe give what they would give had nothing ever been dropped.
- `IndexMatchesInput`: entries name retained, already passed bytes, heads (and long
  entries) bytes of their own key.
- `ChunkIndependent`: the blocks written are a function of the number of bytes pushed,
  for every way to cut the pushes and every moment of `take_output`; the tail is held
  back, and no input gives one empty last block.
- `RetentionBounded`: the retained input never exceeds the larger of two windows and a
  window plus a ring, plus one block between pushes and two inside one.
- `TypeOK`: `dropped <= emitted <= total`, the order every `usize` subtraction needs.

Six configurations: single-slot finder, rings smaller than, equal to and larger than
the window, and two with a long-distance index. Eight bytes are one slide with blocks
parsed after it, and two where the ring divides what is dropped. `LongBounds` keeps the
long index empty in the configurations that have none (the code creates none there) and
stops the others at seven bytes, where each has slid, one of them with blocks after. The frame ends with
`finish`, so deadlock is not checked.

`frame_encoder` (336,296 states): `RoundTrip`, every entry point's frame decodes to its
input, for every interleaving of the workers, choice of matches and stored block; `PlanSound`,
segments tile the input, differ by at most a byte, are worth a thread and
bound their worker; `FrameReturned`, the call returns. Fairness: every thread runs on. Seven bytes in
segments of at least two give one, two and three jobs with uneven shares; windows of
two and four bytes make a match reach into the overlap, to its end, and not past it. A match is
at most `MaxMatch` long, as long as a block here, so that one can fill a block or leave
literals around it; `LdmMinMatch` is the least a long-distance match may be. The product in
the seam is taken modulo `Usize`.

`frame_params` (464,688 states): `HeaderRoundTrip`, the parser reads the size, window,
id and flag that were meant, and refuses a header cut anywhere; `WindowCovers`, the
window holds the largest block and the dictionary; `FinderCovered`, the finder reaches no
further than the window and its tree, slides by multiples of its rings, and has
tables of usable sizes whatever was asked for. Sizes lie on both sides of every boundary (nothing, a
byte, the smallest window, a block, 8 MiB, 128 MiB, 4 GiB, 1 TiB), levels on both sides of
every change of strategy or table.

`seekable` (228,422 states): `RoundTrip`, an archive reads back frame by frame and by a
decoder that knows no seek tables; `RandomAccess`, frames of an accepted table tile the
archive and every offset finds the frame that holds it, also past empty frames;
`ParallelDecode`, whatever the schedule and the damage, the parallel decode returns what
the serial one would, with the error of the first bad frame, within the ceiling and
inside the workers' regions; `ScopeEnds`, it returns. Fairness: threads that are not
finished run, and the caller runs on. Three bytes in chunks of one or two give up to three frames
for up to three workers; two faults damage the table, a frame, or both, or cut the end, before
and after the parse; `MaxU32 = 13` puts the size errors within reach.

`huff_coding` (2,624 states): `CodesComplete`, every table the decoder accepts is a complete
prefix code, the lengths made for a histogram are at most 11 bits and use up the code
space, and a more frequent symbol never has a longer one; `TablesAgree`, the encoder's
codes are those of the decoder's cached table after any blocks and dictionary;
`RoundTrip`; `SizesExact`, the computed size is the written one and no other form would
have been shorter, and every header format comes back. The literals are short, of even and
uneven length in four streams, over alphabets on both sides of the 128 direct weights; histograms
give codes too deep by one, two and three bits; all weight lists of three symbols.

`seq_coding` (3,292 states): `SectionRoundTrip`, sequences and their count come back,
whatever tables came before; `TablesSound`, both sides hold the same table, and a described
one fits its data; `Cheapest`, no other mode of any channel would make the section
shorter; `DictServes`, a trained dictionary loads and can code what it was trained on.
Sections use every code at both ends of its range and the widest extra bits; dictionary
descriptions are flipped in each of their first 40 bits or cut at each byte.

`hasher` (8,303 states): `DigestMatches`, `Split`, with the program's stripe of 32 and up to four
pieces around every boundary of the buffer, whose bytes differ from piece to piece.

`trainer` (65,256 states): `SearchExact`, the running score is the true one at every position and
the best start so far is the best; `SegmentsWithin`, no picked segment straddles two
samples; `NewCoverage`, each pick covers a dmer no earlier one did; `DictFits`, within
`max_size`, and with the content its repeat offsets reach. All corpora of up to three
samples out of eight, among them empty ones, ones too short for a dmer or a segment, and
ones in which a dmer repeats inside a window.

In the last four a run simply ends, so deadlock is not checked.

Two runs show a disagreement between the code and what it says of itself:

- `evicted_reachable`: `compact` evicts dictionary bytes that are still in reach,
  so a frame the one-shot decoder accepts is refused by the streaming one.
- `options_window`: with a `window_log` override below 17 a frame may hold blocks larger
  than its window, which this crate's decoder refuses; `options.rs` promises a
  conformant frame for every combination.

Observed while modelling, without a run of their own:

- `streaming.rs:121` opens a frame that names a dictionary although none was supplied;
  `error.rs:70` and `decode_frame` (`frame.rs:309`) say it is refused.
- The comment at `encode/stream.rs:23-25` bounds the retained buffer by `2 * window +
  ring_period`; with a ring period of 1, `maybe_slide` (`:244`) keeps a history of exactly
  two windows, and up to one block of tail comes on top. `RetentionBounded` is the
  bound that holds.
- `parallel.rs:155` computes `i * len / jobs`, which wraps for inputs near the limit of a
  32-bit `usize`; the comment at `:146-147` promises even segments for every length.
- `params.rs:95` takes the low 32 bits of `n - 1`, so an input a little over 4 GiB gets the
  window of a tiny one, down to 1 KiB. The header of such a frame is well-formed, but the
  encoder still cuts blocks of 128 KiB, and this crate's own decoder refuses a block larger than
  its window. `WindowCovers` therefore leaves out the sizes `SizeCut` names; `FinderCovered`
  holds for them too.
- `train.rs:361` keeps the front of the content when a header takes room, although the
  most valuable segments were placed last (`train.rs:6-7`, `210-211`).
- A foreign seek table with very uneven frames (sizes 1, 1, 10 for three jobs) can leave a
  worker of the parallel decode without frames; `NoIdleWorker` therefore speaks of
  archives written here. Only the balance suffers.

## 4. What is proved

`StreamingDecoderProofs`, for every set of frames, dictionaries, read sizes, byte
values, window ceiling and block size (assumptions: `MaxBlockSizeAssumption`,
`ConstantsAssumption`, i.e. the constants have their types and raw and RLE bodies
have the length their headers promise):

`Spec => []TypeOK`, `[]NoUnderflow`, `[]MemoryBounded`, `[]HistoryKept`,
`[]DeliveredIsHashed`.

These follow from one inductive invariant `IInv`. None of them is inductive alone:
after `FinishBlock` the buffer is within the window only because the block it
finished started with the cursor at the end of the buffer (`InBlock`: `read_off =
before`) and added at most `block_max <= window`; that in turn holds because
`StartBlock` runs only when everything was delivered, which needs the cursor
order; and what is hashed equals what is delivered at that moment because nothing
was pending (`Between`). `EndOf(h, o, n)` (the first n bytes of o are the last n
of h) carries the history through appends (`EndOfAppended`), block ends
(`EndOfExtended`) and drains (`EndOfDrained`); `CompactFacts` says what `compact`
does to all of it at once.

`RefinesOneShot`, in the same module, is the refinement: `ContractSpec => ReadContract`, for
every frame, dictionary and sequence of read sizes (`UnlimitedAssumption`: the blocks of a
frame regenerate no more than an address space holds). It needs a second invariant, `Sim`,
which says where the one-shot decoder is while the streaming one is between two reads, in
the middle of a block or between two sequences:

- `Rounds` are the states of the one-shot block loop without a ceiling, `Inner` those of its
  loop over the sequences. `Mirrors(st, h)`: the tables, offsets and literal position of the
  streaming decoder are those of `st`, and `h`, everything regenerated so far, is its output.
  The sliding buffer is only the end of `h`, and `SuffixBytes` says that an accepted
  sequence reads the same bytes from either.
- A sequence the two judge differently has an offset beyond the buffer; the buffer holds a
  window, so the one-shot decoder has then matched beyond the window. From there on it can
  only fail or stay so (`Grows`, `Later`: nothing takes a lost state back), which is what
  `MayFail` needs at the step that poisons the decoder.
- `decode_frame` runs with the pledged size as its ceiling, the streaming decoder with none.
  `RunsCeiling` shows that a ceiling changes nothing while the output stays below it, through
  sequences, trailing literals, blocks and the loop (`SequenceCeiling` to `NextCeiling`); an
  output above the pledge is refused by both, by one early, by the other at the end.

`EntropyLockstepProofs`, for all sets of offsets, tables, channels and starts in which
encoder and decoder begin equal (`LockstepAssumption`) and for any number of chunks,
blocks and sequences: `Spec => []TypeOK`, `[]Faithful`, `[]SameTables`,
`[]Reconverged`. Between a seam and the third full offset the triples are *not*
equal, so equality is not inductive. What is: they `Agree` - entry k is equal, or
the encoder's is 0 and fewer than k full offsets were coded since the seam. A
repeat code chosen for a real (non-zero) match can only name an equal entry, and
every code shifts unknown entries towards the end no faster than full offsets do
(`StepAgree`). `SeqChain` and `BlockChain` say that each sequence and block was coded
against what the one before it left, and `RepInv`, `TabInv` place the decoder in
that chain. For tables the weaker `TableCompat` suffices: the encoder's cache is
empty or equal.

The second part of that module is about the tables both sides hold in lockstep
(CodingTables), for every input of the two functions that build them:

- `TablesAreComplete`: the table `build_table` makes of any list of weights it accepts has
  every entry in the range of exactly one symbol, no range beyond its end (so the error
  "huffman table overflow" cannot occur) and code lengths in 1..`max_bits`. The weight of the
  last symbol fills the table exactly: the residual is a power of two no larger than the
  table (`LastWeight`), and with it the ranges of all weights add up to the size (`EndsAt`).
  A number below a running sum lies in exactly one step of it (`TakerIs`), and the symbols
  of one weight are told apart by their rank, each rank being one symbol's (`RankIs`); hence a
  number lies in exactly one range (`OneRange`).
- `TablesAreInverse`: for every distribution `build_dtable` accepts, at table logs 0 and 5 to
  15 (RLE tables, and every log a description can state below `FSE_MAX_TABLELOG`), the two
  tables are exact inverses, as the comment of `build_ctable` claims: from every state, the
  encoder's step leads to a state whose entry gives back the symbol, the number of bits and
  the state before. The walk of the spread comes by every cell once because its step has an
  inverse modulo the size (`StepInverse`, one explicit inverse per log; `WalkIs`). So a symbol
  has as many cells as its count asks for, in one order on both sides (`CellsOf`, `CellIs`), the
  k-th of them stands for the number `count + k - 1`, and what remains is that
  `(value + delta_nb_bits) >> 16` is the number of bits that brings the state into
  `count..2 * count - 1` (`StepBits`) and is the one the decoder reads there (`BroughtBy`). Up
  to log 14 the state `init_state2` starts from is one of the symbol's own (`StartUndone`); at log 15 its
  rounding by 2^15 would be off, which no caller reaches (all logs in use are at most 9).

`StreamingEncoderProofs`, for all keys, windows, rings, block sizes and inputs
(`EncoderAssumption`: positive sizes, and the finder's reach within the window):
`Spec => []TypeOK`, `[]SlideTransparent`, `[]IndexMatchesInput`,
`[]RetentionBounded`. `SlideTransparent` speaks of one position and says nothing of
the entries that will be read later; the invariant says where *every* entry is
(`TablesShifted`: the non-sliding encoder's entry minus `dropped`, empty if it fell
off), that `dropped` is a multiple of the ring period (`Aligned`, so that both
encoders use the same slot: `SameSlot`) and that it stays a window behind `emitted`
(`WindowKept`, so that what fell off was out of reach: `SameView`, `SameWalk`).
`Indexed` and `Retained` are the inductive forms of the other two.

`FrameFieldsProofs`, first part, for every content and dictionary size of 64 bits, level,
window, option and dictionary id (`FrameParamsAssumption`, types only):
`Spec => []HeaderRoundTrip`, `[]WindowCovers`, `[]FinderCovered`. The three speak of finished
steps; the invariant, `HeaderInv`, says what the parameters, the wire and the parse were made
from: the parameters are those of the call, the wire is the header written from them, a
beginning of it, or it with a block behind, and the result is the parse of that. The theorems
are then facts about functions:

- The window. `CeilCovers`: what `ceil_log2` returns, which only sees 32 bits, is in 0..32 and
  its power covers every size of up to 4 GiB. `LevelCovers` carries that through the cut at
  the level's own window, `DictParams` and `LdmParams` through the other two ways to size
  one, and `ResolveIs` through the overrides. `EntrySuitable` puts together what every
  entry point may rely on (`Suitable`), from which `EntryBlocks`, `EntryDict` and `EntryFinder`
  are arithmetic on powers of two. Powers are a table of 31 numbers (`Power`), since the provers
  know 2^x only for a given x.
- The header. `SizeBack`: a size of 64 bits is what its eight bytes say, and its first four if
  the rest are 0 (`Digits`, `HighDigits`). `DescriptorBack`, `WindowBack` and `IdBack` do the
  same for the other fields. `ParseLayout` says where the parser looks for each, given the
  descriptor, and `WrittenFields` where the writer put it; a stream that agrees with the
  header as far as it goes is refused while it is shorter, and gives everything back from
  there on (`WrittenBack`, `StreamedBack`).

Second part, for every stripe size, alphabet and set of pieces (`StripeAssumption`,
`PiecesAssumption`): `HashSpec => []TypeOK`, `[]Split`, `[]DigestMatches`. `Inv` is `TypeOK`
with `Split`: absorbed bytes followed by buffered bytes are the input, and as many
stripes are absorbed as it holds. `DigestMatches` says nothing of the buffer and is not
inductive; it follows (`DigestOfSplit`). An update that completes the buffered stripe cuts
the piece in three (`Filled`, `TakeStripes`), and `AbsorbStep` puts them together again.

`ChunksIrrelevant` adds `[]ChunkIndependent`: `Tiled` says that the blocks written are the
full blocks of the input in order, that what remains is held back until a full block and one
more byte are there, and that `finish` cuts the rest the same way.

`FrameEncoderProofs`, for all inputs, dictionaries, windows, block and job sizes and match
lengths: `SeamsExact => (Spec => []PlanSound)` and `SeamsExact => (Spec => []RoundTrip)`.
`FrameEncoderAssumption` gives the constants their types; `SeamsExact` says that the number of
jobs times the length of an input does not wrap. With 64-bit lengths and `MAX_JOBS = 256`
every input that fits an address space satisfies it; with 32-bit ones an input of more than
16 MiB need not, which is the observation on `parallel.rs:155` above. `RoundTrip`
speaks of the finished frame. What holds at every step is `FrameInvariant`: the blocks of a
worker take *a decoder that has the input up to the worker's start* to where the worker is
(`Follows` for one block, `Run` for several, `Reaches` for some list of positions and tables
on the way). Such runs can be put one behind the other (`ReachesJoin`), although a worker
starts with no tables and the decoder arrives with those of the previous one: a block that
assumes no tables works with any. The joined blocks therefore reach the end of
the last joined segment, whatever the others did meanwhile. For `PlanSound` the seams are
shown to be monotone and even from division (`SeamFacts`, `JobPart`, `PlanDivides`).

`SeekableProofs`, for every input, frame size, 32-bit limit, damage, number of threads and
ceiling (`SeekAssumption`, types only):

- `[]RandomAccess`: what `SeekTable::parse` accepts is made of running sums (`Indexed`), and
  the frame found for an offset is the last that begins at or before it.
- `[]ParallelDecode`: `Decodes` says that the groups divide the frames (`Grouped`), that each
  worker has placed the frames it passed where the running sums say and stopped only at a
  frame that fails (`Works`), and that among the joined workers only the last has failed
  (`Joined`). When all are joined every frame is placed, and frames placed at their sums are
  their concatenation; otherwise the first failure in the order of joining is the first in
  the order of the frames.
- `[]RoundTrip`: `ReadInvariant` says, for an archive nobody damaged, that the frames hold the
  chunks of the input (`Chunked`, `Framed`), the table lists them (`Tabled`) and the parsed
  table is that list (`TableOf`). The decoder that knows no tables is shown to run frame by
  frame and over the skippable table to the end (an explicit run of its loop), and every
  group gets a frame because all chunks but the last are full (`FullChunks`, `ShareReached`,
  `Spread`).

`TrainerProofs`, for every corpus, dmer length, segment length, size limit and header length
(`TrainerAssumption`, types only, and a dmer has at least one byte): `Spec => []SearchExact`,
`[]SegmentsWithin`, `[]NewCoverage`, `[]DictFits`. A score is a sum over a *set* of dmers, kept
by adding and subtracting at the two ends of a window in which dmers repeat. `SearchExact`
is not inductive: the score alone does not say whether the dmer that leaves was the last of
its kind. `Counted` does, the invariant of the window: each count is the number of that
dmer's places in it, and the score is the sum over the dmers that have one
(`EnteringIs`, `LeavingIs`; `SeedIs` for the fold that makes the first window). That sums over
a finite set do not depend on the order (`SumIs`) needs a recursion and an induction over its
subsets, `SetRecursion` and `SubsetInduction`. `NewCoverage` follows from `PickedInv`: what a
picked segment covers is worth nothing any more, and a positive score has a summand that is
worth something (`SegmentIs`).

`DataLemmas`: the provers cannot instantiate the library's induction theorems, which take an
operator. Induction over 0..n is done with sets instead (`UpTo`: a set with 0 and the
successor of each of its members below n holds all of 0..n, from a least element of the
complement), and `Recursion` gives the function a step function defines; with both, the
recursive functions of these modules (sums, folds, the decode loops) are reasoned
about like any others.

Only model-checked: liveness (EventuallyEnds, FrameReturned, ScopeEnds), which rests on
fairness; HuffCoding and SeqCoding, whose streams and descriptions are `RECURSIVE` operators or
rest on such (the core of `CodesComplete` and of `TablesSound`, that a table is complete and that
two tables are inverse, is what the two theorems above prove for every input; that both sides
get the same counts and weights, and the round trips and sizes, are not); and the two
disagreements.

## 5. Not modelled

- The mixing of XXH64: 64-bit products, beyond TLC's integers; what enters it, and in which
  order, is Hasher's.
- The heuristics of the match finders and parsers, and the price estimates of the optimal
  parser: they choose among valid sequences, and every choice is allowed here. The
  binary tree of `BtState`, whose branches are re-hung on every insertion.
- Where `emit_split` cuts, by estimated size: a free choice in EntropyLockstep.
- `train_dictionary_optimized`, which runs the trainer for several parameters and keeps
  the dictionary that compresses best.
- The magic number, the id and the repeat offsets' bytes of `Dictionary::parse`.
- `decompress_http` and the like, which forward to the decoders with another ceiling; frames
  concatenated other than in a seekable archive.
- Damaged sequence sections: only descriptions in dictionaries are damaged bit by bit, blocks
  either parse or not (`malformed`).
- `encode/mod.rs` and `lib.rs`, which only forward.

## 6. Plan

Done: both decoders, the entropy state shared by both sides and the coders beneath it,
the streaming, one-shot and parallel encoders, parameters and headers, the seekable
format, the trainer and the checksum. What remains, in this order:

1. **BinaryTree**: `BtState` under insertion and index reduction, with the property of
   `SlideTransparent`.
2. **FrameStream**: `decompress_capped` over concatenated and skippable frames of every
   kind, with the ceiling handed from frame to frame.

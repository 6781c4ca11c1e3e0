------------------------------ MODULE Seekable ------------------------------
(***************************************************************************)
(* src/seekable.rs: an archive of independent frames behind a seek table.  *)
(* compress_seekable writes it chunk by chunk; it is stored, where it may  *)
(* be damaged; SeekTable::parse reads the table back; and                  *)
(* decompress_seekable_parallel_capped decodes the frames on several       *)
(* threads, each into its own region of the output.                        *)
(*                                                                         *)
(* An archive is a sequence of cells.  A u32 field is one cell (and so is  *)
(* the descriptor byte); a compressed frame of length n is a "frame" cell, *)
(* which holds what the frame decodes to, and n - 1 "body" cells.  Sizes   *)
(* count cells, so a table entry is 3 cells with a checksum and 2 without. *)
(***************************************************************************)
EXTENDS Integers, Sequences, FiniteSets, SequencesExt

CONSTANTS
  Datas,        \* the inputs of compress_seekable
  FrameSizes,   \* its frame_size arguments
  FrameLens,    \* the lengths a compressed frame may have
  MaxU32,       \* u32::MAX: the largest value of a table field
  MaxJobs,      \* MAX_DECODE_JOBS
  JobCounts,    \* n_jobs arguments
  Ceilings,     \* max_output arguments
  Damage,       \* values a damaged table field may take
  MaxFaults,    \* bound on the damage done to one archive
  None

Byte == 0..255
Errors == {"seekable_size", "seek_table", "truncated", "bad_magic", "output_too_large",
           "frame_size", "checksum", "out_of_range"}

(* SeekFrame: an entry of a parsed table.                                  *)
FrameRecords == [compressed_offset : Nat, compressed_size : Nat,
                 decompressed_offset : Nat, decompressed_size : Nat,
                 checksum : Nat \cup {None}]

ASSUME SeekAssumption ==
  /\ MaxU32 \in Nat /\ MaxJobs \in Nat \ {0}
  /\ Datas \subseteq Seq(Byte) /\ FrameSizes \subseteq Nat /\ FrameLens \subseteq Nat \ {0}
  /\ JobCounts \subseteq Nat /\ Ceilings \subseteq Nat /\ Damage \subseteq Nat
  /\ None \notin Errors /\ None \notin Nat /\ None \notin Seq(FrameRecords)

VARIABLES
  pc,        \* "write", "stored", "ready", "decode" or "done"
  data, size, checksum,  \* the arguments of compress_seekable
  entries,   \* its entries so far: [cs, ds, ck]
  archive,   \* its output
  faults,    \* how often the archive was damaged, and whether after the parse
  table,     \* the parsed SeekTable, or None
  jobs, bounds, out, worker, joined,  \* the thread scope of the parallel decode
  limit,     \* its max_output
  result     \* what the last call returned: [ok, err, bytes]

input == <<data, size, checksum>>
scope == <<jobs, bounds, out, worker, joined, limit>>
vars == <<pc, input, entries, archive, faults, table, scope, result>>

(* Ok(bytes) and Err(e).                                                   *)
Ok(bytes) == [ok |-> TRUE, err |-> None, bytes |-> bytes]
Err(e)    == [ok |-> FALSE, err |-> e, bytes |-> <<>>]

Cell(k, n, content) == [k |-> k, n |-> n, content |-> content]
Word(n) == Cell("word", n, <<>>)
SkippableMagic == Cell("skippable_magic", 0, <<>>)
SeekableMagic  == Cell("seekable_magic", 0, <<>>)

(* crate::compress, as far as the archive depends on it: some frame that   *)
(* decodes to the chunk.                                                   *)
compress(chunk, len) ==
  [i \in 1..len |-> IF i = 1 THEN Cell("frame", len, chunk) ELSE Cell("body", 0, <<>>)]

(* The low 32 bits of xxh64: a digest that tells the instance's chunks     *)
(* apart unless MaxU32 is smaller than their number.                       *)
xxh64(bytes) ==
  LET h[i \in 0..Len(bytes)] ==
        IF i = 0 THEN 1 ELSE (h[i - 1] * 3 + bytes[i]) % (MaxU32 + 1)
  IN  h[Len(bytes)]

(* Sums(s)[i]: the first i numbers of s added up.                          *)
Sums(s) ==
  LET sum[i \in 0..Len(s)] == IF i = 0 THEN 0 ELSE sum[i - 1] + s[i]
  IN  sum

-----------------------------------------------------------------------------
(* Writing.                                                                *)

SkippableHeader == 2
FooterSize == 3
EntrySize(has_checksum) == IF has_checksum THEN 3 ELSE 2

(* compress_seekable, one chunk: chunks(frame_size.max(1)).                *)
FrameSize == IF size = 0 THEN 1 ELSE size
Written == Sums([i \in 1..Len(entries) |-> entries[i].ds])[Len(entries)]

WriteChunk(len) ==
  LET n     == IF Len(data) - Written < FrameSize THEN Len(data) - Written ELSE FrameSize
      chunk == SubSeq(data, Written + 1, Written + n)
  IN  /\ pc = "write" /\ Written < Len(data)
      /\ IF len > MaxU32 \/ n > MaxU32
         THEN /\ pc' = "done" /\ result' = Err("seekable_size")
              /\ UNCHANGED <<entries, archive>>
         ELSE /\ entries' = Append(entries,
                   [cs |-> len, ds |-> n, ck |-> IF checksum THEN xxh64(chunk) ELSE 0])
              /\ archive' = archive \o compress(chunk, len)
              /\ UNCHANGED <<pc, result>>
      /\ UNCHANGED <<input, faults, table, scope>>

(* write_seek_table.                                                       *)
EntryCells(e) ==
  <<Word(e.cs), Word(e.ds)>> \o IF checksum THEN <<Word(e.ck)>> ELSE <<>>

SeekTableCells_CountsHeader ==  \* mutant: Frame_Size counts the skippable header too
  <<SkippableMagic, Word(SkippableHeader + Len(entries) * EntrySize(checksum) + FooterSize)>>
    \o FlattenSeq([i \in 1..Len(entries) |-> EntryCells(entries[i])])
    \o <<Word(Len(entries)), Word(IF checksum THEN 1 ELSE 0), SeekableMagic>>
SeekTableCells ==
  <<SkippableMagic, Word(Len(entries) * EntrySize(checksum) + FooterSize)>>
    \o FlattenSeq([i \in 1..Len(entries) |-> EntryCells(entries[i])])
    \o <<Word(Len(entries)), Word(IF checksum THEN 1 ELSE 0), SeekableMagic>>

WriteTable ==
  /\ pc = "write" /\ Written = Len(data)
  /\ IF Len(entries) * EntrySize(checksum) + FooterSize > MaxU32
     THEN pc' = "done" /\ result' = Err("seekable_size") /\ UNCHANGED archive
     ELSE pc' = "stored" /\ archive' = archive \o SeekTableCells /\ UNCHANGED result
  /\ UNCHANGED <<input, entries, faults, table, scope>>

(* What storage may do to an archive, before the table is parsed or before *)
(* the frames are read: a field changes, a frame stops decoding, or the    *)
(* tail is cut off.                                                        *)
DamageArchive ==
  /\ pc \in {"stored", "ready"} /\ faults.n < MaxFaults
  /\ \/ \E i \in 1..Len(archive), n \in Damage :
          /\ archive[i].k = "word" /\ archive[i].n # n
          /\ archive' = [archive EXCEPT ![i].n = n]
     \/ \E i \in 1..Len(archive) :
          archive[i].k = "frame" /\ archive' = [archive EXCEPT ![i] = Cell("body", 0, <<>>)]
     \/ archive # <<>> /\ archive' = SubSeq(archive, 1, Len(archive) - 1)
  /\ faults' = [n |-> faults.n + 1, late |-> pc = "ready"]
  /\ UNCHANGED <<pc, input, entries, table, scope, result>>

-----------------------------------------------------------------------------
(* Reading.                                                                *)

(* The frames of a table whose entries are the cells of a from p on; the   *)
(* sizes accumulate into offsets.                                          *)
Field(a, p, i, k, has_checksum) == a[p + (i - 1) * EntrySize(has_checksum) + k].n
Before(a, p, num, k, has_checksum) ==
  Sums([i \in 1..num |-> Field(a, p, i, k, has_checksum)])

Entries(a, p, num, has_checksum) ==
  LET comp_off == Before(a, p, num, 1, has_checksum)
      decomp_off == Before(a, p, num, 2, has_checksum)
  IN  [i \in 1..num |->
        [compressed_offset |-> comp_off[i - 1],
         compressed_size |-> Field(a, p, i, 1, has_checksum),
         decompressed_offset |-> decomp_off[i - 1],
         decompressed_size |-> Field(a, p, i, 2, has_checksum),
         checksum |-> IF has_checksum THEN Field(a, p, i, 3, has_checksum) ELSE None]]

(* SeekTable::parse: the checks in order, then the entries, whose frames   *)
(* must exactly fill the space before the table.                           *)
CompOff(frames) == Sums([i \in 1..Len(frames) |-> frames[i].compressed_size])
SizesFit(frames, skip_start) == CompOff(frames)[Len(frames)] = skip_start

Parsed(a) ==
  LET end == Len(a)
      num == a[end - 2].n
      has_checksum == a[end - 1].n = 1
      content == num * EntrySize(has_checksum) + FooterSize
      skip_start == end - (SkippableHeader + content)
      frames == Entries(a, skip_start + SkippableHeader, num, has_checksum)
  IN  IF end < SkippableHeader + FooterSize \/ a[end] # SeekableMagic THEN None
      ELSE IF skip_start < 0 THEN None
      ELSE IF a[skip_start + 1] # SkippableMagic \/ a[skip_start + 2].n # content THEN None
      ELSE IF ~SizesFit(frames, skip_start) THEN None
      ELSE frames

Parse ==
  /\ pc = "stored"
  /\ table' = Parsed(archive)
  /\ IF table' = None THEN pc' = "done" /\ result' = Err("seek_table")
     ELSE pc' = "ready" /\ UNCHANGED result
  /\ UNCHANGED <<input, entries, archive, faults, scope>>

(* SeekTable::decompressed_size and frame_for_offset.  partition_point     *)
(* counts the frames that end at or before the offset, which come first.   *)
decompressed_size(t) ==
  IF t = <<>> THEN 0 ELSE Last(t).decompressed_offset + Last(t).decompressed_size

EndsBy_Strict(f, offset) ==  \* mutant: a frame that ends at the offset counts as holding it
  f.decompressed_offset + f.decompressed_size < offset
EndsBy(f, offset) == f.decompressed_offset + f.decompressed_size <= offset
frame_for_offset(t, offset) ==
  LET i == Cardinality({j \in 1..Len(t) : EndsBy(t[j], offset)})
  IN  IF offset >= decompressed_size(t) \/ i >= Len(t) THEN None ELSE i + 1

(* decode_one on the slice [start, end) of archive a, capped at want: the  *)
(* first frame in it; what follows that frame in the slice is not looked   *)
(* at.  Skippable frames decode to nothing.                                *)
decode_one(a, start, end, want) ==
  IF start >= end THEN Err("truncated")
  ELSE LET c == a[start + 1]
       IN  CASE c.k = "skippable_magic" ->
                  IF end - start < SkippableHeader \/ a[start + 2].n > end - start - SkippableHeader
                  THEN Err("truncated") ELSE Ok(<<>>)
             [] c.k = "frame" ->
                  IF Len(c.content) > want THEN Err("output_too_large")
                  ELSE IF c.n > end - start THEN Err("truncated")
                  ELSE Ok(c.content)
             [] OTHER -> Err("bad_magic")

(* The body decompress_seekable_frame and decode_frame_group share: one    *)
(* frame of the table, checked against its entry.                          *)
Verified(f, bytes) ==
  IF Len(bytes) # f.decompressed_size THEN Err("frame_size")
  ELSE IF f.checksum # None /\ f.checksum # xxh64(bytes) THEN Err("checksum")
  ELSE Ok(bytes)

SeekFrame(a, f) ==
  LET end == f.compressed_offset + f.compressed_size
      decoded == decode_one(a, f.compressed_offset, end, f.decompressed_size)
  IN  IF end > Len(a) THEN Err("truncated")
      ELSE IF decoded.ok THEN Verified(f, decoded.bytes) ELSE decoded

decompress_seekable_frame(a, t, index) ==
  IF index \in 1..Len(t) THEN SeekFrame(a, t[index]) ELSE Err("out_of_range")

(* decompress_capped of src/frame.rs: the loop over the frames of a whole   *)
(* stream, each against the budget the earlier ones left.  A frame takes   *)
(* at least a cell, so that the loop ends within Len(a) rounds.            *)
Consumed(a, pos) ==
  IF a[pos + 1].k = "skippable_magic" THEN SkippableHeader + a[pos + 2].n ELSE a[pos + 1].n

OneFrame(a, max_output, s) ==
  LET frame == decode_one(a, s.pos, Len(a), max_output - Len(s.out))
  IN  IF s.err # None \/ s.pos >= Len(a) THEN s
      ELSE IF frame.ok
      THEN [pos |-> s.pos + Consumed(a, s.pos), out |-> s.out \o frame.bytes, err |-> None]
      ELSE [s EXCEPT !.err = frame.err]

decompress_capped(a, max_output) ==
  LET s[i \in 0..Len(a)] == IF i = 0 THEN [pos |-> 0, out |-> <<>>, err |-> None]
                            ELSE OneFrame(a, max_output, s[i - 1])
      end == s[Len(a)]
  IN  IF end.err = None THEN Ok(end.out) ELSE Err(end.err)

-----------------------------------------------------------------------------
(* The parallel decode.                                                    *)

Clamp(n, lo, hi) == IF n < lo THEN lo ELSE IF n > hi THEN hi ELSE n

(* The bounds of the groups: frame after frame, a group is closed once it  *)
(* holds its share of the bytes and enough frames are left for the others. *)
Acc(t) == Sums([i \in 1..Len(t) |-> t[i].decompressed_size])

CloseGroup(t, n, i, b) ==
  LET remaining_groups == n - Len(b) + 1
      frames_left == Len(t) - i
  IN  /\ Len(b) < n
      /\ frames_left >= remaining_groups - 1
      /\ Acc(t)[i] * n >= decompressed_size(t) * Len(b)

Closed(t, n, i, b) == IF CloseGroup(t, n, i, b) THEN Append(b, i) ELSE b
Bounds(t, n) ==
  LET closed[i \in 0..Len(t)] == IF i = 0 THEN <<0>> ELSE Closed(t, n, i, closed[i - 1])
      b == closed[Len(t)]
  IN  b \o [i \in 1..(n + 1 - Len(b)) |-> Len(t)]

(* split_at_mut: where the region of group g starts.                       *)
RegionStart(t, b, g) == Acc(t)[b[g]]

(* The guard before the output is allocated.                               *)
OverCeiling(t, max_output) == decompressed_size(t) > max_output

decompress_seekable_parallel_capped(n_jobs, max_output) ==
  LET total == decompressed_size(table)
      n == Clamp(n_jobs, 1, Clamp(Len(table), 0, MaxJobs))
      b == Bounds(table, n)
  IN  /\ pc = "ready"
      /\ limit' = max_output
      /\ IF OverCeiling(table, max_output)
         THEN /\ pc' = "done" /\ result' = Err("output_too_large")
              /\ UNCHANGED <<jobs, bounds, out, worker, joined>>
         ELSE IF table = <<>>
         THEN /\ pc' = "done" /\ result' = Ok(<<>>)
              /\ UNCHANGED <<jobs, bounds, out, worker, joined>>
         ELSE /\ pc' = "decode" /\ jobs' = n /\ bounds' = b /\ joined' = 0
              /\ out' = [i \in 1..total |-> 0]
              /\ worker' = [g \in 1..n |->
                   [at |-> b[g], off |-> RegionStart(table, b, g), err |-> None]]
              /\ UNCHANGED result
      /\ UNCHANGED <<input, entries, archive, faults, table>>

(* decode_frame_group, one frame: decoded into a buffer of its own, then   *)
(* copied into the region.                                                 *)
Finished(g) == worker[g].err # None \/ worker[g].at = bounds[g + 1]

Advanced_Retries(w, r, f) ==  \* mutant: a frame that fails is tried again
  IF r.ok THEN [at |-> w.at + 1, off |-> w.off + f.decompressed_size, err |-> None] ELSE w
Advanced(w, r, f) ==
  IF r.ok THEN [at |-> w.at + 1, off |-> w.off + f.decompressed_size, err |-> None]
  ELSE [w EXCEPT !.err = r.err]

WorkerFrame(g) ==
  LET f == table[worker[g].at + 1]
      r == SeekFrame(archive, f)
  IN  /\ pc = "decode" /\ ~Finished(g)
      /\ worker' = [worker EXCEPT ![g] = Advanced(@, r, f)]
      /\ out' = IF r.ok THEN [i \in 1..Len(out) |->
                               IF i - worker[g].off \in 1..Len(r.bytes)
                               THEN r.bytes[i - worker[g].off] ELSE out[i]]
                ELSE out
      /\ UNCHANGED <<pc, input, entries, archive, faults, table, jobs, bounds, joined,
                     limit, result>>

(* The join loop, in spawn order.  It stops at the first worker that       *)
(* failed, but the scope ends only when every worker has.                  *)
JoinFailed == joined > 0 /\ worker[joined].err # None

Join ==
  /\ pc = "decode" /\ joined < jobs /\ ~JoinFailed
  /\ Finished(joined + 1)
  /\ joined' = joined + 1
  /\ UNCHANGED <<pc, input, entries, archive, faults, table, jobs, bounds, out, worker,
                 limit, result>>

ScopeResult_LastError ==  \* mutant: the error of the last group that failed
  LET bad == {g \in 1..jobs : worker[g].err # None}
  IN  IF bad = {} THEN Ok(out)
      ELSE Err(worker[CHOOSE g \in bad : \A h \in bad : h <= g].err)
ScopeResult == IF JoinFailed THEN Err(worker[joined].err) ELSE Ok(out)

EndScope ==
  /\ pc = "decode" /\ (joined = jobs \/ JoinFailed)
  /\ \A g \in 1..jobs : Finished(g)
  /\ pc' = "done"
  /\ result' = ScopeResult
  /\ UNCHANGED <<input, entries, archive, faults, table, scope>>

-----------------------------------------------------------------------------
Init ==
  /\ pc = "write" /\ entries = <<>> /\ archive = <<>> /\ table = None
  /\ data \in Datas /\ size \in FrameSizes /\ checksum \in BOOLEAN
  /\ faults = [n |-> 0, late |-> FALSE]
  /\ jobs = 0 /\ bounds = <<>> /\ out = <<>> /\ worker = <<>> /\ joined = 0 /\ limit = 0
  /\ result = Ok(<<>>)

Main ==
  \/ WriteTable \/ Parse \/ Join \/ EndScope
  \/ \E len \in FrameLens : WriteChunk(len)
  \/ \E n \in JobCounts, max \in Ceilings : decompress_seekable_parallel_capped(n, max)

Next ==
  \/ Main \/ DamageArchive
  \/ \E g \in 1..jobs : WorkerFrame(g)
  \/ pc = "done" /\ UNCHANGED vars

(* The caller runs its calls to their end, and the scheduler runs every    *)
(* thread that is not finished.                                            *)
Fairness ==
  /\ WF_vars(Main)
  /\ \A g \in 1..MaxJobs : WF_vars(g \in 1..jobs /\ WorkerFrame(g))

Spec == Init /\ [][Next]_vars /\ Fairness

-----------------------------------------------------------------------------
(* Properties.                                                             *)

Intact == faults.n = 0

(* An archive as written reads back: the parser accepts its table, the     *)
(* frame of each entry decodes to its chunk, and a decoder that knows      *)
(* nothing of seek tables, decompress, yields the same bytes.  Its frames  *)
(* are split so that no worker is left without one.                        *)
NoIdleWorker ==
  pc = "decode" /\ Intact =>
    \A g \in 1..jobs : bounds[g] < bounds[g + 1]

RoundTrip ==
  /\ NoIdleWorker
  /\ pc = "stored" /\ Intact =>
       /\ Parsed(archive) # None
       /\ decompress_capped(archive, Len(data)) = Ok(data)
  /\ pc = "ready" /\ Intact =>
       FlattenSeq([i \in 1..Len(table) |->
         decompress_seekable_frame(archive, table, i).bytes]) = data

(* Random access: for every table the parser accepts, damaged ones         *)
(* included, frame_for_offset finds the frame whose output holds the       *)
(* offset, past empty frames, and finds none exactly from the end on.      *)
OffsetFound ==
  table # None =>
    \A offset \in 0..(decompressed_size(table) + 1) :
      LET i == frame_for_offset(table, offset)
      IN  IF offset >= decompressed_size(table) THEN i = None
          ELSE /\ i # None
               /\ table[i].decompressed_offset <= offset
               /\ offset < table[i].decompressed_offset + table[i].decompressed_size

(* The frames of an accepted table tile the archive in front of the table, *)
(* so while the archive is the one that was parsed no read of a frame      *)
(* leaves it: frame and table bytes never mix.                             *)
FramesTile ==
  table # None /\ pc = "ready" /\ ~faults.late =>
    \A i \in 1..Len(table) :
      LET f == table[i]
          next == f.compressed_offset + f.compressed_size
      IN  IF i < Len(table) THEN table[i + 1].compressed_offset = next
          ELSE archive[next + 1] = SkippableMagic

(* What an index into the table relies on: the frames tile the archive and *)
(* every offset of the output finds its frame.                             *)
RandomAccess == FramesTile /\ OffsetFound

(* The serial reference: the frames one after the other, up to the first   *)
(* one that fails.                                                         *)
Serial(a, t) ==
  LET r == [i \in 1..Len(t) |-> decompress_seekable_frame(a, t, i)]
      bad == {i \in 1..Len(t) : ~r[i].ok}
  IN  IF bad = {} THEN Ok(FlattenSeq([i \in 1..Len(t) |-> r[i].bytes]))
      ELSE r[CHOOSE i \in bad : \A j \in bad : i <= j]

(* Whatever the schedule of the workers, and whatever the damage, the      *)
(* parallel decode returns what decoding frame by frame would: the same    *)
(* bytes, or the error of the first frame that fails; an output over the   *)
(* ceiling is refused.                                                     *)
ParallelMatchesSerial ==
  pc = "done" /\ table # None =>
    result = IF decompressed_size(table) > limit THEN Err("output_too_large")
             ELSE Serial(archive, table)

(* A decode that succeeds yields as many bytes as the table promised, and  *)
(* the bytes of every frame are where the table says they are, so an index *)
(* into the table stays valid for the whole output.                        *)
OutputAsIndexed ==
  pc = "done" /\ table # None /\ result.ok =>
    /\ Len(result.bytes) = decompressed_size(table)
    /\ \A i \in 1..Len(table) :
         LET f == table[i]
             c == archive[f.compressed_offset + 1].content
         IN  SubSeq(result.bytes, f.decompressed_offset + 1,
                    f.decompressed_offset + f.decompressed_size) = c

(* A worker stays inside its group, and its region inside an output that   *)
(* was allocated under the ceiling.                                        *)
WorkersInside ==
  pc = "decode" =>
    /\ joined <= jobs
    /\ \A g \in 1..jobs :
         /\ worker[g].at \in bounds[g]..bounds[g + 1]
         /\ worker[g].off = RegionStart(table, [bounds EXCEPT ![g] = worker[g].at], g)
    /\ Len(out) = decompressed_size(table) /\ Len(out) <= limit

(* The parallel decode is the serial one, split among the workers.         *)
ParallelDecode == WorkersInside /\ ParallelMatchesSerial /\ OutputAsIndexed

(* The call returns: the join loop and the scope come to an end, also when *)
(* some workers fail.                                                      *)
ScopeEnds == pc = "decode" ~> pc = "done"
=============================================================================

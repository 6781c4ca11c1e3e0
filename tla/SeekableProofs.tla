--------------------------- MODULE SeekableProofs ---------------------------
(***************************************************************************)
(* The seekable format for every input, frame size, damage to the archive, *)
(* number of threads and ceiling: an accepted table can be indexed, the    *)
(* parallel decode returns what the serial one would, and an archive that  *)
(* was not damaged reads back, range by range and as a whole.              *)
(***************************************************************************)
EXTENDS Seekable, DataLemmas, FiniteSetTheorems

(* A cell holds bytes only if a frame starts there.                        *)
Kinds == {"frame", "body", "word", "skippable_magic", "seekable_magic"}
Cells == {c \in [k : Kinds, n : Nat, content : Seq(Byte)] : c.k # "frame" => c.content = <<>>}
EntryRecords == [cs : Nat, ds : Nat, ck : Nat]
WorkerRecords == [at : Nat, off : Nat, err : Errors \cup {None}]

-----------------------------------------------------------------------------
(* Recursive definitions.                                                  *)

(* Sums(s) adds the numbers of s up one by one.                            *)
LEMMA SumsAre ==
  ASSUME NEW s, Len(s) \in Nat, \A i \in 1..Len(s) : s[i] \in Nat
  PROVE  /\ Sums(s) \in [0..Len(s) -> Nat] /\ Sums(s)[0] = 0
         /\ \A i \in 1..Len(s) : Sums(s)[i] = Sums(s)[i - 1] + s[i]
<1> DEFINE N == Len(s)
           step == [p \in (1..N) \X Nat |-> p[2] + s[p[1]]]
           Sum(f) == [i \in 0..N |-> IF i = 0 THEN 0 ELSE f[i - 1] + s[i]]
<1>1. step \in [(1..N) \X Nat -> Nat]
  OBVIOUS
<1>2. PICK f \in [0..N -> Nat] : Iterates(f, N, 0, step)
  <2> HIDE DEF N, step
  <2>1. N \in Nat /\ 0 \in Nat
    BY DEF N
  <2> QED BY <1>1, <2>1, Recursion, Zenon
<1>3. f[0] = 0 /\ \A i \in 1..N : f[i] = f[i - 1] + s[i]
  <2>1. ASSUME NEW i \in 1..N
        PROVE  f[i] = f[i - 1] + s[i]
    <3>0. i - 1 \in 0..N
      OBVIOUS
    <3>1. f[i - 1] \in Nat
      BY <1>2, <3>0
    <3>2. <<i, f[i - 1]>> \in (1..N) \X Nat
      BY <3>1
    <3>3. step[<<i, f[i - 1]>>] = f[i - 1] + s[i]
      BY <3>2
    <3> QED BY <1>2, <3>3 DEF Iterates
  <2> QED BY <1>2, <2>1 DEF Iterates
<1>4. f = Sum(f)
  <2>1. \A i \in 0..N : f[i] = IF i = 0 THEN 0 ELSE f[i - 1] + s[i]
    BY <1>2, <1>3
  <2> QED BY <1>2, <2>1
<1>5. Sums(s) = CHOOSE g : g = Sum(g)
  BY Zenon DEF Sums
<1>6. Sums(s) = Sum(Sums(s))
  BY <1>4, <1>5, Zenon
<1>7. Sums(s)[0] = 0 /\ \A i \in 1..N : Sums(s)[i] = Sums(s)[i - 1] + s[i]
  <2> HIDE DEF N
  <2>1. N \in Nat
    BY DEF N
  <2>2. \A i \in 0..N : Sums(s)[i] = IF i = 0 THEN 0 ELSE Sums(s)[i - 1] + s[i]
    BY <1>6, Zenon
  <2> QED BY <2>1, <2>2
<1>8. \A i \in 0..N : f[i] = Sums(s)[i]
  <2> HIDE DEF N
  <2>1. N \in Nat
    BY DEF N
  <2> DEFINE S == {i \in 0..N : f[i] = Sums(s)[i]}
  <2>2. 0 \in S /\ \A i \in 1..N : i - 1 \in S => i \in S
    BY <1>2, <1>3, <1>7, <2>1
  <2>3. 0..N \subseteq S
    <3> HIDE DEF S
    <3> QED BY <2>1, <2>2, UpTo, Zenon
  <2> QED BY <2>3, Zenon
<1>9. Sums(s) \in [0..N -> Nat]
  <2>1. DOMAIN Sums(s) = 0..N
    BY <1>6, Zenon
  <2>2. \A i \in 0..N : Sums(s)[i] \in Nat
    BY <1>2, <1>8
  <2> QED BY <1>6, <2>1, <2>2
<1> QED BY <1>7, <1>9

(* The digest of a chunk is a number.                                      *)
LEMMA DigestIsNat ==
  ASSUME NEW bytes \in Seq(Byte)
  PROVE  xxh64(bytes) \in Nat
<1> DEFINE N == Len(bytes)
           M == MaxU32 + 1
           step == [p \in (1..N) \X Nat |-> (p[2] * 3 + bytes[p[1]]) % M]
           Hash(f) == [i \in 0..N |-> IF i = 0 THEN 1 ELSE (f[i - 1] * 3 + bytes[i]) % M]
<1>1. M \in Nat \ {0} /\ N \in Nat /\ \A i \in 1..N : bytes[i] \in Nat
  <2>1. MaxU32 \in Nat /\ N \in Nat
    BY SeekAssumption
  <2>2. \A i \in 1..N : bytes[i] \in Byte
    <3> HIDE DEF Byte
    <3> QED BY ElementOfSeq
  <2> HIDE DEF N
  <2>3. MaxU32 + 1 \in Nat \ {0}
    BY <2>1
  <2>4. \A x \in Byte : x \in Nat
    BY DEF Byte
  <2> QED BY <2>1, <2>2, <2>3, <2>4, Zenon
<1>2. step \in [(1..N) \X Nat -> Nat]
  <2> HIDE DEF M
  <2>1. ASSUME NEW p \in (1..N) \X Nat
        PROVE  (p[2] * 3 + bytes[p[1]]) % M \in Nat
    <3> DEFINE a == p[2] * 3 + bytes[p[1]]
    <3>1. a \in Nat
      BY <1>1
    <3> HIDE DEF a
    <3>2. a % M \in 0..M - 1
      BY <1>1, <3>1, DivMod, Zenon
    <3>3. a % M \in Nat
      BY <1>1, <3>2
    <3> QED BY <3>3 DEF a
  <2> QED BY <2>1
<1>3. PICK f \in [0..N -> Nat] : Iterates(f, N, 1, step)
  <2> HIDE DEF N, step
  <2>1. N \in Nat /\ 1 \in Nat
    BY <1>1
  <2> QED BY <1>2, <2>1, Recursion, Zenon
<1>4. f = Hash(f)
  <2> HIDE DEF M
  <2>1. ASSUME NEW i \in 1..N
        PROVE  f[i] = (f[i - 1] * 3 + bytes[i]) % M
    <3>0. i - 1 \in 0..N
      BY <1>1
    <3>1. <<i, f[i - 1]>> \in (1..N) \X Nat
      BY <1>3, <3>0
    <3>2. step[<<i, f[i - 1]>>] = (f[i - 1] * 3 + bytes[i]) % M
      BY <3>1
    <3> QED BY <1>3, <3>2 DEF Iterates
  <2>2. \A i \in 0..N : f[i] = IF i = 0 THEN 1 ELSE (f[i - 1] * 3 + bytes[i]) % M
    BY <1>3, <2>1 DEF Iterates
  <2> QED BY <1>3, <2>2
<1> DEFINE h == CHOOSE g : g = Hash(g)
<1>5. xxh64(bytes) = h[N]
  BY Zenon DEF xxh64
<1>6. h = Hash(h)
  BY <1>4, Zenon
<1> HIDE DEF h
<1>7. /\ h[0] = 1 /\ N \in 0..N
      /\ \A i \in 1..N : h[i] = (h[i - 1] * 3 + bytes[i]) % M
      /\ \A i \in 1..N : f[i] = (f[i - 1] * 3 + bytes[i]) % M
  <2> HIDE DEF M, N
  <2> DEFINE G(g, i) == IF i = 0 THEN 1 ELSE (g[i - 1] * 3 + bytes[i]) % M
  <2>1. (\A i \in 0..N : h[i] = G(h, i)) /\ (\A i \in 0..N : f[i] = G(f, i))
    BY <1>4, <1>6, Zenon
  <2>2. 0 \in 0..N /\ N \in 0..N /\ \A i \in 1..N : i \in 0..N /\ i # 0
    BY <1>1
  <2> QED BY <2>1, <2>2, Zenon
<1>8. \A i \in 0..N : f[i] = h[i]
  <2> HIDE DEF M, N
  <2>1. \A i \in 1..N : f[i - 1] = h[i - 1] => f[i] = h[i]
    BY <1>7, Zenon
  <2>2. f[0] = h[0]
    BY <1>3, <1>7 DEF Iterates
  <2> DEFINE S == {i \in 0..N : f[i] = h[i]}
  <2>3. 0 \in S /\ \A i \in 1..N : i - 1 \in S => i \in S
    <3>1. 0 \in 0..N /\ \A i \in 1..N : i \in 0..N
      BY <1>1
    <3> QED BY <2>1, <2>2, <3>1, Zenon
  <2>4. 0..N \subseteq S
    <3> HIDE DEF S
    <3> QED BY <1>1, <2>3, UpTo, Zenon
  <2> QED BY <2>4, Zenon
<1> QED BY <1>3, <1>5, <1>7, <1>8

-----------------------------------------------------------------------------
(* One frame.                                                              *)

(* The constants are what they are in the code.                            *)
LEMMA Constants ==
  /\ MaxU32 \in Nat /\ MaxJobs \in Nat \ {0}
  /\ Datas \subseteq Seq(Byte) /\ FrameSizes \subseteq Nat /\ FrameLens \subseteq Nat \ {0}
  /\ JobCounts \subseteq Nat /\ Ceilings \subseteq Nat /\ Damage \subseteq Nat
  /\ None \notin Errors /\ None \notin Nat /\ None \notin Seq(FrameRecords)
BY SeekAssumption, Zenon

(* A byte is a number, and 0 is one.                                       *)
LEMMA Bytes == Byte \subseteq Nat /\ 0 \in Byte
BY DEF Byte

(* Reading a frame fails with an error, or yields what the archive holds   *)
(* at the frame's offset, as long as the table says.                       *)
Fails(r) == \E e \in Errors : r = Err(e)
Yields(r, a, f) ==
  /\ r = Ok(r.bytes) /\ r.ok = TRUE /\ r.bytes \in Seq(Byte)
  /\ Len(r.bytes) = f.decompressed_size
  /\ f.compressed_offset + 1 \in 1..Len(a)
  /\ r.bytes = a[f.compressed_offset + 1].content

LEMMA OkIs == ASSUME NEW b PROVE Ok(b).ok = TRUE /\ Ok(b).bytes = b /\ Ok(b) = Ok(Ok(b).bytes)
BY DEF Ok

LEMMA ErrIs == ASSUME NEW e \in Errors PROVE Err(e).ok = FALSE /\ Err(e).err = e /\ Fails(Err(e))
BY DEF Err, Fails

LEMMA DecodeOne ==
  ASSUME NEW a \in Seq(Cells), NEW start \in Nat, NEW end \in Nat, end <= Len(a),
         NEW want
  PROVE  \/ Fails(decode_one(a, start, end, want))
         \/ /\ start + 1 \in 1..Len(a)
            /\ decode_one(a, start, end, want) = Ok(a[start + 1].content)
<1> DEFINE d == decode_one(a, start, end, want)
<1> HIDE DEF d
<1> SUFFICES Fails(d) \/ (start + 1 \in 1..Len(a) /\ d = Ok(a[start + 1].content))
  BY Zenon DEF d
<1>1. "truncated" \in Errors /\ "output_too_large" \in Errors /\ "bad_magic" \in Errors
  BY DEF Errors
<1>2. CASE start >= end
  BY <1>1, <1>2, ErrIs DEF decode_one, d
<1>3. CASE ~(start >= end)
  <2>1. start + 1 \in 1..Len(a)
    BY <1>3
  <2>2. a[start + 1] \in Cells
    BY <2>1, ElementOfSeq, Zenon
  <2> DEFINE c == a[start + 1]
             short == \/ end - start < SkippableHeader
                      \/ a[start + 2].n > end - start - SkippableHeader
  <2>3. c.k # "frame" => c.content = <<>>
    BY <2>2, Zenon DEF Cells
  <2>4. d = CASE c.k = "skippable_magic" -> IF short THEN Err("truncated") ELSE Ok(<<>>)
              [] c.k = "frame" -> IF Len(c.content) > want THEN Err("output_too_large")
                                  ELSE IF c.n > end - start THEN Err("truncated")
                                  ELSE Ok(c.content)
              [] OTHER -> Err("bad_magic")
    BY <1>3, Zenon DEF decode_one, d
  <2> HIDE DEF c, short
  <2>5. CASE c.k = "skippable_magic"
    <3>1. d = IF short THEN Err("truncated") ELSE Ok(<<>>)
      BY <2>4, <2>5
    <3>2. c.content = <<>>
      BY <2>3, <2>5
    <3> QED BY <1>1, <2>1, <3>1, <3>2, ErrIs, Zenon DEF c
  <2>6. CASE c.k = "frame"
    <3>1. d = IF Len(c.content) > want THEN Err("output_too_large")
              ELSE IF c.n > end - start THEN Err("truncated") ELSE Ok(c.content)
      BY <2>4, <2>6
    <3> QED BY <1>1, <2>1, <3>1, ErrIs, Zenon DEF c
  <2>7. CASE c.k # "skippable_magic" /\ c.k # "frame"
    <3>1. d = Err("bad_magic")
      BY <2>4, <2>7
    <3> QED BY <1>1, <3>1, ErrIs, Zenon
  <2> QED BY <2>5, <2>6, <2>7, Zenon
<1> QED BY <1>2, <1>3, Zenon

LEMMA SeekFrameIs ==
  ASSUME NEW a \in Seq(Cells), NEW f \in FrameRecords, NEW r, r = SeekFrame(a, f)
  PROVE  Fails(r) \/ Yields(r, a, f)
<1>1. f.compressed_offset \in Nat /\ f.compressed_size \in Nat
  BY DEF FrameRecords
<1> DEFINE start == f.compressed_offset
           end == f.compressed_offset + f.compressed_size
           d == decode_one(a, start, end, f.decompressed_size)
<1>2. end \in Nat /\ start \in Nat /\ Len(a) \in Nat
  BY <1>1
<1>3. r = IF end > Len(a) THEN Err("truncated") ELSE IF d.ok THEN Verified(f, d.bytes) ELSE d
  BY Zenon DEF SeekFrame
<1>4. "truncated" \in Errors /\ "frame_size" \in Errors /\ "checksum" \in Errors
  BY DEF Errors
<1> HIDE DEF d, end, start
<1>5. CASE end > Len(a)
  BY <1>3, <1>4, <1>5, ErrIs, Zenon
<1>6. CASE ~(end > Len(a))
  <2>1. end <= Len(a)
    BY <1>2, <1>6
  <2>2. Fails(d) \/ (start + 1 \in 1..Len(a) /\ d = Ok(a[start + 1].content))
    BY <1>2, <2>1, DecodeOne, Zenon DEF d
  <2>3. r = IF d.ok THEN Verified(f, d.bytes) ELSE d
    BY <1>3, <1>6, Zenon
  <2>4. CASE Fails(d)
    <3>1. d.ok = FALSE
      BY <2>4, ErrIs, Zenon DEF Fails
    <3> QED BY <2>3, <2>4, <3>1, Zenon
  <2>5. CASE start + 1 \in 1..Len(a) /\ d = Ok(a[start + 1].content)
    <3> DEFINE c == a[start + 1].content
    <3>1. c \in Seq(Byte)
      <4>1. a[start + 1] \in Cells
        BY <2>5, ElementOfSeq, Zenon
      <4> HIDE DEF Byte
      <4> QED BY <4>1 DEF Cells
    <3>2. d.ok = TRUE /\ d.bytes = c
      BY <2>5, OkIs, Zenon
    <3>3. r = Verified(f, c)
      BY <2>3, <3>2, Zenon
    <3> HIDE DEF c
    <3>4. CASE Len(c) # f.decompressed_size
      BY <1>4, <3>3, <3>4, ErrIs, Zenon DEF Verified
    <3>5. CASE Len(c) = f.decompressed_size /\ r = Err("checksum")
      BY <1>4, <3>5, ErrIs, Zenon
    <3>6. CASE Len(c) = f.decompressed_size /\ r # Err("checksum")
      <4>1. r = Ok(c)
        BY <3>3, <3>6, Zenon DEF Verified
      <4> QED BY <2>5, <3>1, <3>6, <4>1, OkIs, Zenon DEF Yields, c, start
    <3> QED BY <3>4, <3>5, <3>6, Zenon
  <2> QED BY <2>2, <2>4, <2>5, Zenon
<1> QED BY <1>5, <1>6, Zenon

-----------------------------------------------------------------------------
(* The table.                                                              *)

(* The offsets of an accepted table are the sums of its sizes.             *)
Indexed(t) ==
  /\ t \in Seq(FrameRecords)
  /\ \A i \in 1..Len(t) : /\ t[i].compressed_offset = CompOff(t)[i - 1]
                          /\ t[i].decompressed_offset = Acc(t)[i - 1]

(* Where the output of the frames, and the frames themselves, begin and    *)
(* end.                                                                    *)
LEMMA AccFacts ==
  ASSUME NEW t, Indexed(t)
  PROVE  /\ Len(t) \in Nat /\ Acc(t) \in [0..Len(t) -> Nat] /\ Acc(t)[0] = 0
         /\ \A i \in 1..Len(t) : /\ t[i] \in FrameRecords
                                 /\ t[i].decompressed_size \in Nat
                                 /\ t[i].decompressed_offset = Acc(t)[i - 1]
                                 /\ Acc(t)[i] = Acc(t)[i - 1] + t[i].decompressed_size
         /\ decompressed_size(t) = Acc(t)[Len(t)] /\ decompressed_size(t) \in Nat
<1> DEFINE N == Len(t)
           s == [i \in 1..N |-> t[i].decompressed_size]
<1>1. /\ N \in Nat /\ t \in Seq(FrameRecords)
      /\ \A i \in 1..N : /\ t[i] \in FrameRecords /\ t[i].decompressed_size \in Nat
                         /\ t[i].decompressed_offset = Acc(t)[i - 1]
  <2>1. t \in Seq(FrameRecords) /\ \A i \in 1..N : t[i].decompressed_offset = Acc(t)[i - 1]
    BY Zenon DEF Indexed
  <2>2. N \in Nat /\ \A i \in 1..N : t[i] \in FrameRecords
    BY <2>1, ElementOfSeq
  <2>3. \A f \in FrameRecords : f.decompressed_size \in Nat
    BY DEF FrameRecords
  <2> HIDE DEF N
  <2> QED BY <2>1, <2>2, <2>3, Zenon
<1>2. Len(s) = N /\ \A i \in 1..Len(s) : s[i] \in Nat /\ s[i] = t[i].decompressed_size
  <2> HIDE DEF N
  <2> QED BY <1>1
<1> HIDE DEF N
<1>3. /\ Acc(t) \in [0..N -> Nat] /\ Acc(t)[0] = 0
      /\ \A i \in 1..N : Acc(t)[i] = Acc(t)[i - 1] + t[i].decompressed_size
  <2>1. Acc(t) = Sums(s)
    BY Zenon DEF Acc, N
  <2> HIDE DEF s
  <2>2. /\ Sums(s) \in [0..Len(s) -> Nat] /\ Sums(s)[0] = 0
        /\ \A i \in 1..Len(s) : Sums(s)[i] = Sums(s)[i - 1] + s[i]
    BY <1>1, <1>2, SumsAre
  <2> QED BY <1>2, <2>1, <2>2, Zenon
<1>4. decompressed_size(t) = Acc(t)[N]
  <2>1. CASE t = <<>>
    <3>1. N = 0
      BY <2>1 DEF N
    <3> QED BY <1>3, <2>1, <3>1, Zenon DEF decompressed_size
  <2>2. CASE t # <<>>
    <3>1. N # 0
      BY <1>1, <2>2, EmptySeq DEF N
    <3>2. N \in 1..N
      BY <1>1, <3>1
    <3>3. decompressed_size(t) = t[N].decompressed_offset + t[N].decompressed_size
      BY <2>2, Zenon DEF decompressed_size, Last, N
    <3> QED BY <1>1, <1>3, <3>2, <3>3, Zenon
  <2> QED BY <2>1, <2>2, Zenon
<1>5. Acc(t)[N] \in Nat
  <2>1. N \in 0..N
    BY <1>1
  <2> QED BY <1>3, <2>1
<1> QED BY <1>1, <1>3, <1>4, <1>5, Zenon DEF N

LEMMA AccGrows ==
  ASSUME NEW t, Indexed(t), NEW i \in 0..Len(t), NEW j \in 0..Len(t), i <= j
  PROVE  Acc(t)[i] <= Acc(t)[j] /\ Acc(t)[i] \in Nat /\ Acc(t)[j] \in Nat
<1> DEFINE S == {n \in 0..Len(t) : i <= n => Acc(t)[i] <= Acc(t)[n]}
<1>1. /\ Len(t) \in Nat /\ Acc(t) \in [0..Len(t) -> Nat]
      /\ \A n \in 1..Len(t) : Acc(t)[n] = Acc(t)[n - 1] + t[n].decompressed_size
      /\ \A n \in 1..Len(t) : t[n].decompressed_size \in Nat
  BY AccFacts
<1>2. 0 \in S
  BY <1>1
<1>3. ASSUME NEW n \in 1..Len(t), n - 1 \in S
      PROVE  n \in S
  <2>1. Acc(t)[i] \in Nat /\ Acc(t)[n - 1] \in Nat /\ Acc(t)[n] \in Nat
    <3>1. n \in 0..Len(t) /\ n - 1 \in 0..Len(t)
      BY <1>1
    <3> QED BY <1>1, <3>1, Zenon
  <2>2. Acc(t)[n - 1] <= Acc(t)[n]
    <3> DEFINE x == Acc(t)[n - 1]
               d == t[n].decompressed_size
    <3>1. x \in Nat /\ d \in Nat /\ Acc(t)[n] = x + d
      BY <1>1, <2>1, Zenon
    <3>2. x <= x + d
      <4> HIDE DEF x, d
      <4> QED BY <3>1
    <3> QED BY <3>1, <3>2, Zenon
  <2>3. CASE i = n
    BY <2>1, <2>3
  <2>4. CASE i # n
    <3>1. i <= n => i <= n - 1
      BY <2>4
    <3> QED BY <1>3, <2>1, <2>2, <3>1
  <2> QED BY <2>3, <2>4
<1>4. 0..Len(t) \subseteq S
  <2> HIDE DEF S
  <2> QED BY <1>1, <1>2, <1>3, UpTo, Zenon
<1> QED BY <1>1, <1>4

LEMMA CompFacts ==
  ASSUME NEW t, Indexed(t)
  PROVE  /\ CompOff(t) \in [0..Len(t) -> Nat]
         /\ \A i \in 1..Len(t) : /\ t[i].compressed_offset = CompOff(t)[i - 1]
                                 /\ CompOff(t)[i] = CompOff(t)[i - 1] + t[i].compressed_size
<1> DEFINE N == Len(t)
           s == [i \in 1..N |-> t[i].compressed_size]
<1>1. /\ N \in Nat
      /\ \A i \in 1..N : /\ t[i].compressed_size \in Nat
                         /\ t[i].compressed_offset = CompOff(t)[i - 1]
  <2>1. N \in Nat /\ \A i \in 1..N : t[i] \in FrameRecords
    BY AccFacts
  <2>2. \A f \in FrameRecords : f.compressed_size \in Nat
    BY DEF FrameRecords
  <2> HIDE DEF N
  <2> QED BY <2>1, <2>2, Zenon DEF Indexed, N
<1>2. Len(s) = N /\ \A i \in 1..Len(s) : s[i] \in Nat /\ s[i] = t[i].compressed_size
  <2> HIDE DEF N
  <2> QED BY <1>1
<1> HIDE DEF N
<1>3. CompOff(t) = Sums(s)
  BY Zenon DEF CompOff, N
<1> HIDE DEF s
<1>4. /\ Sums(s) \in [0..Len(s) -> Nat] /\ Sums(s)[0] = 0
      /\ \A i \in 1..Len(s) : Sums(s)[i] = Sums(s)[i - 1] + s[i]
  BY <1>1, <1>2, SumsAre
<1> QED BY <1>1, <1>2, <1>3, <1>4, Zenon DEF N

(* frame_for_offset: the frames that end at or before the offset come      *)
(* first, so that the next one is found by counting them.                  *)
LEMMA OffsetHasFrame ==
  ASSUME NEW t, Indexed(t), NEW offset \in Nat
  PROVE  LET i == frame_for_offset(t, offset)
         IN  IF offset >= decompressed_size(t) THEN i = None
             ELSE /\ i \in 1..Len(t)
                  /\ t[i].decompressed_offset <= offset
                  /\ offset < t[i].decompressed_offset + t[i].decompressed_size
<1> DEFINE N == Len(t)
           A == Acc(t)
           J == {j \in 1..N : EndsBy(t[j], offset)}
           i == Cardinality(J)
           found == frame_for_offset(t, offset)
           total == decompressed_size(t)
<1>1. /\ N \in Nat /\ A[0] = 0 /\ total = A[N] /\ total \in Nat
      /\ \A j \in 1..N : /\ t[j].decompressed_offset = A[j - 1]
                         /\ A[j] = A[j - 1] + t[j].decompressed_size
  BY AccFacts
<1>2. \A j \in 0..N : A[j] \in Nat
  <2>1. A \in [0..N -> Nat]
    BY AccFacts
  <2> QED BY <2>1
<1>3. \A j \in 0..N, k \in 0..N : j <= k => A[j] <= A[k]
  BY AccGrows
<1>4. found = IF offset >= total \/ i >= N THEN None ELSE i + 1
  BY Zenon DEF frame_for_offset
<1> HIDE DEF N, A, found, total
<1>5. CASE offset >= total
  BY <1>4, <1>5, Zenon DEF found, total
<1>6. CASE ~(offset >= total)
  <2> DEFINE T == {j \in 1..N : A[j] > offset}
  <2>1. N \in T
    <3>1. A[N] > offset
      BY <1>1, <1>6
    <3>2. N # 0
      BY <1>1, <3>1
    <3> QED BY <1>1, <3>1, <3>2
  <2>2. T \subseteq Nat /\ T # {}
    BY <2>1
  <2>3. \E x \in T : \A y \in T : x <= y
    <3> HIDE DEF T
    <3> QED BY <2>2, NatMin, Zenon
  <2>4. PICK x \in T : \A y \in T : x <= y
    BY <2>3
  <2>5. x \in 1..N /\ A[x] > offset /\ x - 1 \in 0..N /\ x \in 0..N
    BY <1>1
  <2>6. ASSUME NEW j \in 1..N
        PROVE  EndsBy(t[j], offset) <=> j <= x - 1
    <3>1. EndsBy(t[j], offset) <=> A[j] <= offset
      BY <1>1 DEF EndsBy
    <3>2. j \in 0..N /\ A[j] \in Nat /\ A[x] \in Nat
      BY <1>1, <1>2, <2>5
    <3>3. CASE x <= j
      <4>1. A[x] <= A[j]
        BY <1>3, <2>5, <3>2, <3>3
      <4>2. ~(A[j] <= offset) /\ ~(j <= x - 1)
        BY <2>5, <3>2, <3>3, <4>1
      <4> QED BY <3>1, <4>2
    <3>4. CASE ~(x <= j)
      <4>1. j \notin T
        <5> HIDE DEF T
        <5> QED BY <2>4, <3>4, Zenon
      <4>2. A[j] <= offset
        BY <3>2, <4>1
      <4>3. j <= x - 1
        BY <2>5, <3>4
      <4> QED BY <3>1, <4>2, <4>3
    <3> QED BY <3>3, <3>4
  <2>7. J = 1..(x - 1)
    <3>1. \A j : j \in 1..(x - 1) <=> j \in 1..N /\ j <= x - 1
      BY <1>1, <2>5
    <3> QED BY <2>6, <3>1, Zenon
  <2>8. i = x - 1
    <3>1. 1 \in Int /\ x - 1 \in Int
      BY <2>5
    <3>2. Cardinality(1..(x - 1)) = IF 1 > x - 1 THEN 0 ELSE (x - 1) - 1 + 1
      BY <3>1, FS_Interval, Zenon
    <3>3. Cardinality(1..(x - 1)) = x - 1
      BY <2>5, <3>2
    <3> QED BY <2>7, <3>3, Zenon
  <2> HIDE DEF i, T
  <2>9. found = x
    BY <1>1, <1>4, <1>6, <2>5, <2>8
  <2>10. A[x - 1] <= offset
    <3>1. CASE x = 1
      <4>1. x - 1 = 0
        BY <3>1
      <4> QED BY <1>1, <4>1
    <3>2. CASE x # 1
      <4>1. x - 1 \in 1..N /\ x - 1 <= x - 1
        BY <1>1, <2>5, <3>2
      <4>2. EndsBy(t[x - 1], offset)
        BY <2>6, <4>1, Zenon
      <4> QED BY <1>1, <4>1, <4>2 DEF EndsBy
    <3> QED BY <3>1, <3>2
  <2>11. /\ t[x].decompressed_offset = A[x - 1]
         /\ t[x].decompressed_offset + t[x].decompressed_size = A[x]
    BY <1>1, <2>5
  <2>12. A[x] > offset <=> offset < A[x]
    BY <1>2, <2>5
  <2> QED BY <1>6, <2>5, <2>9, <2>10, <2>11, <2>12, Zenon DEF found, total, N
<1> QED BY <1>5, <1>6, Zenon

(* The entries of a table that lies within the archive are frames at the   *)
(* offsets their sizes add up to.                                          *)
LEMMA EntriesIndexed ==
  ASSUME NEW a \in Seq(Cells), NEW p \in Nat, NEW num \in Nat, NEW ck \in BOOLEAN,
         p + num * EntrySize(ck) <= Len(a)
  PROVE  Indexed(Entries(a, p, num, ck)) /\ Len(Entries(a, p, num, ck)) = num
<1> DEFINE e == Entries(a, p, num, ck)
           F(i, k) == Field(a, p, i, k, ck)
           comp == Before(a, p, num, 1, ck)
           decomp == Before(a, p, num, 2, ck)
           s1 == [i \in 1..num |-> F(i, 1)]
           s2 == [i \in 1..num |-> F(i, 2)]
           sum(i) == IF ck THEN F(i, 3) ELSE None
           G(i) == [compressed_offset |-> comp[i - 1], compressed_size |-> F(i, 1),
                    decompressed_offset |-> decomp[i - 1], decompressed_size |-> F(i, 2),
                    checksum |-> sum(i)]
<1>1. ASSUME NEW i \in 1..num, NEW k \in 1..EntrySize(ck)
      PROVE  F(i, k) \in Nat
  <2> DEFINE n == p + (i - 1) * EntrySize(ck) + k
  <2>1. n \in 1..Len(a)
    <3>1. CASE ck
      <4>1. EntrySize(ck) = 3
        BY <3>1 DEF EntrySize
      <4> QED BY <4>1
    <3>2. CASE ~ck
      <4>1. EntrySize(ck) = 2
        BY <3>2 DEF EntrySize
      <4> QED BY <4>1
    <3> QED BY <3>1, <3>2
  <2>2. a[n] \in Cells
    <3> HIDE DEF n
    <3> QED BY <2>1, ElementOfSeq, Zenon
  <2>3. a[n].n \in Nat
    BY <2>2 DEF Cells
  <2> QED BY <2>3, Zenon DEF Field
<1>2. \A i \in 1..num : F(i, 1) \in Nat /\ F(i, 2) \in Nat /\ sum(i) \in Nat \cup {None}
  <2>1. 1 \in 1..EntrySize(ck) /\ 2 \in 1..EntrySize(ck) /\ (ck => 3 \in 1..EntrySize(ck))
    BY DEF EntrySize
  <2> HIDE DEF F
  <2> QED BY <1>1, <2>1
<1> HIDE DEF F
<1>3. /\ Len(s1) = num /\ (\A i \in 1..Len(s1) : s1[i] \in Nat)
      /\ Len(s2) = num /\ (\A i \in 1..Len(s2) : s2[i] \in Nat)
  BY <1>2
<1>4. comp = Sums(s1) /\ decomp = Sums(s2)
  BY Zenon DEF Before, F
<1>5. comp \in [0..num -> Nat] /\ decomp \in [0..num -> Nat]
  <2> HIDE DEF s1, s2
  <2>1. Sums(s1) \in [0..num -> Nat]
    BY <1>3, SumsAre
  <2>2. Sums(s2) \in [0..num -> Nat]
    BY <1>3, SumsAre
  <2> QED BY <1>4, <2>1, <2>2, Zenon
<1> HIDE DEF comp, decomp, sum
<1>6. e = [i \in 1..num |-> G(i)]
  BY Zenon DEF Entries, F, comp, decomp, sum
<1>7. \A i \in 1..num : G(i) \in FrameRecords
  <2> SUFFICES ASSUME NEW i \in 1..num PROVE G(i) \in FrameRecords
    BY Zenon
  <2>1. comp[i - 1] \in Nat /\ decomp[i - 1] \in Nat
    BY <1>5
  <2> QED BY <1>2, <2>1 DEF FrameRecords
<1>8. e \in Seq(FrameRecords) /\ Len(e) = num
  <2> HIDE DEF G
  <2>1. e \in [1..num -> FrameRecords]
    BY <1>6, <1>7
  <2> HIDE DEF e
  <2> QED BY <2>1, IsASeq
<1>9. ASSUME NEW i \in 1..num
      PROVE  /\ e[i].compressed_offset = comp[i - 1] /\ e[i].compressed_size = F(i, 1)
             /\ e[i].decompressed_offset = decomp[i - 1] /\ e[i].decompressed_size = F(i, 2)
  <2>1. e[i] = G(i)
    <3> HIDE DEF G
    <3> QED BY <1>6
  <2> QED BY <2>1
<1> HIDE DEF G, e
<1>10. CompOff(e) = comp /\ Acc(e) = decomp
  <2>1. [i \in 1..Len(e) |-> e[i].compressed_size] = s1
    BY <1>8, <1>9, Zenon
  <2>2. [i \in 1..Len(e) |-> e[i].decompressed_size] = s2
    BY <1>8, <1>9, Zenon
  <2> HIDE DEF s1, s2
  <2> QED BY <1>4, <2>1, <2>2, Zenon DEF CompOff, Acc
<1> QED BY <1>8, <1>9, <1>10, Zenon DEF Indexed, e

LEMMA ParsedIndexed ==
  ASSUME NEW a \in Seq(Cells), Parsed(a) # None
  PROVE  /\ Indexed(Parsed(a))
         /\ a[CompOff(Parsed(a))[Len(Parsed(a))] + 1] = SkippableMagic
<1> DEFINE end == Len(a)
           num == a[end - 2].n
           ck == a[end - 1].n = 1
           content == num * EntrySize(ck) + FooterSize
           skip_start == end - (SkippableHeader + content)
           frames == Entries(a, skip_start + SkippableHeader, num, ck)
<1>1. Parsed(a) =
        IF end < SkippableHeader + FooterSize \/ a[end] # SeekableMagic THEN None
        ELSE IF skip_start < 0 THEN None
        ELSE IF a[skip_start + 1] # SkippableMagic \/ a[skip_start + 2].n # content THEN None
        ELSE IF ~SizesFit(frames, skip_start) THEN None ELSE frames
  BY Zenon DEF Parsed
<1> HIDE DEF frames, content, skip_start
<1>2. /\ ~(end < SkippableHeader + FooterSize) /\ ~(skip_start < 0)
      /\ a[skip_start + 1] = SkippableMagic
      /\ CompOff(frames)[Len(frames)] = skip_start /\ Parsed(a) = frames
  BY <1>1, Zenon DEF SizesFit
<1>3. num \in Nat
  <2>1. end - 2 \in 1..Len(a)
    BY <1>2 DEF SkippableHeader, FooterSize
  <2>2. a[end - 2] \in Cells
    BY <2>1, ElementOfSeq, Zenon
  <2> QED BY <2>2 DEF Cells
<1>4. Indexed(frames)
  <2>1. EntrySize(ck) \in Nat
    BY DEF EntrySize
  <2> DEFINE p == skip_start + SkippableHeader
             len == num * EntrySize(ck)
  <2>2. len \in Nat
    BY <1>3, <2>1, Z3
  <2> HIDE DEF len
  <2>3. content = len + FooterSize
    BY DEF content, len
  <2>4. p \in Nat /\ p + len <= Len(a)
    BY <1>2, <2>2, <2>3 DEF skip_start, SkippableHeader, FooterSize
  <2>5. ck \in BOOLEAN
    OBVIOUS
  <2> HIDE DEF p, ck, num
  <2>6. Indexed(Entries(a, p, num, ck))
    BY <1>3, <2>4, <2>5, EntriesIndexed, Zenon DEF len
  <2> QED BY <2>6, Zenon DEF frames, p
<1> QED BY <1>2, <1>4, Zenon

-----------------------------------------------------------------------------
(* The groups.                                                             *)

(* The groups divide the frames among the workers, in order.               *)
Grouped(b, n, len) ==
  /\ b \in [1..(n + 1) -> 0..len] /\ b[1] = 0 /\ b[n + 1] = len
  /\ \A g \in 1..n : b[g] <= b[g + 1]

(* The bounds of the groups that are closed by frame i.                    *)
ClosedBy(b, n, i, len) ==
  /\ b \in Seq(0..len) /\ Len(b) \in 1..n /\ b[1] = 0 /\ b[Len(b)] <= i
  /\ \A g \in 1..(Len(b) - 1) : b[g] <= b[g + 1]

LEMMA CloseOne ==
  ASSUME NEW t, NEW len \in Nat, NEW n \in Nat \ {0}, NEW i \in 1..len, NEW b,
         ClosedBy(b, n, i - 1, len)
  PROVE  ClosedBy(Closed(t, n, i, b), n, i, len)
<1>1. /\ b \in Seq(0..len) /\ Len(b) \in 1..n /\ b[1] = 0 /\ b[Len(b)] <= i - 1
      /\ \A g \in 1..(Len(b) - 1) : b[g] <= b[g + 1]
  BY Zenon DEF ClosedBy
<1>2. b[Len(b)] \in 0..len
  <2>1. Len(b) \in 1..Len(b)
    BY <1>1
  <2> QED BY <1>1, <2>1, ElementOfSeq, Zenon
<1>3. CASE CloseGroup(t, n, i, b)
  <2> DEFINE c == Append(b, i)
  <2>1. Closed(t, n, i, b) = c /\ Len(b) < n
    BY <1>3, Zenon DEF Closed, CloseGroup
  <2>2. /\ c \in Seq(0..len) /\ Len(c) = Len(b) + 1 /\ c[Len(b) + 1] = i
        /\ \A g \in 1..Len(b) : c[g] = b[g]
    <3>1. i \in 0..len
      OBVIOUS
    <3> QED BY <1>1, <3>1, AppendProperties
  <2> HIDE DEF c
  <2>3. Len(c) \in 1..n /\ c[1] = 0 /\ c[Len(c)] <= i
    BY <1>1, <2>1, <2>2
  <2>4. ASSUME NEW g \in 1..(Len(c) - 1)
        PROVE  c[g] <= c[g + 1]
    <3>1. CASE g = Len(b)
      <4>1. c[g] = b[Len(b)] /\ c[g + 1] = i
        BY <1>1, <2>2, <3>1
      <4> QED BY <1>1, <1>2, <4>1
    <3>2. CASE g # Len(b)
      <4>1. g \in 1..(Len(b) - 1) /\ g \in 1..Len(b) /\ g + 1 \in 1..Len(b)
        BY <1>1, <2>2, <3>2
      <4> QED BY <1>1, <2>2, <4>1, Zenon
    <3> QED BY <3>1, <3>2
  <2> QED BY <2>1, <2>2, <2>3, <2>4, Zenon DEF ClosedBy
<1>4. CASE ~CloseGroup(t, n, i, b)
  <2>1. Closed(t, n, i, b) = b
    BY <1>4, Zenon DEF Closed
  <2>2. b[Len(b)] <= i
    BY <1>1, <1>2
  <2> QED BY <1>1, <2>1, <2>2, Zenon DEF ClosedBy
<1> QED BY <1>3, <1>4

(* The bounds, frame by frame.                                             *)
Closes(closed, t, n) ==
  /\ closed[0] = <<0>>
  /\ \A i \in 1..Len(t) : closed[i] = Closed(t, n, i, closed[i - 1])
Filled(b, n, len) == b \o [i \in 1..(n + 1 - Len(b)) |-> len]

LEMMA BoundsAre ==
  ASSUME NEW t, Len(t) \in Nat, NEW n \in Nat \ {0}
  PROVE  \E closed : Closes(closed, t, n) /\ Bounds(t, n) = Filled(closed[Len(t)], n, Len(t))
<1> DEFINE N == Len(t)
           D == Seq(0..N)
           step == [p \in (1..N) \X D |-> Closed(t, n, p[1], p[2])]
           F(f) == [i \in 0..N |-> IF i = 0 THEN <<0>> ELSE Closed(t, n, i, f[i - 1])]
           closed == CHOOSE f : f = F(f)
<1>1. N \in Nat
  OBVIOUS
<1>2. Bounds(t, n) = Filled(closed[N], n, N)
  BY Zenon DEF Bounds, Filled
<1> HIDE DEF N
<1>3. <<0>> \in D
  <2>1. 0 \in 0..N
    BY <1>1
  <2> QED BY <2>1
<1>4. step \in [(1..N) \X D -> D]
  <2>1. ASSUME NEW i \in 1..N, NEW c \in D
        PROVE  Closed(t, n, i, c) \in D
    <3>1. i \in 0..N
      BY <1>1
    <3>2. Append(c, i) \in D
      BY <3>1, AppendProperties
    <3> QED BY <3>2, Zenon DEF Closed
  <2> HIDE DEF D
  <2> QED BY <2>1
<1>5. PICK f \in [0..N -> D] : Iterates(f, N, <<0>>, step)
  <2> HIDE DEF step, D
  <2> QED BY <1>1, <1>3, <1>4, Recursion, Zenon
<1>6. f = F(f)
  <2>1. ASSUME NEW i \in 1..N
        PROVE  f[i] = Closed(t, n, i, f[i - 1])
    <3>1. i - 1 \in 0..N
      BY <1>1
    <3> HIDE DEF D
    <3>2. <<i, f[i - 1]>> \in (1..N) \X D
      BY <1>5, <3>1
    <3>3. step[<<i, f[i - 1]>>] = Closed(t, n, i, f[i - 1])
      BY <3>2
    <3> HIDE DEF step
    <3> QED BY <1>5, <3>3, Zenon DEF Iterates
  <2>2. f[0] = <<0>>
    BY <1>5, Zenon DEF Iterates
  <2>3. \A i \in 0..N : f[i] = IF i = 0 THEN <<0>> ELSE Closed(t, n, i, f[i - 1])
    <3>1. \A i \in 0..N : i # 0 => i \in 1..N
      BY <1>1
    <3> QED BY <2>1, <2>2, <3>1, Zenon
  <2>4. f = [i \in 0..N |-> f[i]]
    <3> HIDE DEF D
    <3> QED BY <1>5
  <2> QED BY <2>3, <2>4, Zenon
<1>7. closed = F(closed)
  BY <1>6, Zenon
<1> HIDE DEF closed
<1>8. closed[0] = <<0>> /\ \A i \in 1..N : closed[i] = Closed(t, n, i, closed[i - 1])
  <2>1. 0 \in 0..N /\ \A i \in 1..N : i \in 0..N /\ i # 0
    BY <1>1
  <2> QED BY <1>7, <2>1, Zenon
<1> QED BY <1>2, <1>8, Zenon DEF Closes, N

LEMMA BoundsClose ==
  ASSUME NEW t, Len(t) \in Nat, NEW n \in Nat \ {0}, NEW closed, Closes(closed, t, n)
  PROVE  \A i \in 0..Len(t) : ClosedBy(closed[i], n, i, Len(t))
<1> DEFINE N == Len(t)
           S == {i \in 0..N : ClosedBy(closed[i], n, i, N)}
<1>1. N \in Nat
  OBVIOUS
<1>2. closed[0] = <<0>> /\ \A i \in 1..N : closed[i] = Closed(t, n, i, closed[i - 1])
  BY Zenon DEF Closes
<1> HIDE DEF N
<1>3. 0 \in S
  <2>1. Len(<<0>>) = 1 /\ <<0>>[1] = 0 /\ 1 \in 1..n /\ 0 <= 0 /\ 0 \in 0..N /\ 1..(1 - 1) = {}
    BY <1>1
  <2>2. <<0>> \in Seq(0..N)
    BY <2>1
  <2>3. ClosedBy(<<0>>, n, 0, N)
    BY <2>1, <2>2, Zenon DEF ClosedBy
  <2> QED BY <1>2, <2>1, <2>3, Zenon
<1>4. ASSUME NEW i \in 1..N, i - 1 \in S
      PROVE  i \in S
  <2>1. i \in 0..N
    BY <1>1
  <2>2. ClosedBy(closed[i - 1], n, i - 1, N)
    BY <1>4, Zenon
  <2>3. ClosedBy(Closed(t, n, i, closed[i - 1]), n, i, N)
    BY <1>1, <2>2, CloseOne, Zenon
  <2> QED BY <1>2, <2>1, <2>3, Zenon
<1>5. 0..N \subseteq S
  <2> HIDE DEF S
  <2> QED BY <1>1, <1>3, <1>4, UpTo, Zenon
<1> QED BY <1>5, Zenon DEF N

LEMMA FilledIs ==
  ASSUME NEW N \in Nat, NEW n \in Nat \ {0}, NEW b, ClosedBy(b, n, N, N)
  PROVE  /\ Filled(b, n, N) \in Seq(0..N) /\ Len(Filled(b, n, N)) = n + 1
         /\ \A g \in 1..(n + 1) : Filled(b, n, N)[g] = IF g <= Len(b) THEN b[g] ELSE N
<1> DEFINE rest == [i \in 1..(n + 1 - Len(b)) |-> N]
           c == b \o rest
<1>1. b \in Seq(0..N) /\ Len(b) \in 1..n
  BY Zenon DEF ClosedBy
<1>2. rest \in Seq(0..N) /\ Len(rest) = n + 1 - Len(b) /\ \A g \in 1..Len(rest) : rest[g] = N
  <2>1. n + 1 - Len(b) \in Nat /\ N \in 0..N
    BY <1>1
  <2> QED BY <2>1
<1>3. c = Filled(b, n, N)
  BY Zenon DEF Filled
<1> HIDE DEF rest
<1>4. /\ c \in Seq(0..N) /\ Len(c) = Len(b) + Len(rest)
      /\ \A g \in 1..(Len(b) + Len(rest)) :
           c[g] = IF g <= Len(b) THEN b[g] ELSE rest[g - Len(b)]
  BY <1>1, <1>2, ConcatProperties
<1>5. Len(b) \in Nat /\ Len(b) + Len(rest) = n + 1
  BY <1>1, <1>2
<1>6. ASSUME NEW g \in 1..(n + 1), ~(g <= Len(b))
      PROVE  g - Len(b) \in 1..Len(rest)
  BY <1>1, <1>2, <1>6
<1> HIDE DEF c
<1> QED BY <1>2, <1>3, <1>4, <1>5, <1>6, Zenon

LEMMA BoundsGroup ==
  ASSUME NEW t, Len(t) \in Nat, NEW n \in Nat \ {0}
  PROVE  Grouped(Bounds(t, n), n, Len(t))
<1> DEFINE N == Len(t)
<1>1. PICK closed : Closes(closed, t, n) /\ Bounds(t, n) = Filled(closed[N], n, N)
  BY BoundsAre
<1> DEFINE b == closed[N]
           c == Filled(b, n, N)
<1>2. N \in Nat /\ N \in 0..N
  OBVIOUS
<1>3. ClosedBy(b, n, N, N)
  BY <1>1, <1>2, BoundsClose, Zenon
<1> HIDE DEF N, b
<1>4. /\ b \in Seq(0..N) /\ Len(b) \in 1..n /\ b[1] = 0 /\ b[Len(b)] <= N
      /\ \A g \in 1..(Len(b) - 1) : b[g] <= b[g + 1]
  BY <1>3, Zenon DEF ClosedBy
<1>5. /\ c \in Seq(0..N) /\ Len(c) = n + 1
      /\ \A g \in 1..(n + 1) : c[g] = IF g <= Len(b) THEN b[g] ELSE N
  BY <1>2, <1>3, FilledIs, SMT
<1> HIDE DEF c
<1>6. c \in [1..(n + 1) -> 0..N]
  BY <1>5, LenProperties, Zenon
<1>7. c[1] = 0 /\ c[n + 1] = N
  BY <1>4, <1>5
<1>8. ASSUME NEW g \in 1..n
      PROVE  c[g] <= c[g + 1]
  <2>1. g \in 1..(n + 1) /\ g + 1 \in 1..(n + 1)
    OBVIOUS
  <2>2. CASE g + 1 <= Len(b)
    <3>1. g <= Len(b) /\ g \in 1..(Len(b) - 1)
      BY <1>4, <2>2
    <3> QED BY <1>4, <1>5, <2>1, <2>2, <3>1, Zenon
  <2>3. CASE ~(g + 1 <= Len(b))
    <3>1. c[g + 1] = N /\ c[g] \in 0..N
      BY <1>5, <1>6, <2>1, <2>3
    <3> QED BY <1>2, <3>1
  <2> QED BY <2>2, <2>3
<1> QED BY <1>1, <1>6, <1>7, <1>8, Zenon DEF Grouped, c, b, N

-----------------------------------------------------------------------------
(* The invariant.                                                          *)

(* What the archive looks like behind the last frame.                      *)
TableFollows == archive[CompOff(table)[Len(table)] + 1] = SkippableMagic

(* Frame i of table t was decoded from archive a and copied to its place   *)
(* in the output o.                                                        *)
Placed(a, t, o, i) ==
  /\ SeekFrame(a, t[i]).ok
  /\ \A k \in 1..Len(SeekFrame(a, t[i]).bytes) :
       o[Acc(t)[i - 1] + k] = SeekFrame(a, t[i]).bytes[k]

(* A worker w has placed the frames of its group lo..hi up to where it is; *)
(* if it failed, it failed at the next one.                                *)
Works(a, t, o, lo, hi, w) ==
  /\ w.at \in lo..hi /\ w.off = Acc(t)[w.at]
  /\ \A i \in (lo + 1)..w.at : Placed(a, t, o, i)
  /\ w.err # None => w.at < hi /\ SeekFrame(a, t[w.at + 1]) = Err(w.err)

(* The first j workers have been joined: they are finished, and none but   *)
(* the last has failed.                                                    *)
Joined(b, w, j) ==
  \A g \in 1..j : /\ w[g].err # None \/ w[g].at = b[g + 1]
                  /\ g < j => w[g].err = None

(* n workers w with the groups b decode the frames of t into o.            *)
Decodes(a, t, n, b, o, w, j) ==
  /\ n \in 1..Len(t) /\ Grouped(b, n, Len(t))
  /\ o \in [1..Acc(t)[Len(t)] -> Byte]
  /\ w \in [1..n -> WorkerRecords]
  /\ \A g \in 1..n : Works(a, t, o, b[g], b[g + 1], w[g])
  /\ j \in 0..n /\ Joined(b, w, j)

Decoding ==
  /\ Decodes(archive, table, jobs, bounds, out, worker, joined)
  /\ limit \in Nat /\ decompressed_size(table) <= limit

Arguments == data \in Seq(Byte) /\ size \in Nat /\ checksum \in BOOLEAN
Stored == entries \in Seq(EntryRecords) /\ archive \in Seq(Cells)
Opened ==
  /\ table # None => Indexed(table)
  /\ pc \in {"write", "stored"} => table = None
  /\ pc \in {"ready", "decode"} => table # None
  /\ pc = "ready" /\ ~faults.late => TableFollows

SeekInvariant ==
  /\ pc \in {"write", "stored", "ready", "decode", "done"}
  /\ Arguments /\ Stored /\ Opened
  /\ pc = "decode" => Decoding
  /\ ParallelMatchesSerial /\ OutputAsIndexed

LEMMA SeekInit == Init => SeekInvariant
<1> SUFFICES ASSUME Init PROVE SeekInvariant
  OBVIOUS
<1>1. Arguments
  BY Constants, Zenon DEF Init, Arguments
<1>2. Stored
  <2>1. \A S : <<>> \in Seq(S)
    OBVIOUS
  <2> QED BY <2>1, Zenon DEF Init, Stored
<1>3. pc = "write" /\ table = None
  BY DEF Init
<1> QED
  BY <1>1, <1>2, <1>3
  DEF SeekInvariant, Opened, ParallelMatchesSerial, OutputAsIndexed

-----------------------------------------------------------------------------
(* Writing.                                                                *)

(* While nothing is decoded and no result returned, the invariant is about *)
(* the archive and its table.                                              *)
LEMMA Preparing ==
  ASSUME pc' \in {"write", "stored", "ready"} \/ (pc' = "done" /\ table' = None),
         Arguments', Stored', Opened'
  PROVE  SeekInvariant'
<1>1. pc' # "decode" /\ ~(pc' = "done" /\ table' # None)
  OBVIOUS
<1>2. pc' \in {"write", "stored", "ready", "decode", "done"}
  OBVIOUS
<1> QED
  BY <1>1, <1>2, Zenon DEF SeekInvariant, ParallelMatchesSerial, OutputAsIndexed

(* A chunk is a part of the input, and its frame and entry are well formed. *)
LEMMA WrittenIsNat == ASSUME entries \in Seq(EntryRecords) PROVE Written \in Nat
<1> DEFINE s == [i \in 1..Len(entries) |-> entries[i].ds]
<1>1. \A i \in 1..Len(entries) : entries[i].ds \in Nat
  <2>1. \A i \in 1..Len(entries) : entries[i] \in EntryRecords
    BY ElementOfSeq
  <2> QED BY <2>1 DEF EntryRecords
<1>2. Len(s) = Len(entries) /\ Len(entries) \in Nat /\ \A i \in 1..Len(s) : s[i] \in Nat
  BY <1>1
<1> HIDE DEF s
<1>3. Sums(s) \in [0..Len(s) -> Nat]
  BY <1>2, SumsAre
<1>4. Sums(s)[Len(entries)] \in Nat
  <2>1. Len(entries) \in 0..Len(s)
    BY <1>2
  <2> QED BY <1>3, <2>1
<1> QED BY <1>4 DEF Written, s

LEMMA FrameCells ==
  ASSUME NEW chunk \in Seq(Byte), NEW len \in Nat
  PROVE  compress(chunk, len) \in Seq(Cells)
<1>1. ASSUME NEW n \in Nat
      PROVE  Cell("frame", n, chunk) \in Cells /\ Cell("body", 0, <<>>) \in Cells
  <2> HIDE DEF Byte
  <2>1. <<>> \in Seq(Byte) /\ "frame" \in Kinds /\ "body" \in Kinds
    BY DEF Kinds
  <2> HIDE DEF Kinds
  <2> QED BY <2>1 DEF Cell, Cells
<1>2. compress(chunk, len) \in [1..len -> Cells]
  BY <1>1 DEF compress
<1> QED
  BY <1>2, IsASeq

LEMMA WriteChunkStep ==
  ASSUME SeekInvariant, NEW len \in FrameLens, WriteChunk(len)
  PROVE  SeekInvariant'
<1> DEFINE n == IF Len(data) - Written < FrameSize THEN Len(data) - Written ELSE FrameSize
           chunk == SubSeq(data, Written + 1, Written + n)
           e == [cs |-> len, ds |-> n, ck |-> IF checksum THEN xxh64(chunk) ELSE 0]
<1>1. /\ pc = "write" /\ Written < Len(data) /\ UNCHANGED <<input, faults, table, scope>>
      /\ \/ pc' = "done" /\ entries' = entries /\ archive' = archive
         \/ /\ entries' = Append(entries, e) /\ archive' = archive \o compress(chunk, len)
            /\ pc' = pc
  BY Zenon DEF WriteChunk
<1>2. Arguments /\ Stored /\ Opened /\ table = None
  BY <1>1 DEF SeekInvariant, Opened
<1>3. Arguments'
  BY <1>1, <1>2, Zenon DEF Arguments, input
<1>4. len \in Nat /\ len # 0
  BY Constants
<1>5. Written \in Nat /\ Len(data) \in Nat /\ FrameSize \in Nat
  BY <1>2, WrittenIsNat DEF Stored, Arguments, FrameSize
<1>6. n \in Nat /\ Written + n <= Len(data)
  BY <1>1, <1>5
<1> HIDE DEF n
<1>7. chunk \in Seq(Byte)
  <2>1. data \in Seq(Byte)
    BY <1>2, Zenon DEF Arguments
  <2> HIDE DEF Byte
  <2>2. \A i \in (Written + 1)..(Written + n) : data[i] \in Byte
    <3>1. \A i \in (Written + 1)..(Written + n) : i \in 1..Len(data)
      BY <1>5, <1>6
    <3> QED BY <2>1, <3>1, ElementOfSeq, Zenon
  <2>3. Written + 1 \in Int /\ Written + n \in Int
    BY <1>5, <1>6
  <2> QED BY <2>2, <2>3, SubSeqProperties, Zenon
<1> HIDE DEF chunk
<1>8. e \in EntryRecords
  <2>1. xxh64(chunk) \in Nat
    BY <1>7, DigestIsNat
  <2> QED BY <1>4, <1>6, <2>1 DEF EntryRecords
<1> HIDE DEF e
<1>9. Stored'
  <2>1. CASE entries' = entries /\ archive' = archive
    BY <1>2, <2>1, Zenon DEF Stored
  <2>2. CASE entries' = Append(entries, e) /\ archive' = archive \o compress(chunk, len)
    <3>1. Append(entries, e) \in Seq(EntryRecords)
      BY <1>2, <1>8, AppendProperties DEF Stored
    <3>2. compress(chunk, len) \in Seq(Cells) /\ archive \in Seq(Cells)
      BY <1>2, <1>4, <1>7, FrameCells DEF Stored
    <3>3. archive \o compress(chunk, len) \in Seq(Cells)
      <4> HIDE DEF Cells
      <4> QED BY <3>2, ConcatProperties, Zenon
    <3> QED BY <2>2, <3>1, <3>3, Zenon DEF Stored
  <2> QED BY <1>1, <2>1, <2>2, Zenon
<1>10. table' = None
  BY <1>1, <1>2, Zenon
<1>11. pc' = "done" \/ pc' = "write"
  BY <1>1
<1>12. Opened'
  BY <1>10, <1>11 DEF Opened
<1> QED
  BY <1>3, <1>9, <1>10, <1>11, <1>12, Preparing

(* The cells of a seek table.                                              *)
LEMMA TableCells ==
  ASSUME Arguments, Stored
  PROVE  SeekTableCells \in Seq(Cells)
<1>1. /\ SkippableMagic \in Cells /\ SeekableMagic \in Cells
      /\ \A n \in Nat : Word(n) \in Cells
  <2> HIDE DEF Byte
  <2>1. <<>> \in Seq(Byte)
    OBVIOUS
  <2>2. "skippable_magic" \in Kinds /\ "seekable_magic" \in Kinds /\ "word" \in Kinds
    BY DEF Kinds
  <2> QED BY <2>1, <2>2 DEF SkippableMagic, SeekableMagic, Word, Cell, Cells
<1>2. Len(entries) \in Nat /\ \A i \in 1..Len(entries) : entries[i] \in EntryRecords
  BY ElementOfSeq DEF Stored
<1> HIDE DEF Cells
<1>3. ASSUME NEW e \in EntryRecords
      PROVE  EntryCells(e) \in Seq(Cells)
  <2>1. Word(e.cs) \in Cells /\ Word(e.ds) \in Cells /\ Word(e.ck) \in Cells
    BY <1>1 DEF EntryRecords
  <2>2. <<Word(e.cs), Word(e.ds)>> \in Seq(Cells)
    BY <2>1
  <2>3. (IF checksum THEN <<Word(e.ck)>> ELSE <<>>) \in Seq(Cells)
    BY <2>1
  <2> QED BY <2>2, <2>3, ConcatProperties DEF EntryCells
<1> DEFINE s == [i \in 1..Len(entries) |-> EntryCells(entries[i])]
<1>4. s \in Seq(Seq(Cells))
  <2>1. s \in [1..Len(entries) -> Seq(Cells)]
    BY <1>2, <1>3
  <2> HIDE DEF s
  <2> QED BY <1>2, <2>1
<1>5. FlattenSeq(s) \in Seq(Cells)
  <2> HIDE DEF s
  <2> QED BY <1>4, FlattenType, Zenon
<1> DEFINE n == Len(entries) * EntrySize(checksum) + FooterSize
           d == IF checksum THEN 1 ELSE 0
           h == <<SkippableMagic, Word(n)>>
           t == <<Word(Len(entries)), Word(d), SeekableMagic>>
<1>6. n \in Nat /\ d \in Nat
  <2>1. EntrySize(checksum) \in {2, 3}
    BY DEF EntrySize
  <2> QED BY <1>2, <2>1 DEF FooterSize
<1>7. h \in Seq(Cells) /\ t \in Seq(Cells)
  <2> HIDE DEF n, d
  <2> QED BY <1>1, <1>2, <1>6
<1>8. SeekTableCells = (h \o FlattenSeq(s)) \o t
  BY Zenon DEF SeekTableCells
<1> HIDE DEF h, t, s
<1> QED
  BY <1>5, <1>7, <1>8, ConcatProperties

LEMMA WriteTableStep ==
  ASSUME SeekInvariant, WriteTable
  PROVE  SeekInvariant'
<1>1. /\ pc = "write" /\ UNCHANGED <<input, entries, faults, table, scope>>
      /\ \/ pc' = "done" /\ archive' = archive
         \/ pc' = "stored" /\ archive' = archive \o SeekTableCells
  BY Zenon DEF WriteTable
<1>2. Arguments /\ Stored /\ Opened /\ table = None
  BY <1>1 DEF SeekInvariant, Opened
<1>3. Arguments'
  BY <1>1, <1>2, Zenon DEF Arguments, input
<1>4. Stored'
  <2>1. archive \o SeekTableCells \in Seq(Cells)
    BY <1>2, TableCells, ConcatProperties DEF Stored
  <2> QED BY <1>1, <1>2, <2>1, Zenon DEF Stored
<1>5. Opened' /\ table' = None
  <2>1. table' = None /\ pc' \in {"done", "stored"}
    BY <1>1, <1>2, Zenon
  <2> QED BY <2>1 DEF Opened
<1> QED
  BY <1>1, <1>3, <1>4, <1>5, Preparing

LEMMA DamageStep ==
  ASSUME SeekInvariant, DamageArchive
  PROVE  SeekInvariant'
<1>1. /\ pc \in {"stored", "ready"} /\ faults' = [n |-> faults.n + 1, late |-> pc = "ready"]
      /\ UNCHANGED <<pc, input, entries, table, scope, result>>
      /\ \/ \E i \in 1..Len(archive), n \in Damage :
              archive[i].k = "word" /\ archive' = [archive EXCEPT ![i].n = n]
         \/ \E i \in 1..Len(archive) : archive' = [archive EXCEPT ![i] = Cell("body", 0, <<>>)]
         \/ archive # <<>> /\ archive' = SubSeq(archive, 1, Len(archive) - 1)
  BY Zenon DEF DamageArchive
<1>2. Arguments /\ Stored /\ Opened
  BY Zenon DEF SeekInvariant
<1>3. Arguments'
  BY <1>1, <1>2, Zenon DEF Arguments, input
<1>4. /\ archive \in Seq(Cells) /\ Len(archive) \in Nat
      /\ \A i \in 1..Len(archive) : archive[i] \in Cells
  BY <1>2, ElementOfSeq DEF Stored
<1>5. archive' \in Seq(Cells)
  <2>1. ASSUME NEW i \in 1..Len(archive), NEW n \in Damage,
               archive[i].k = "word", archive' = [archive EXCEPT ![i].n = n]
        PROVE  archive' \in Seq(Cells)
    <3>1. n \in Nat
      BY Constants
    <3> DEFINE c == [archive[i] EXCEPT !.n = n]
    <3>2. c \in Cells
      <4> HIDE DEF Byte
      <4> QED BY <1>4, <3>1 DEF Cells
    <3>3. archive' = [archive EXCEPT ![i] = c]
      BY <2>1, Zenon
    <3> HIDE DEF c, Cells
    <3> QED BY <1>4, <3>2, <3>3, ExceptSeq
  <2>2. ASSUME NEW i \in 1..Len(archive), archive' = [archive EXCEPT ![i] = Cell("body", 0, <<>>)]
        PROVE  archive' \in Seq(Cells)
    <3>1. Cell("body", 0, <<>>) \in Cells
      <4> HIDE DEF Byte
      <4>1. <<>> \in Seq(Byte) /\ "body" \in Kinds
        BY DEF Kinds
      <4> QED BY <4>1 DEF Cell, Cells
    <3> HIDE DEF Cells
    <3> QED BY <1>4, <2>2, <3>1, ExceptSeq
  <2>3. ASSUME archive # <<>>, archive' = SubSeq(archive, 1, Len(archive) - 1)
        PROVE  archive' \in Seq(Cells)
    <3> HIDE DEF Cells
    <3> QED BY <1>4, <2>3, SubSeqProperties
  <2> QED BY <1>1, <2>1, <2>2, <2>3, Zenon
<1>6. Stored'
  BY <1>1, <1>2, <1>5, Zenon DEF Stored
<1>7. Opened'
  <2>1. pc' = pc /\ table' = table /\ (pc' = "ready" => faults'.late)
    BY <1>1
  <2> QED BY <1>1, <1>2, <2>1, Zenon DEF Opened
<1> QED
  BY <1>1, <1>3, <1>6, <1>7, Preparing

LEMMA ParseStep ==
  ASSUME SeekInvariant, Parse
  PROVE  SeekInvariant'
<1>1. /\ pc = "stored" /\ table' = Parsed(archive)
      /\ IF table' = None THEN pc' = "done" ELSE pc' = "ready"
      /\ UNCHANGED <<input, entries, archive, faults, scope>>
  BY Zenon DEF Parse
<1>2. Arguments /\ Stored
  BY Zenon DEF SeekInvariant
<1>3. Arguments' /\ Stored'
  BY <1>1, <1>2, Zenon DEF Arguments, Stored, input
<1>4. Opened'
  <2>1. CASE table' = None
    BY <1>1, <2>1 DEF Opened
  <2>2. CASE table' # None
    <3>1. /\ Indexed(Parsed(archive))
          /\ archive[CompOff(Parsed(archive))[Len(Parsed(archive))] + 1] = SkippableMagic
      BY <1>1, <1>2, <2>2, ParsedIndexed, Zenon DEF Stored
    <3>2. Indexed(table)' /\ TableFollows'
      BY <1>1, <3>1, Zenon DEF TableFollows
    <3>3. pc' = "ready"
      BY <1>1, <2>2
    <3> QED BY <2>2, <3>2, <3>3 DEF Opened
  <2> QED BY <2>1, <2>2
<1> QED
  BY <1>1, <1>3, <1>4, Preparing

-----------------------------------------------------------------------------
(* The serial decode.                                                      *)

(* It stops at the first frame that fails.                                 *)
LEMMA SerialFails ==
  ASSUME NEW a, NEW t, Len(t) \in Nat, NEW x \in 1..Len(t), NEW e \in Errors,
         SeekFrame(a, t[x]) = Err(e), \A i \in 1..(x - 1) : SeekFrame(a, t[i]).ok
  PROVE  Serial(a, t) = Err(e)
<1> DEFINE r == [i \in 1..Len(t) |-> decompress_seekable_frame(a, t, i)]
           bad == {i \in 1..Len(t) : ~r[i].ok}
           y == CHOOSE i \in bad : \A j \in bad : i <= j
<1>1. \A i \in 1..Len(t) : r[i] = SeekFrame(a, t[i])
  BY Zenon DEF decompress_seekable_frame
<1>2. Serial(a, t) = IF bad = {} THEN Ok(FlattenSeq([i \in 1..Len(t) |-> r[i].bytes])) ELSE r[y]
  BY Zenon DEF Serial
<1> HIDE DEF r
<1>3. x \in bad
  BY <1>1, ErrIs, Zenon
<1>4. \A j \in bad : x <= j
  <2> SUFFICES ASSUME NEW j \in bad PROVE x <= j
    OBVIOUS
  <2>1. j \in 1..Len(t) /\ ~SeekFrame(a, t[j]).ok
    BY <1>1, Zenon
  <2>2. j \notin 1..(x - 1)
    BY <2>1, Zenon
  <2> QED BY <2>1, <2>2
<1>5. y \in bad /\ \A j \in bad : y <= j
  <2> HIDE DEF bad
  <2> QED BY <1>3, <1>4, Zenon
<1>6. y = x
  <2>1. y <= x /\ x <= y
    <3> HIDE DEF y, bad
    <3> QED BY <1>3, <1>4, <1>5, Zenon
  <2>2. y \in 1..Len(t)
    <3> HIDE DEF y
    <3> QED BY <1>5
  <2> HIDE DEF y
  <2> QED BY <2>1, <2>2
<1> HIDE DEF y, bad
<1>7. bad # {}
  BY <1>3
<1> QED
  BY <1>1, <1>2, <1>6, <1>7, Zenon

(* It joins what the frames yield, which is the output once all of them    *)
(* are placed in it.                                                       *)
LEMMA PlacedFrame ==
  ASSUME NEW a \in Seq(Cells), NEW t, Indexed(t), NEW o \in [1..Acc(t)[Len(t)] -> Byte],
         NEW i \in 1..Len(t), Placed(a, t, o, i)
  PROVE  /\ SeekFrame(a, t[i]).bytes \in Seq(Byte)
         /\ SeekFrame(a, t[i]).bytes = a[t[i].compressed_offset + 1].content
         /\ o \in Seq(Byte) /\ Len(o) = Acc(t)[Len(t)]
         /\ SubSeq(o, Acc(t)[i - 1] + 1, Acc(t)[i]) = SeekFrame(a, t[i]).bytes
         /\ SubSeq(o, 1, Acc(t)[i - 1]) \in Seq(Byte)
         /\ SubSeq(o, 1, Acc(t)[i]) = SubSeq(o, 1, Acc(t)[i - 1]) \o SeekFrame(a, t[i]).bytes
<1> DEFINE s == SeekFrame(a, t[i]).bytes
           A == Acc(t)
           N == Len(t)
           lo == A[i - 1]
           hi == A[i]
           p == SubSeq(o, 1, lo)
           q == SubSeq(o, 1, hi)
           m == SubSeq(o, lo + 1, hi)
<1>1. /\ N \in Nat /\ t[i] \in FrameRecords /\ hi = lo + t[i].decompressed_size
      /\ t[i].decompressed_size \in Nat
  BY AccFacts
<1>2. lo \in Nat /\ hi \in Nat /\ A[N] \in Nat /\ lo <= hi /\ hi <= A[N]
  <2>1. i - 1 \in 0..N /\ i \in 0..N /\ N \in 0..N /\ i - 1 <= i /\ i <= N
    BY <1>1
  <2> HIDE DEF A, N
  <2> QED BY <2>1, AccGrows, Zenon DEF A, N
<1>3. Yields(SeekFrame(a, t[i]), a, t[i])
  <2>1. SeekFrame(a, t[i]).ok
    BY Zenon DEF Placed
  <2>2. ~Fails(SeekFrame(a, t[i]))
    BY <2>1, ErrIs, Zenon DEF Fails
  <2> QED BY <1>1, <2>2, SeekFrameIs, Zenon
<1>4. /\ s \in Seq(Byte) /\ Len(s) = t[i].decompressed_size
      /\ s = a[t[i].compressed_offset + 1].content
  BY <1>3, Zenon DEF Yields
<1>5. \A k \in 1..Len(s) : o[lo + k] = s[k]
  BY Zenon DEF Placed
<1> HIDE DEF s, A, N, lo, hi, Byte
<1>6. o \in Seq(Byte) /\ Len(o) = A[N]
  BY <1>2 DEF A, N
<1>7. \A k \in 1..Len(o) : o[k] \in Byte
  BY <1>6, ElementOfSeq
<1>8. p \in Seq(Byte) /\ Len(p) = lo /\ \A k \in 1..lo : p[k] = o[k]
  BY <1>2, <1>6, <1>7, SubSeqProperties
<1>9. q \in Seq(Byte) /\ Len(q) = hi /\ \A k \in 1..hi : q[k] = o[k]
  BY <1>2, <1>6, <1>7, SubSeqProperties
<1>10. m \in Seq(Byte) /\ Len(m) = hi - lo /\ \A k \in 1..(hi - lo) : m[k] = o[lo + k]
  <2>1. lo \in Nat /\ hi \in Nat /\ lo <= hi /\ hi <= Len(o)
    BY <1>2, <1>6, Zenon
  <2> QED BY <1>6, <2>1, Slice, Zenon
<1>11. Len(s) = hi - lo
  <2> DEFINE d == t[i].decompressed_size
  <2>1. Len(s) = d /\ hi = lo + d /\ d \in Nat /\ lo \in Nat
    BY <1>1, <1>2, <1>4, Zenon
  <2> HIDE DEF d
  <2> QED BY <2>1
<1> HIDE DEF p, q, m
<1>12. m = s
  <2>1. \A k \in 1..Len(m) : m[k] = s[k]
    BY <1>5, <1>10, <1>11, Zenon
  <2> QED BY <1>4, <1>10, <1>11, <2>1, SeqEqual
<1>13. q = p \o s
  <2>1. Len(q) = Len(p) + Len(s)
    BY <1>2, <1>8, <1>9, <1>11
  <2>2. ASSUME NEW k \in 1..Len(p) PROVE q[k] = p[k]
    <3>1. \A x \in 1..lo : x \in 1..hi
      BY <1>2
    <3> QED BY <1>8, <1>9, <3>1, Zenon
  <2>3. ASSUME NEW k \in 1..Len(s) PROVE q[Len(p) + k] = s[k]
    <3>1. lo + k \in 1..hi
      BY <1>2, <1>11
    <3> QED BY <1>5, <1>8, <1>9, <3>1
  <2> QED BY <1>4, <1>8, <1>9, <2>1, <2>2, <2>3, ConcatIs
<1> QED
  BY <1>4, <1>6, <1>8, <1>12, <1>13, Zenon DEF s, p, q, m, lo, hi, A, N

LEMMA SerialJoins ==
  ASSUME NEW a \in Seq(Cells), NEW t, Indexed(t), NEW o \in [1..Acc(t)[Len(t)] -> Byte],
         \A i \in 1..Len(t) : Placed(a, t, o, i)
  PROVE  Serial(a, t) = Ok(o)
<1> DEFINE N == Len(t)
           r == [i \in 1..N |-> decompress_seekable_frame(a, t, i)]
           bad == {i \in 1..N : ~r[i].ok}
           s == [i \in 1..N |-> r[i].bytes]
           w == [i \in 0..N |-> SubSeq(o, 1, Acc(t)[i])]
<1>1. N \in Nat /\ Acc(t)[0] = 0 /\ Acc(t)[N] \in Nat
  BY AccFacts
<1>2. \A i \in 1..N : r[i] = SeekFrame(a, t[i])
  BY Zenon DEF decompress_seekable_frame
<1>3. bad = {}
  BY <1>2, Zenon DEF Placed
<1>4. Serial(a, t) = Ok(FlattenSeq(s))
  BY <1>3, Zenon DEF Serial
<1> HIDE DEF r
<1>5. \A i \in 1..N : s[i] = SeekFrame(a, t[i]).bytes
  BY <1>2, Zenon
<1>6. \A i \in 1..N : s[i] \in Seq(Byte)
  <2>1. \A i \in 1..N : SeekFrame(a, t[i]).bytes \in Seq(Byte)
    BY PlacedFrame, Zenon
  <2> HIDE DEF s
  <2> QED BY <1>5, <2>1, Zenon
<1>7. s \in Seq(Seq(Byte)) /\ Len(s) = N
  <2> HIDE DEF N, Byte
  <2> QED BY <1>1, <1>6
<1>8. Joins(w, s)
  <2>1. w[0] = <<>>
    <3>1. 0 \in 0..N
      BY <1>1
    <3>2. w[0] = SubSeq(o, 1, 0)
      BY <1>1, <3>1, Zenon
    <3>3. SubSeq(o, 1, 0) = <<>>
      BY SubSeqEmpty
    <3> QED BY <3>2, <3>3, Zenon
  <2>2. ASSUME NEW i \in 1..N PROVE w[i] = w[i - 1] \o s[i]
    <3>1. i \in 0..N /\ i - 1 \in 0..N
      BY <1>1
    <3>2. SubSeq(o, 1, Acc(t)[i]) = SubSeq(o, 1, Acc(t)[i - 1]) \o SeekFrame(a, t[i]).bytes
      BY PlacedFrame
    <3> HIDE DEF N, s
    <3> QED BY <1>5, <3>1, <3>2, Zenon
  <2> HIDE DEF w, s
  <2> QED BY <1>7, <2>1, <2>2, Zenon DEF Joins
<1>9. w[N] = o
  <2>1. N \in 0..N
    BY <1>1
  <2>2. w[N] = SubSeq(o, 1, Acc(t)[N])
    BY <2>1, Zenon
  <2> HIDE DEF w, Byte
  <2>3. o \in Seq(Byte) /\ Len(o) = Acc(t)[N]
    BY <1>1
  <2> QED BY <2>2, <2>3, SubSeqFull, Zenon
<1> HIDE DEF w, s
<1>10. FlattenSeq(s) = w[N]
  BY <1>7, <1>8, FlattenIs, Zenon
<1> QED
  BY <1>4, <1>9, <1>10, Zenon

-----------------------------------------------------------------------------
(* The parallel decode.                                                    *)

(* Nothing else is in the invariant while frames are decoded.              *)
LEMMA StillDecoding ==
  ASSUME SeekInvariant, pc \in {"ready", "decode"}, pc' = "decode", Decoding',
         UNCHANGED <<input, entries, archive, faults, table>>
  PROVE  SeekInvariant'
<1>1. Arguments' /\ Stored'
  BY Zenon DEF SeekInvariant, Arguments, Stored, input
<1>2. Opened'
  <2>1. table # None /\ Indexed(table)
    BY Zenon DEF SeekInvariant, Opened
  <2>2. table' # None /\ Indexed(table)'
    BY <2>1, Zenon
  <2> QED BY <2>2 DEF Opened
<1>3. pc' # "done"
  OBVIOUS
<1> QED
  BY <1>1, <1>2, <1>3, Zenon DEF SeekInvariant, ParallelMatchesSerial, OutputAsIndexed

(* The first step: the groups are divided, and the workers stand before    *)
(* their first frames.                                                     *)
LEMMA StartStep ==
  ASSUME SeekInvariant, NEW n_jobs \in JobCounts, NEW max_output \in Ceilings,
         decompress_seekable_parallel_capped(n_jobs, max_output)
  PROVE  SeekInvariant'
<1> DEFINE total == decompressed_size(table)
           n == Clamp(n_jobs, 1, Clamp(Len(table), 0, MaxJobs))
           b == Bounds(table, n)
           o == [i \in 1..total |-> 0]
           w == [g \in 1..n |-> [at |-> b[g], off |-> RegionStart(table, b, g), err |-> None]]
<1>1. /\ pc = "ready" /\ limit' = max_output
      /\ UNCHANGED <<input, entries, archive, faults, table>>
      /\ IF OverCeiling(table, max_output)
         THEN pc' = "done" /\ result' = Err("output_too_large")
         ELSE IF table = <<>>
         THEN pc' = "done" /\ result' = Ok(<<>>)
         ELSE /\ pc' = "decode" /\ jobs' = n /\ bounds' = b /\ joined' = 0
              /\ out' = o /\ worker' = w
  BY Zenon DEF decompress_seekable_parallel_capped
<1>2. Arguments /\ Stored /\ Opened /\ table # None /\ Indexed(table) /\ archive \in Seq(Cells)
  BY <1>1 DEF SeekInvariant, Opened, Stored
<1>3. Arguments' /\ Stored'
  BY <1>1, <1>2, Zenon DEF Arguments, Stored, input
<1>4. /\ Len(table) \in Nat /\ total = Acc(table)[Len(table)] /\ total \in Nat
      /\ Acc(table)[0] = 0 /\ table \in Seq(FrameRecords)
  BY <1>2, AccFacts DEF Indexed
<1>5. max_output \in Nat /\ n_jobs \in Nat /\ MaxJobs \in Nat \ {0}
  BY Constants
<1>6. CASE OverCeiling(table, max_output)
  <2>1. pc' = "done" /\ result' = Err("output_too_large") /\ total > max_output
    BY <1>1, <1>6, Zenon DEF OverCeiling
  <2>2. Opened'
    BY <1>1, <1>2, <2>1 DEF Opened
  <2>3. result'.ok = FALSE
    BY <2>1, Zenon DEF Err
  <2>4. ParallelMatchesSerial' /\ OutputAsIndexed'
    BY <1>1, <2>1, <2>3, Zenon DEF ParallelMatchesSerial, OutputAsIndexed, Err
  <2> QED BY <1>3, <2>1, <2>2, <2>4 DEF SeekInvariant
<1>7. CASE ~OverCeiling(table, max_output) /\ table = <<>>
  <2>1. pc' = "done" /\ result' = Ok(<<>>) /\ ~(total > max_output)
    BY <1>1, <1>7, Zenon DEF OverCeiling
  <2>2. Opened'
    BY <1>1, <1>2, <2>1 DEF Opened
  <2>3. Len(table) = 0 /\ total = 0
    BY <1>4, <1>7
  <2>4. Serial(archive, table) = Ok(<<>>)
    <3>1. <<>> \in [1..Acc(table)[Len(table)] -> Byte] /\ 1..Len(table) = {}
      BY <1>4, <2>3
    <3> QED BY <1>2, <3>1, SerialJoins, Zenon
  <2>5. result'.bytes = <<>> /\ Len(<<>>) = 0 /\ 1..Len(table) = {}
    BY <2>1, <2>3 DEF Ok
  <2>6. ParallelMatchesSerial' /\ OutputAsIndexed'
    <3>1. decompressed_size(table)' = total /\ 1..Len(table)' = {} /\ Len(result'.bytes) = total
      BY <1>1, <2>3, <2>5, Zenon
    <3>2. Serial(archive, table)' = Ok(<<>>)
      BY <1>1, <2>4, Zenon
    <3> QED BY <1>1, <2>1, <3>1, <3>2, Zenon DEF ParallelMatchesSerial, OutputAsIndexed, Ok
  <2> QED BY <1>3, <2>1, <2>2, <2>6 DEF SeekInvariant
<1>8. CASE ~OverCeiling(table, max_output) /\ table # <<>>
  <2>1. /\ pc' = "decode" /\ jobs' = n /\ bounds' = b /\ joined' = 0
        /\ out' = o /\ worker' = w /\ total <= max_output
    BY <1>1, <1>4, <1>5, <1>8 DEF OverCeiling
  <2>2. n \in 1..Len(table)
    <3>1. Len(table) # 0
      BY <1>4, <1>8, EmptySeq
    <3> QED BY <1>4, <1>5, <3>1 DEF Clamp
  <2> HIDE DEF n
  <2>3. Grouped(b, n, Len(table))
    <3>1. n \in Nat \ {0}
      BY <1>4, <2>2
    <3> QED BY <1>4, <3>1, BoundsGroup, Zenon
  <2> HIDE DEF b
  <2>4. /\ b \in [1..(n + 1) -> 0..Len(table)] /\ \A g \in 1..n : b[g] <= b[g + 1]
    BY <2>3, Zenon DEF Grouped
  <2>5. ASSUME NEW g \in 1..n
        PROVE  w[g] \in WorkerRecords /\ Works(archive, table, o, b[g], b[g + 1], w[g])
    <3>1. b[g] \in 0..Len(table) /\ b[g + 1] \in 0..Len(table) /\ b[g] <= b[g + 1]
      BY <2>2, <2>4
    <3>2. Acc(table)[b[g]] \in Nat
      <4>1. Acc(table) \in [0..Len(table) -> Nat]
        BY <1>2, AccFacts
      <4> QED BY <3>1, <4>1, Zenon
    <3>3. w[g] = [at |-> b[g], off |-> Acc(table)[b[g]], err |-> None]
      BY Zenon DEF RegionStart
    <3>4. w[g].at = b[g] /\ w[g].off = Acc(table)[b[g]] /\ w[g].err = None
      BY <3>3
    <3>5. w[g] \in WorkerRecords
      BY <3>1, <3>2, <3>3 DEF WorkerRecords
    <3>6. b[g] \in b[g]..b[g + 1] /\ (b[g] + 1)..b[g] = {}
      BY <3>1
    <3> HIDE DEF w
    <3> QED BY <3>4, <3>5, <3>6, Zenon DEF Works
  <2>6. o \in [1..Acc(table)[Len(table)] -> Byte]
    BY <1>4, Bytes
  <2>7. w \in [1..n -> WorkerRecords]
    <3>1. w = [g \in 1..n |-> w[g]]
      OBVIOUS
    <3> HIDE DEF w
    <3> QED BY <2>5, <3>1
  <2>8. 0 \in 0..n /\ Joined(b, w, 0)
    <3>1. 1..0 = {} /\ 0 \in 0..n
      BY <2>2
    <3> QED BY <3>1, Zenon DEF Joined
  <2> HIDE DEF w, o
  <2>9. Decodes(archive, table, n, b, o, w, 0)
    BY <2>2, <2>3, <2>5, <2>6, <2>7, <2>8, Zenon DEF Decodes
  <2>10. Decoding'
    BY <1>1, <1>5, <2>1, <2>9, Zenon DEF Decoding
  <2> QED BY <1>1, <2>1, <2>10, StillDecoding
<1> QED
  BY <1>6, <1>7, <1>8, Zenon

(* The groups follow each other.                                           *)
LEMMA GroupsGrow ==
  ASSUME NEW b, NEW n \in Nat, NEW len \in Nat, Grouped(b, n, len),
         NEW g \in 1..(n + 1), NEW h \in 1..(n + 1), g <= h
  PROVE  b[g] <= b[h] /\ b[g] \in 0..len /\ b[h] \in 0..len
<1> DEFINE S == {0} \cup {k \in 1..(n + 1) : g <= k => b[g] <= b[k]}
<1>1. /\ \A k \in 1..(n + 1) : b[k] \in 0..len
      /\ \A k \in 1..n : b[k] <= b[k + 1]
  BY DEF Grouped
<1>2. 0 \in S
  OBVIOUS
<1>3. ASSUME NEW k \in 1..(n + 1), k - 1 \in S
      PROVE  k \in S
  <2>1. CASE g = k \/ ~(g <= k)
    <3>1. b[g] \in 0..len
      BY <1>1
    <3>2. g <= k => b[g] <= b[k]
      BY <2>1, <3>1
    <3> QED BY <3>2
  <2>2. CASE g <= k /\ g # k
    <3>1. k - 1 \in 1..n /\ k - 1 \in 1..(n + 1) /\ g <= k - 1 /\ (k - 1) + 1 = k /\ k - 1 # 0
      BY <2>2
    <3>2. b[k - 1] <= b[k] /\ b[g] <= b[k - 1]
      BY <1>1, <1>3, <3>1
    <3>3. b[g] \in 0..len /\ b[k] \in 0..len /\ b[k - 1] \in 0..len
      BY <1>1, <3>1
    <3>4. b[g] <= b[k]
      BY <3>2, <3>3
    <3> QED BY <3>4
  <2> QED BY <2>1, <2>2
<1>4. 0..(n + 1) \subseteq S
  <2>1. n + 1 \in Nat
    OBVIOUS
  <2> HIDE DEF S
  <2> QED BY <1>2, <1>3, <2>1, UpTo, Zenon
<1>5. h \in 0..(n + 1) /\ h # 0
  OBVIOUS
<1> QED
  BY <1>1, <1>4, <1>5

(* What a worker copies leaves the other frames where they are.            *)
Copied(o, off, bytes) ==
  [i \in 1..Len(o) |-> IF i - off \in 1..Len(bytes) THEN bytes[i - off] ELSE o[i]]

LEMMA Apart ==
  ASSUME NEW lo \in Nat, NEW n \in Nat, NEW other \in Nat, NEW m \in Nat, NEW len \in Nat,
         NEW k \in 1..n, lo + n <= len, lo + n <= other \/ other + m <= lo
  PROVE  lo + k \in 1..len /\ ~((lo + k) - other \in 1..m)
OBVIOUS

LEMMA OthersKept ==
  ASSUME NEW a \in Seq(Cells), NEW t, Indexed(t), NEW o \in [1..Acc(t)[Len(t)] -> Byte],
         NEW x \in 1..Len(t), SeekFrame(a, t[x]).ok,
         NEW i \in 1..Len(t), i # x, Placed(a, t, o, i)
  PROVE  Placed(a, t, Copied(o, Acc(t)[x - 1], SeekFrame(a, t[x]).bytes), i)
<1> DEFINE A == Acc(t)
           N == Len(t)
           r == SeekFrame(a, t[x])
           s == SeekFrame(a, t[i])
           p == Copied(o, A[x - 1], r.bytes)
<1>1. /\ N \in Nat /\ t[x] \in FrameRecords /\ t[i] \in FrameRecords
      /\ A[x] = A[x - 1] + t[x].decompressed_size
      /\ A[i] = A[i - 1] + t[i].decompressed_size
  BY AccFacts
<1>2. s.ok /\ \A k \in 1..Len(s.bytes) : o[A[i - 1] + k] = s.bytes[k]
  BY Zenon DEF Placed
<1>3. Yields(r, a, t[x]) /\ Yields(s, a, t[i])
  <2>1. ~Fails(r) /\ ~Fails(s)
    BY <1>2, ErrIs, Zenon DEF Fails
  <2> QED BY <1>1, <2>1, SeekFrameIs, Zenon
<1>4. /\ Len(r.bytes) = t[x].decompressed_size /\ Len(s.bytes) = t[i].decompressed_size
      /\ t[x].decompressed_size \in Nat /\ t[i].decompressed_size \in Nat
  BY <1>1, <1>3 DEF Yields, FrameRecords
<1>5. /\ A[x - 1] \in Nat /\ A[x] \in Nat /\ A[i - 1] \in Nat /\ A[i] \in Nat
      /\ A[N] \in Nat /\ A[i] <= A[N] /\ (i < x => A[i] <= A[x - 1]) /\ (x < i => A[x] <= A[i - 1])
  <2>1. /\ x - 1 \in 0..N /\ x \in 0..N /\ i - 1 \in 0..N /\ i \in 0..N /\ N \in 0..N
        /\ i <= N /\ (i < x => i <= x - 1) /\ (x < i => x <= i - 1) /\ x - 1 <= x /\ i - 1 <= i
    BY <1>1
  <2> HIDE DEF A, N
  <2> QED BY <2>1, AccGrows, Zenon DEF A, N
<1>6. Len(o) = A[N]
  BY <1>5
<1> HIDE DEF A, N, r, s
<1>7. ASSUME NEW k \in 1..Len(s.bytes)
      PROVE  p[A[i - 1] + k] = s.bytes[k]
  <2> DEFINE q == A[i - 1] + k
             lo == A[i - 1]
             other == A[x - 1]
             n == Len(s.bytes)
             m == Len(r.bytes)
             len == Len(o)
  <2>1. /\ lo \in Nat /\ other \in Nat /\ n \in Nat /\ m \in Nat /\ len \in Nat
        /\ A[i] = lo + n /\ A[x] = other + m /\ A[i] <= len
    BY <1>1, <1>4, <1>5, <1>6, Zenon
  <2>2. A[i] <= other \/ A[x] <= lo
    <3>1. i < x \/ x < i
      OBVIOUS
    <3> QED BY <1>5, <3>1, Zenon
  <2>3. lo + k \in 1..len /\ ~((lo + k) - other \in 1..m)
    <3>1. k \in 1..n
      OBVIOUS
    <3>2. lo + n <= len /\ (lo + n <= other \/ other + m <= lo)
      BY <2>1, <2>2, Zenon
    <3> HIDE DEF lo, other, n, m, len
    <3> QED BY <2>1, <3>1, <3>2, Apart
  <2>4. o[q] = s.bytes[k]
    BY <1>2, Zenon
  <2>5. p[q] = o[q]
    BY <2>3, Zenon DEF Copied
  <2> QED BY <2>4, <2>5, Zenon
<1> QED
  BY <1>2, <1>7, Zenon DEF Placed, s, A, r

LEMMA OwnPlaced ==
  ASSUME NEW a \in Seq(Cells), NEW t, Indexed(t), NEW o \in [1..Acc(t)[Len(t)] -> Byte],
         NEW x \in 1..Len(t), SeekFrame(a, t[x]).ok
  PROVE  /\ Placed(a, t, Copied(o, Acc(t)[x - 1], SeekFrame(a, t[x]).bytes), x)
         /\ Copied(o, Acc(t)[x - 1], SeekFrame(a, t[x]).bytes) \in [1..Acc(t)[Len(t)] -> Byte]
<1> DEFINE A == Acc(t)
           N == Len(t)
           r == SeekFrame(a, t[x])
           p == Copied(o, A[x - 1], r.bytes)
<1>1. /\ N \in Nat /\ t[x] \in FrameRecords /\ A[x] = A[x - 1] + t[x].decompressed_size
  BY AccFacts
<1>2. r.bytes \in Seq(Byte) /\ Len(r.bytes) = t[x].decompressed_size
  <2>1. ~Fails(r)
    BY ErrIs, Zenon DEF Fails
  <2>2. Yields(r, a, t[x])
    BY <1>1, <2>1, SeekFrameIs, Zenon
  <2> HIDE DEF r
  <2> QED BY <2>2, Zenon DEF Yields
<1>3. A[x - 1] \in Nat /\ A[x] \in Nat /\ A[N] \in Nat /\ A[x] <= A[N]
  <2>1. x - 1 \in 0..N /\ x \in 0..N /\ N \in 0..N /\ x <= N /\ x - 1 <= x
    BY <1>1
  <2> HIDE DEF A, N
  <2> QED BY <2>1, AccGrows, Zenon DEF A, N
<1>4. Len(o) = A[N]
  BY <1>3
<1> HIDE DEF A, N, r
<1>5. ASSUME NEW k \in 1..Len(r.bytes)
      PROVE  p[A[x - 1] + k] = r.bytes[k]
  <2> DEFINE lo == A[x - 1]
             n == Len(r.bytes)
             len == Len(o)
  <2>1. lo \in Nat /\ n \in Nat /\ len \in Nat /\ lo + n <= len
    BY <1>1, <1>2, <1>3, <1>4, Zenon DEF FrameRecords
  <2>2. lo + k \in 1..len /\ (lo + k) - lo = k
    <3>1. k \in 1..n
      OBVIOUS
    <3> HIDE DEF lo, n, len
    <3> QED BY <2>1, <3>1
  <2> QED BY <2>2, Zenon DEF Copied
<1>6. p \in [1..A[N] -> Byte]
  <2> HIDE DEF Byte
  <2>1. \A k \in 1..Len(r.bytes) : r.bytes[k] \in Byte
    BY <1>2, ElementOfSeq
  <2>2. \A k \in 1..A[N] : o[k] \in Byte
    BY DEF A, N
  <2>3. ASSUME NEW i \in 1..A[N]
        PROVE  (IF i - A[x - 1] \in 1..Len(r.bytes) THEN r.bytes[i - A[x - 1]] ELSE o[i]) \in Byte
    BY <2>1, <2>2, Zenon
  <2> QED BY <1>4, <2>3, Zenon DEF Copied
<1> QED
  BY <1>5, <1>6, Zenon DEF Placed, A, N, r

(* A frame of another group is not the one the worker of group g is at.    *)
LEMMA OtherGroups ==
  ASSUME NEW b, NEW n \in Nat, NEW len \in Nat, Grouped(b, n, len), NEW g \in 1..n, NEW h \in 1..n,
         g # h, NEW at \in Nat, b[g] <= at, at < b[g + 1],
         NEW i \in Nat, b[h] < i, i <= b[h + 1]
  PROVE  i # at + 1
<1>1. g \in 1..(n + 1) /\ g + 1 \in 1..(n + 1) /\ h \in 1..(n + 1) /\ h + 1 \in 1..(n + 1)
  OBVIOUS
<1>2. b[g] \in Nat /\ b[g + 1] \in Nat /\ b[h] \in Nat /\ b[h + 1] \in Nat
  BY <1>1 DEF Grouped
<1>3. CASE g < h
  <2>1. g + 1 <= h
    BY <1>3
  <2>2. b[g + 1] <= b[h]
    BY <1>1, <2>1, GroupsGrow
  <2> QED BY <1>2, <2>2
<1>4. CASE h < g
  <2>1. h + 1 <= g
    BY <1>4
  <2>2. b[h + 1] <= b[g]
    BY <1>1, <2>1, GroupsGrow
  <2> QED BY <1>2, <2>2
<1> QED
  BY <1>3, <1>4

(* A step of the worker of group g keeps the others as they are, if what   *)
(* they have placed stays in place.                                        *)
LEMMA OneWorks ==
  ASSUME NEW a, NEW t, Len(t) \in Nat, NEW n, NEW b, NEW o, NEW w, NEW j,
         Decodes(a, t, n, b, o, w, j), NEW g \in 1..n, w[g].err = None, w[g].at # b[g + 1],
         NEW q \in [1..Acc(t)[Len(t)] -> Byte], NEW u \in WorkerRecords,
         Works(a, t, q, b[g], b[g + 1], u),
         \A i \in 1..Len(t) : i # w[g].at + 1 /\ Placed(a, t, o, i) => Placed(a, t, q, i)
  PROVE  Decodes(a, t, n, b, q, [w EXCEPT ![g] = u], j)
<1> DEFINE v == [w EXCEPT ![g] = u]
<1>1. /\ n \in 1..Len(t) /\ Grouped(b, n, Len(t)) /\ w \in [1..n -> WorkerRecords]
      /\ \A h \in 1..n : Works(a, t, o, b[h], b[h + 1], w[h])
      /\ j \in 0..n /\ Joined(b, w, j)
  BY Zenon DEF Decodes
<1>2. v \in [1..n -> WorkerRecords] /\ v[g] = u /\ \A h \in 1..n : h # g => v[h] = w[h]
  <2> HIDE DEF WorkerRecords
  <2> QED BY <1>1
<1> HIDE DEF v
<1>3. \A h \in 1..j : h \in 1..n /\ h # g
  <2>1. g \notin 1..j
    BY <1>1, Zenon DEF Joined
  <2>2. \A h \in 1..j : h \in 1..n
    BY <1>1
  <2> QED BY <2>1, <2>2, Zenon
<1>4. Joined(b, v, j)
  BY <1>1, <1>2, <1>3, Zenon DEF Joined
<1>5. w[g].at \in Nat /\ b[g] <= w[g].at /\ w[g].at < b[g + 1]
  <2>1. w[g].at \in b[g]..b[g + 1] /\ w[g] \in WorkerRecords
    BY <1>1, Zenon DEF Works
  <2>2. w[g].at \in Nat
    BY <2>1 DEF WorkerRecords
  <2>3. b[g + 1] \in Nat
    <3>1. g + 1 \in 1..(n + 1)
      BY <1>1
    <3> QED BY <1>1, <3>1 DEF Grouped
  <2> QED BY <2>1, <2>2, <2>3
<1>6. ASSUME NEW h \in 1..n, h # g
      PROVE  Works(a, t, q, b[h], b[h + 1], v[h])
  <2>1. Works(a, t, o, b[h], b[h + 1], w[h]) /\ v[h] = w[h]
    BY <1>1, <1>2, <1>6, Zenon
  <2>2. ASSUME NEW i \in (b[h] + 1)..w[h].at
        PROVE  Placed(a, t, q, i)
    <3>1. w[h].at \in b[h]..b[h + 1] /\ Placed(a, t, o, i)
      BY <2>1, Zenon DEF Works
    <3>2. b[h] \in 0..Len(t) /\ b[h + 1] \in 0..Len(t)
      <4>1. h \in 1..(n + 1) /\ h + 1 \in 1..(n + 1)
        BY <1>1
      <4> QED BY <1>1, <4>1, Zenon DEF Grouped
    <3>3. i \in Nat /\ i \in 1..Len(t) /\ b[h] < i /\ i <= b[h + 1]
      <4> DEFINE lo == b[h]
                 hi == b[h + 1]
                 at == w[h].at
                 N == Len(t)
      <4>1. at \in lo..hi /\ i \in (lo + 1)..at /\ lo \in 0..N /\ hi \in 0..N /\ N \in Nat
        BY <3>1, <3>2, Zenon
      <4>2. i \in Nat /\ i \in 1..N /\ lo < i /\ i <= hi
        <5> HIDE DEF lo, hi, at, N
        <5> QED BY <4>1
      <4> QED BY <4>2, Zenon
    <3>4. i # w[g].at + 1
      <4>1. n \in Nat
        BY <1>1
      <4> QED BY <1>1, <1>5, <1>6, <3>3, <4>1, OtherGroups
    <3> QED BY <3>1, <3>3, <3>4, Zenon
  <2> QED BY <2>1, <2>2, Zenon DEF Works
<1>7. \A h \in 1..n : Works(a, t, q, b[h], b[h + 1], v[h])
  BY <1>2, <1>6, Zenon
<1> QED
  BY <1>1, <1>2, <1>4, <1>7, Zenon DEF Decodes, v

(* One frame: it is placed, or its error is kept.                          *)
LEMMA FrameDone ==
  ASSUME NEW a \in Seq(Cells), NEW t, Indexed(t), NEW n, NEW b, NEW o, NEW w, NEW j,
         Decodes(a, t, n, b, o, w, j), NEW g \in 1..n, w[g].err = None, w[g].at # b[g + 1]
  PROVE  /\ SeekFrame(a, t[w[g].at + 1]).ok =>
              Decodes(a, t, n, b, Copied(o, w[g].off, SeekFrame(a, t[w[g].at + 1]).bytes),
                      [w EXCEPT ![g] = [at |-> w[g].at + 1,
                                        off |-> w[g].off + t[w[g].at + 1].decompressed_size,
                                        err |-> None]], j)
         /\ ~SeekFrame(a, t[w[g].at + 1]).ok =>
              Decodes(a, t, n, b, o,
                      [w EXCEPT ![g] = [w[g] EXCEPT !.err = SeekFrame(a, t[w[g].at + 1]).err]], j)
<1> DEFINE x == w[g].at + 1
           r == SeekFrame(a, t[x])
           A == Acc(t)
           N == Len(t)
<1>1. /\ n \in 1..N /\ Grouped(b, n, N) /\ w[g] \in WorkerRecords
      /\ o \in [1..A[N] -> Byte]
      /\ Works(a, t, o, b[g], b[g + 1], w[g])
  <2> HIDE DEF WorkerRecords
  <2> QED BY Zenon DEF Decodes
<1>2. /\ N \in Nat /\ A \in [0..N -> Nat] /\ A[N] \in Nat
      /\ \A i \in 1..N : /\ t[i] \in FrameRecords
                         /\ A[i] = A[i - 1] + t[i].decompressed_size
  BY AccFacts
<1>3. b[g] \in 0..N /\ b[g + 1] \in 0..N
  <2>1. g \in 1..(n + 1) /\ g + 1 \in 1..(n + 1)
    BY <1>1, <1>2
  <2> QED BY <1>1, <2>1, Zenon DEF Grouped
<1>4. w[g].at \in Nat /\ w[g].at \in b[g]..b[g + 1]
  <2>1. w[g].at \in Nat
    BY <1>1 DEF WorkerRecords
  <2> QED BY <1>1, <2>1, Zenon DEF Works
<1> DEFINE at == w[g].at
<1> HIDE DEF at
<1>5. /\ x \in 1..N /\ x \in 0..N /\ x - 1 = w[g].at /\ w[g].at < b[g + 1]
      /\ x \in b[g]..b[g + 1]
      /\ \A i \in (b[g] + 1)..x : i = x \/ i \in (b[g] + 1)..w[g].at
  <2> DEFINE lo == b[g]
             hi == b[g + 1]
  <2>1. /\ at \in Nat /\ at \in lo..hi /\ at # hi /\ x = at + 1
        /\ N \in Nat /\ lo \in 0..N /\ hi \in 0..N
    BY <1>2, <1>3, <1>4, Zenon DEF at
  <2> HIDE DEF x, lo, hi, N
  <2>2. /\ x \in 1..N /\ x \in 0..N /\ x - 1 = at /\ at < hi /\ x \in lo..hi
        /\ \A i \in (lo + 1)..x : i = x \/ i \in (lo + 1)..at
    BY <2>1
  <2> QED BY <2>2, Zenon DEF at, lo, hi, N
<1>6. w[g].off = A[x - 1] /\ A[x] = w[g].off + t[x].decompressed_size /\ A[x] \in Nat
  BY <1>1, <1>2, <1>5, Zenon DEF Works
<1> HIDE DEF A, N, r
<1>7. ASSUME r.ok
      PROVE  Decodes(a, t, n, b, Copied(o, w[g].off, r.bytes),
                     [w EXCEPT ![g] = [at |-> x, off |-> w[g].off + t[x].decompressed_size,
                                       err |-> None]], j)
  <2> DEFINE q == Copied(o, A[x - 1], r.bytes)
             u == [at |-> x, off |-> A[x], err |-> None]
  <2> HIDE DEF x
  <2>1. Placed(a, t, q, x) /\ q \in [1..A[N] -> Byte]
    BY <1>1, <1>5, <1>7, OwnPlaced, Zenon DEF A, N, r
  <2>2. \A i \in 1..N : i # x /\ Placed(a, t, o, i) => Placed(a, t, q, i)
    BY <1>1, <1>5, <1>7, OthersKept, Zenon DEF A, N, r
  <2> HIDE DEF q
  <2>3. u \in WorkerRecords /\ u.at = x /\ u.off = A[x] /\ u.err = None
    <3>1. x \in Nat
      BY <1>5
    <3> QED BY <1>6, <3>1 DEF WorkerRecords
  <2> HIDE DEF u
  <2>4. \A i \in (b[g] + 1)..x : Placed(a, t, q, i)
    <3>1. ASSUME NEW i \in (b[g] + 1)..w[g].at
          PROVE  Placed(a, t, q, i)
      <4>1. Placed(a, t, o, i)
        BY <1>1, Zenon DEF Works
      <4>2. i \in 1..N /\ i # x
        <5>1. at \in Nat /\ x = at + 1 /\ i \in (b[g] + 1)..at
          BY <1>4, Zenon DEF at, x
        <5> QED BY <1>2, <1>3, <1>5, <5>1
      <4> QED BY <2>2, <4>1, <4>2, Zenon
    <3> QED BY <1>5, <2>1, <3>1, Zenon
  <2>5. Works(a, t, q, b[g], b[g + 1], u)
    BY <1>5, <2>3, <2>4, Zenon DEF Works, A
  <2>6. Decodes(a, t, n, b, q, [w EXCEPT ![g] = u], j)
    <3> HIDE DEF Byte, WorkerRecords
    <3> QED BY <1>2, <2>1, <2>2, <2>3, <2>5, OneWorks, Zenon DEF A, N, x
  <2> QED BY <1>6, <2>6, Zenon DEF q, u
<1>8. ASSUME ~r.ok
      PROVE  Decodes(a, t, n, b, o, [w EXCEPT ![g] = [w[g] EXCEPT !.err = r.err]], j)
  <2> DEFINE u == [w[g] EXCEPT !.err = r.err]
  <2>1. PICK e \in Errors : r = Err(e)
    <3>1. t[x] \in FrameRecords
      BY <1>2, <1>5, Zenon
    <3>2. Fails(r)
      BY <1>8, <3>1, SeekFrameIs, Zenon DEF Yields, r
    <3> QED BY <3>2, Zenon DEF Fails
  <2>2. r.err = e /\ r = Err(r.err) /\ e # None
    BY <2>1, ErrIs, Constants, Zenon
  <2>3. u \in WorkerRecords /\ u.at = w[g].at /\ u.off = w[g].off /\ u.err = r.err
    BY <1>1, <2>2 DEF WorkerRecords
  <2> HIDE DEF u, x
  <2>4. Works(a, t, o, b[g], b[g + 1], u)
    <3>1. r = SeekFrame(a, t[w[g].at + 1])
      BY DEF r, x
    <3> QED BY <1>1, <1>5, <2>2, <2>3, <3>1, Zenon DEF Works
  <2>5. Decodes(a, t, n, b, o, [w EXCEPT ![g] = u], j)
    <3> HIDE DEF Byte, WorkerRecords
    <3> QED BY <1>1, <1>2, <2>3, <2>4, OneWorks, Zenon DEF A, N
  <2> QED BY <2>5, Zenon DEF u
<1> QED
  BY <1>7, <1>8, Zenon DEF r, x

LEMMA WorkerStep ==
  ASSUME SeekInvariant, NEW g \in 1..jobs, WorkerFrame(g)
  PROVE  SeekInvariant'
<1> DEFINE f == table[worker[g].at + 1]
           r == SeekFrame(archive, f)
<1>1. /\ pc = "decode" /\ ~Finished(g)
      /\ worker' = [worker EXCEPT ![g] = Advanced(worker[g], r, f)]
      /\ out' = IF r.ok THEN Copied(out, worker[g].off, r.bytes) ELSE out
      /\ UNCHANGED <<pc, input, entries, archive, faults, table, jobs, bounds, joined, limit>>
  BY Zenon DEF WorkerFrame, Copied
<1>2. Decoding /\ Indexed(table) /\ archive \in Seq(Cells)
  BY <1>1 DEF SeekInvariant, Opened, Stored
<1>3. Decodes(archive, table, jobs, bounds, out, worker, joined)
  BY <1>2, Zenon DEF Decoding
<1>4. worker[g].err = None /\ worker[g].at # bounds[g + 1]
  BY <1>1, Zenon DEF Finished
<1>5. PICK a, t, n, b, o, w, j :
        a = archive /\ t = table /\ n = jobs /\ b = bounds /\ o = out /\ w = worker /\ j = joined
  OBVIOUS
<1>6. Decodes(a, t, n, b, out', worker', j)
  <2>1. /\ a \in Seq(Cells) /\ Indexed(t) /\ Decodes(a, t, n, b, o, w, j) /\ g \in 1..n
        /\ w[g].err = None /\ w[g].at # b[g + 1]
    BY <1>2, <1>3, <1>4, <1>5, Zenon
  <2> DEFINE h == t[w[g].at + 1]
             s == SeekFrame(a, h)
  <2>2. /\ worker' = [w EXCEPT ![g] = Advanced(w[g], s, h)]
        /\ out' = IF s.ok THEN Copied(o, w[g].off, s.bytes) ELSE o
    BY <1>1, <1>5, Zenon
  <2>3. /\ s.ok => Decodes(a, t, n, b, Copied(o, w[g].off, s.bytes),
                           [w EXCEPT ![g] = [at |-> w[g].at + 1,
                                             off |-> w[g].off + h.decompressed_size,
                                             err |-> None]], j)
        /\ ~s.ok => Decodes(a, t, n, b, o, [w EXCEPT ![g] = [w[g] EXCEPT !.err = s.err]], j)
    BY <2>1, FrameDone, Zenon
  <2> HIDE DEF s, h
  <2> QED BY <2>2, <2>3, Zenon DEF Advanced
<1>7. Decodes(archive, table, jobs, bounds, out, worker, joined)'
  BY <1>1, <1>5, <1>6, Zenon
<1>8. Decoding'
  BY <1>1, <1>2, <1>7, Zenon DEF Decoding
<1> QED
  BY <1>1, <1>8, StillDecoding

LEMMA JoinStep ==
  ASSUME SeekInvariant, Join
  PROVE  SeekInvariant'
<1>1. /\ pc = "decode" /\ joined < jobs /\ ~JoinFailed /\ Finished(joined + 1)
      /\ joined' = joined + 1
      /\ UNCHANGED <<pc, input, entries, archive, faults, table, jobs, bounds, out, worker, limit>>
  BY Zenon DEF Join
<1>2. Decoding
  BY <1>1 DEF SeekInvariant
<1>3. Decodes(archive, table, jobs, bounds, out, worker, joined) /\ Indexed(table)
  BY <1>1, <1>2 DEF Decoding, SeekInvariant, Opened
<1>4. joined \in 0..jobs /\ jobs \in 1..Len(table) /\ Joined(bounds, worker, joined)
  BY <1>3, Zenon DEF Decodes
<1>5. Len(table) \in Nat
  BY <1>3, AccFacts
<1>6. joined + 1 \in 0..jobs /\ joined \in Nat
  BY <1>1, <1>4, <1>5
<1>7. Joined(bounds, worker, joined + 1)
  <2> SUFFICES ASSUME NEW g \in 1..(joined + 1)
               PROVE  /\ worker[g].err # None \/ worker[g].at = bounds[g + 1]
                      /\ g < joined + 1 => worker[g].err = None
    BY Zenon DEF Joined
  <2>1. CASE g = joined + 1
    <3>1. ~(g < joined + 1)
      BY <1>6, <2>1
    <3> QED BY <1>1, <2>1, <3>1, Zenon DEF Finished
  <2>2. CASE g # joined + 1
    <3>1. g \in 1..joined /\ (g < joined \/ g = joined) /\ joined > 0
      BY <1>6, <2>2
    <3> QED BY <1>1, <1>4, <3>1, Zenon DEF Joined, JoinFailed
  <2> QED BY <2>1, <2>2
<1>8. Decodes(archive, table, jobs, bounds, out, worker, joined')
  BY <1>1, <1>3, <1>6, <1>7, Zenon DEF Decodes
<1>9. Decoding'
  BY <1>1, <1>2, <1>8, Zenon DEF Decoding
<1> QED
  BY <1>1, <1>9, StillDecoding

(* Every frame in front of a group belongs to an earlier one.              *)
LEMMA GroupOf ==
  ASSUME NEW b, NEW n \in Nat, NEW len \in Nat, Grouped(b, n, len),
         NEW h \in 1..(n + 1), NEW i \in 1..b[h]
  PROVE  \E g \in 1..(h - 1) : b[g] < i /\ i <= b[g + 1]
<1> DEFINE T == {k \in 1..h : i <= b[k]}
<1>1. b[1] = 0 /\ \A k \in 1..h : b[k] \in Nat
  <2>1. \A k \in 1..h : k \in 1..(n + 1)
    OBVIOUS
  <2> QED BY <2>1 DEF Grouped
<1>2. h \in T
  BY <1>1
<1>3. T \subseteq Nat
  OBVIOUS
<1>4. PICK k \in T : \A y \in T : k <= y
  <2> HIDE DEF T
  <2> QED BY <1>2, <1>3, NatMin, Zenon
<1>5. k # 1
  BY <1>1
<1>6. k - 1 \in 1..(h - 1) /\ (k - 1) + 1 = k /\ k - 1 \in 1..h /\ ~(k <= k - 1)
  BY <1>5
<1>7. k - 1 \notin T
  <2> HIDE DEF T
  <2> QED BY <1>4, <1>6, Zenon
<1>8. b[k - 1] < i
  <2>1. ~(i <= b[k - 1]) /\ b[k - 1] \in Nat
    BY <1>1, <1>6, <1>7, Zenon
  <2> QED BY <1>1, <2>1
<1> QED
  BY <1>6, <1>8, Zenon

(* When the join loop is over: a worker that failed did so at the first    *)
(* frame that fails, for the workers before it have placed all of theirs;  *)
(* and if none failed, every frame is placed.                              *)
LEMMA Ended ==
  ASSUME NEW a \in Seq(Cells), NEW t, Indexed(t), NEW n, NEW b, NEW o, NEW w, NEW j,
         Decodes(a, t, n, b, o, w, j), j = n \/ (j > 0 /\ w[j].err # None)
  PROVE  /\ j > 0 /\ w[j].err # None => Serial(a, t) = Err(w[j].err) /\ w[j].err \in Errors
         /\ ~(j > 0 /\ w[j].err # None) =>
              Serial(a, t) = Ok(o) /\ \A i \in 1..Len(t) : Placed(a, t, o, i)
<1> DEFINE N == Len(t)
<1>1. /\ n \in 1..N /\ Grouped(b, n, N) /\ o \in [1..Acc(t)[N] -> Byte]
      /\ w \in [1..n -> WorkerRecords]
      /\ \A g \in 1..n : Works(a, t, o, b[g], b[g + 1], w[g])
      /\ j \in 0..n /\ Joined(b, w, j)
  BY Zenon DEF Decodes
<1>2. N \in Nat
  BY AccFacts
<1> HIDE DEF N
<1>3. n \in Nat /\ j \in Nat /\ j <= n
  BY <1>1, <1>2
<1>4. \A g \in 1..(n + 1) : b[g] \in 0..N
  BY <1>1 DEF Grouped
<1>5. ASSUME NEW h \in 1..(n + 1), \A g \in 1..(h - 1) : g \in 1..j /\ w[g].err = None,
             NEW i \in 1..b[h]
      PROVE  Placed(a, t, o, i)
  <2>1. PICK g \in 1..(h - 1) : b[g] < i /\ i <= b[g + 1]
    BY <1>1, <1>2, <1>3, GroupOf, Zenon
  <2>2. g \in 1..j /\ w[g].err = None
    BY <1>5, Zenon
  <2>3. w[g].at = b[g + 1]
    BY <1>1, <2>2, Zenon DEF Joined
  <2>4. g \in 1..n
    BY <1>3, <2>2
  <2>5. i \in (b[g] + 1)..b[g + 1]
    <3>1. b[g] \in 0..N /\ b[g + 1] \in 0..N /\ b[h] \in 0..N
      <4>1. g \in 1..(n + 1) /\ g + 1 \in 1..(n + 1)
        BY <1>3, <2>4
      <4> QED BY <1>4, <4>1, Zenon
    <3> QED BY <1>2, <2>1, <3>1
  <2> QED BY <1>1, <2>3, <2>4, <2>5, Zenon DEF Works
<1>6. ASSUME j > 0, w[j].err # None
      PROVE  Serial(a, t) = Err(w[j].err) /\ w[j].err \in Errors
  <2> DEFINE x == w[j].at + 1
             e == w[j].err
  <2>1. j \in 1..n /\ j \in 1..(n + 1) /\ j \in 1..j /\ j + 1 \in 1..(n + 1)
    BY <1>3, <1>6
  <2>2. /\ w[j].at \in b[j]..b[j + 1] /\ w[j].at < b[j + 1] /\ SeekFrame(a, t[x]) = Err(e)
        /\ \A i \in (b[j] + 1)..w[j].at : Placed(a, t, o, i)
    BY <1>1, <1>6, <2>1, Zenon DEF Works
  <2>3. e \in Errors
    <3>1. w[j] \in WorkerRecords
      <4> HIDE DEF WorkerRecords
      <4> QED BY <1>1, <2>1
    <3>2. e \in Errors \cup {None}
      BY <3>1 DEF WorkerRecords
    <3> QED BY <1>6, <3>2
  <2>4. b[j] \in 0..N /\ b[j + 1] \in 0..N
    BY <1>4, <2>1, Zenon
  <2> DEFINE at == w[j].at
             lo == b[j]
             hi == b[j + 1]
  <2>5. x \in 1..N /\ \A i \in 1..(x - 1) : i \in 1..lo \/ i \in (lo + 1)..at
    <3>1. at \in lo..hi /\ at < hi /\ lo \in 0..N /\ hi \in 0..N /\ x = at + 1
      BY <2>2, <2>4, Zenon
    <3> HIDE DEF at, lo, hi, x
    <3> QED BY <1>2, <3>1
  <2>6. \A g \in 1..(j - 1) : g \in 1..j /\ w[g].err = None
    <3>1. \A g \in 1..(j - 1) : g \in 1..j /\ g < j
      BY <1>3
    <3> QED BY <1>1, <3>1, Zenon DEF Joined
  <2>7. \A i \in 1..(x - 1) : Placed(a, t, o, i)
    BY <1>5, <2>1, <2>2, <2>5, <2>6, Zenon
  <2>8. \A i \in 1..(x - 1) : SeekFrame(a, t[i]).ok
    BY <2>7, Zenon DEF Placed
  <2> HIDE DEF x, e
  <2>9. Serial(a, t) = Err(e)
    BY <1>2, <2>2, <2>3, <2>5, <2>8, SerialFails, Zenon DEF N
  <2> QED BY <2>3, <2>9, Zenon DEF e
<1>7. ASSUME ~(j > 0 /\ w[j].err # None)
      PROVE  Serial(a, t) = Ok(o) /\ \A i \in 1..Len(t) : Placed(a, t, o, i)
  <2>1. j = n /\ j > 0 /\ w[j].err = None
    <3>1. j = n
      BY <1>7, Zenon
    <3>2. j > 0
      BY <1>1, <1>2, <3>1
    <3> QED BY <1>7, <3>1, <3>2, Zenon
  <2>2. n + 1 \in 1..(n + 1) /\ (n + 1) - 1 = n
    BY <1>3
  <2>3. \A g \in 1..n : g \in 1..j /\ w[g].err = None
    <3>1. \A g \in 1..n : g < n \/ g = n
      BY <1>3
    <3> QED BY <1>1, <2>1, <3>1, Zenon DEF Joined
  <2>4. b[n + 1] = N
    BY <1>1, Zenon DEF Grouped
  <2>5. \A i \in 1..N : Placed(a, t, o, i)
    <3>1. \A g \in 1..((n + 1) - 1) : g \in 1..j /\ w[g].err = None
      BY <2>2, <2>3, Zenon
    <3>2. \A i \in 1..b[n + 1] : Placed(a, t, o, i)
      BY <1>5, <2>2, <3>1, Zenon
    <3> QED BY <2>4, <3>2, Zenon
  <2>6. Serial(a, t) = Ok(o)
    BY <1>1, <2>5, SerialJoins, Zenon DEF N
  <2> QED BY <2>5, <2>6, Zenon DEF N
<1> QED
  BY <1>6, <1>7, Zenon

LEMMA EndStep ==
  ASSUME SeekInvariant, EndScope
  PROVE  SeekInvariant'
<1>1. /\ pc = "decode" /\ (joined = jobs \/ JoinFailed) /\ pc' = "done" /\ result' = ScopeResult
      /\ UNCHANGED <<input, entries, archive, faults, table, scope>>
  BY Zenon DEF EndScope
<1>2. Decoding /\ table # None /\ Indexed(table) /\ archive \in Seq(Cells) /\ Arguments /\ Stored
  BY <1>1 DEF SeekInvariant, Opened, Stored
<1>3. Decodes(archive, table, jobs, bounds, out, worker, joined)
  BY <1>2, Zenon DEF Decoding
<1>4. Arguments' /\ Stored'
  BY <1>1, <1>2, Zenon DEF Arguments, Stored, input
<1>5. Opened'
  <2>1. Indexed(table)' /\ table' # None
    BY <1>1, <1>2, Zenon
  <2> QED BY <1>1, <2>1 DEF Opened
<1>6. ~(decompressed_size(table) > limit)
  <2>1. decompressed_size(table) \in Nat /\ limit \in Nat /\ decompressed_size(table) <= limit
    BY <1>2, AccFacts DEF Decoding
  <2> QED BY <2>1
<1>7. limit' = limit /\ decompressed_size(table)' = decompressed_size(table)
      /\ Serial(archive, table)' = Serial(archive, table)
  BY <1>1, Zenon DEF scope
<1>8. PICK a, t, n, b, o, w, j :
        a = archive /\ t = table /\ n = jobs /\ b = bounds /\ o = out /\ w = worker /\ j = joined
  OBVIOUS
<1>9. /\ a \in Seq(Cells) /\ Indexed(t) /\ Decodes(a, t, n, b, o, w, j)
      /\ j = n \/ (j > 0 /\ w[j].err # None)
  BY <1>1, <1>2, <1>3, <1>8, Zenon DEF JoinFailed
<1>10. /\ JoinFailed => Serial(a, t) = Err(w[j].err)
       /\ ~JoinFailed => Serial(a, t) = Ok(o) /\ \A i \in 1..Len(t) : Placed(a, t, o, i)
  <2>1. JoinFailed <=> j > 0 /\ w[j].err # None
    BY <1>8, Zenon DEF JoinFailed
  <2>2. /\ j > 0 /\ w[j].err # None => Serial(a, t) = Err(w[j].err)
        /\ ~(j > 0 /\ w[j].err # None) =>
             Serial(a, t) = Ok(o) /\ \A i \in 1..Len(t) : Placed(a, t, o, i)
    BY <1>9, Ended, SMTT(20)
  <2> QED BY <2>1, <2>2, Zenon
<1>11. CASE JoinFailed
  <2>1. result' = Err(worker[joined].err)
    BY <1>1, <1>11, Zenon DEF ScopeResult
  <2>2. result'.ok = FALSE
    BY <2>1, Zenon DEF Err
  <2>3. result' = Serial(archive, table)
    BY <1>8, <1>10, <1>11, <2>1, Zenon
  <2>4. ParallelMatchesSerial' /\ OutputAsIndexed'
    BY <1>6, <1>7, <2>2, <2>3, Zenon DEF ParallelMatchesSerial, OutputAsIndexed
  <2> QED BY <1>1, <1>4, <1>5, <2>4 DEF SeekInvariant
<1>12. CASE ~JoinFailed
  <2>1. result' = Ok(out) /\ result'.bytes = out
    BY <1>1, <1>12, OkIs, Zenon DEF ScopeResult
  <2>2. result' = Serial(archive, table)
    BY <1>8, <1>10, <1>12, <2>1, Zenon
  <2>3. \A i \in 1..Len(t) : Placed(a, t, o, i)
    BY <1>10, <1>12, Zenon
  <2>4. o \in [1..Acc(t)[Len(t)] -> Byte]
    BY <1>9, Zenon DEF Decodes
  <2>5. Len(o) = decompressed_size(t)
    <3>1. Len(t) \in Nat /\ decompressed_size(t) = Acc(t)[Len(t)] /\ Acc(t)[Len(t)] \in Nat
      BY <1>9, AccFacts
    <3> QED BY <2>4, <3>1
  <2>6. ASSUME NEW i \in 1..Len(t)
        PROVE  SubSeq(o, t[i].decompressed_offset + 1,
                      t[i].decompressed_offset + t[i].decompressed_size)
                 = a[t[i].compressed_offset + 1].content
    <3>1. /\ t[i].decompressed_offset = Acc(t)[i - 1]
          /\ t[i].decompressed_offset + t[i].decompressed_size = Acc(t)[i]
      BY <1>9, AccFacts, Zenon
    <3>2. Placed(a, t, o, i)
      BY <2>3, Zenon
    <3>3. /\ SeekFrame(a, t[i]).bytes = a[t[i].compressed_offset + 1].content
          /\ SubSeq(o, Acc(t)[i - 1] + 1, Acc(t)[i]) = SeekFrame(a, t[i]).bytes
      BY <1>9, <2>4, <3>2, PlacedFrame, Zenon
    <3> QED BY <3>1, <3>3, Zenon
  <2>7. ParallelMatchesSerial'
    BY <1>6, <1>7, <2>2, Zenon DEF ParallelMatchesSerial
  <2>8. OutputAsIndexed'
    <3>1. /\ result'.bytes = o /\ table' = t /\ archive' = a
          /\ decompressed_size(table)' = decompressed_size(t)
      BY <1>1, <1>8, <2>1, Zenon
    <3> QED BY <2>5, <2>6, <3>1, Zenon DEF OutputAsIndexed
  <2> QED BY <1>1, <1>4, <1>5, <2>7, <2>8 DEF SeekInvariant
<1> QED
  BY <1>11, <1>12

LEMMA StutterStep ==
  ASSUME SeekInvariant, UNCHANGED vars
  PROVE  SeekInvariant'
<1>1. UNCHANGED <<pc, data, size, checksum, entries, archive, faults, table, jobs, bounds, out,
                  worker, joined, limit, result>>
  BY DEF vars, input, scope
<1>2. Arguments' /\ Stored' /\ Opened' /\ ParallelMatchesSerial' /\ OutputAsIndexed'
  BY <1>1, Zenon
  DEF SeekInvariant, Arguments, Stored, Opened, TableFollows, ParallelMatchesSerial, OutputAsIndexed
<1>3. pc = "decode" => Decoding'
  BY <1>1, Zenon DEF SeekInvariant, Decoding
<1>4. pc' = pc
  BY <1>1
<1> QED
  BY <1>2, <1>3, <1>4, Zenon DEF SeekInvariant

LEMMA SeekNext == SeekInvariant /\ [Next]_vars => SeekInvariant'
<1> SUFFICES ASSUME SeekInvariant, [Next]_vars PROVE SeekInvariant'
  OBVIOUS
<1>1. CASE Main
  BY <1>1, WriteTableStep, ParseStep, JoinStep, EndStep, WriteChunkStep, StartStep, Zenon DEF Main
<1>2. CASE DamageArchive
  BY <1>2, DamageStep
<1>3. CASE \E g \in 1..jobs : WorkerFrame(g)
  BY <1>3, WorkerStep, Zenon
<1>4. CASE UNCHANGED vars
  BY <1>4, StutterStep
<1> QED
  BY <1>1, <1>2, <1>3, <1>4, Zenon DEF Next

-----------------------------------------------------------------------------
(* The theorems.                                                           *)

(* The tables an archive opens with, the bytes of the output and the       *)
(* workers' places are always in the relation above: an inductive          *)
(* invariant of writing, damage, parsing and decoding.                     *)
THEOREM SeekInvariance == Spec => []SeekInvariant
<1>1. SeekInvariant /\ [Next]_vars => SeekInvariant'
  BY SeekNext
<1> QED
  BY <1>1, SeekInit, PTL DEF Spec

(* frame_for_offset and the seek table: for every archive, damaged or not, *)
(* that SeekTable::parse accepts, the frames tile the archive in front of  *)
(* the table and every offset of the output finds its frame.               *)
THEOREM IndexIsSound == Spec => []RandomAccess
<1>1. SeekInvariant => RandomAccess
  <2> SUFFICES ASSUME SeekInvariant, table # None PROVE RandomAccess
    BY Zenon DEF RandomAccess, FramesTile, OffsetFound, SeekInvariant, Opened
  <2>1. Indexed(table)
    BY Zenon DEF SeekInvariant, Opened
  <2>2. Len(table) \in Nat
    BY <2>1, AccFacts
  <2>3. FramesTile
    <3> SUFFICES ASSUME pc = "ready", ~faults.late, NEW i \in 1..Len(table)
                 PROVE  IF i < Len(table)
                        THEN table[i + 1].compressed_offset
                               = table[i].compressed_offset + table[i].compressed_size
                        ELSE archive[table[i].compressed_offset + table[i].compressed_size + 1]
                               = SkippableMagic
      BY Zenon DEF FramesTile
    <3>1. table[i].compressed_offset + table[i].compressed_size = CompOff(table)[i]
      BY <2>1, CompFacts, Zenon
    <3>2. CASE i < Len(table)
      <4>1. i + 1 \in 1..Len(table) /\ (i + 1) - 1 = i
        BY <2>2, <3>2
      <4>2. table[i + 1].compressed_offset = CompOff(table)[(i + 1) - 1]
        BY <2>1, <4>1, CompFacts, Zenon
      <4> QED BY <3>1, <3>2, <4>1, <4>2, Zenon
    <3>3. CASE ~(i < Len(table))
      <4>1. i = Len(table)
        BY <2>2, <3>3
      <4>2. TableFollows
        BY Zenon DEF SeekInvariant, Opened
      <4> QED BY <3>1, <3>3, <4>1, <4>2, Zenon DEF TableFollows
    <3> QED BY <3>2, <3>3, Zenon
  <2>4. OffsetFound
    <3> SUFFICES ASSUME NEW offset \in 0..(decompressed_size(table) + 1)
                 PROVE  LET i == frame_for_offset(table, offset)
                        IN  IF offset >= decompressed_size(table) THEN i = None
                            ELSE /\ i # None
                                 /\ table[i].decompressed_offset <= offset
                                 /\ offset < table[i].decompressed_offset
                                               + table[i].decompressed_size
      BY Zenon DEF OffsetFound
    <3>1. offset \in Nat
      BY <2>1, AccFacts
    <3>2. \A i \in 1..Len(table) : i # None
      BY <2>2, Constants
    <3> QED BY <2>1, <3>1, <3>2, OffsetHasFrame, Zenon
  <2> QED BY <2>3, <2>4, Zenon DEF RandomAccess
<1> QED
  BY <1>1, SeekInvariance, PTL

(* decompress_seekable_parallel_capped: for every archive, however it was  *)
(* damaged before or after its table was read, every number of threads and *)
(* every schedule of theirs, the result is that of the serial decode, the  *)
(* bytes are where the table says, and no worker leaves its group.         *)
THEOREM ParallelIsSerial == Spec => []ParallelDecode
<1>1. SeekInvariant => ParallelDecode
  <2> SUFFICES ASSUME SeekInvariant, pc = "decode" PROVE WorkersInside
    BY Zenon DEF ParallelDecode, SeekInvariant, WorkersInside
  <2>1. Decoding /\ Indexed(table)
    BY DEF SeekInvariant, Opened
  <2>2. /\ jobs \in 1..Len(table) /\ Grouped(bounds, jobs, Len(table)) /\ joined \in 0..jobs
        /\ out \in [1..Acc(table)[Len(table)] -> Byte]
        /\ \A g \in 1..jobs :
             Works(archive, table, out, bounds[g], bounds[g + 1], worker[g])
    BY <2>1, Zenon DEF Decoding, Decodes
  <2>3. /\ Len(table) \in Nat /\ decompressed_size(table) = Acc(table)[Len(table)]
        /\ decompressed_size(table) \in Nat
    BY <2>1, AccFacts
  <2>4. joined <= jobs
    BY <2>2, <2>3
  <2>5. ASSUME NEW g \in 1..jobs
        PROVE  /\ worker[g].at \in bounds[g]..bounds[g + 1]
               /\ worker[g].off = RegionStart(table, [bounds EXCEPT ![g] = worker[g].at], g)
    <3>1. worker[g].at \in bounds[g]..bounds[g + 1] /\ worker[g].off = Acc(table)[worker[g].at]
      BY <2>2, Zenon DEF Works
    <3>2. [bounds EXCEPT ![g] = worker[g].at][g] = worker[g].at
      <4>1. g \in 1..(jobs + 1)
        BY <2>2, <2>3
      <4>2. bounds \in [1..(jobs + 1) -> 0..Len(table)]
        BY <2>2, Zenon DEF Grouped
      <4> QED BY <4>1, <4>2
    <3> QED BY <3>1, <3>2, Zenon DEF RegionStart
  <2>6. Len(out) = decompressed_size(table) /\ Len(out) <= limit
    <3>1. decompressed_size(table) <= limit
      BY <2>1, Zenon DEF Decoding
    <3>2. Len(out) = decompressed_size(table)
      BY <2>2, <2>3
    <3> QED BY <3>1, <3>2, Zenon
  <2> QED BY <2>4, <2>5, <2>6, Zenon DEF WorkersInside
<1> QED
  BY <1>1, SeekInvariance, PTL

-----------------------------------------------------------------------------
(* What compress_seekable writes.                                          *)

(* Sums of the same numbers are the same, and sums grow.                   *)
LEMMA SumsSame ==
  ASSUME NEW s, Len(s) \in Nat, \A i \in 1..Len(s) : s[i] \in Nat,
         NEW u, Len(u) \in Nat, \A i \in 1..Len(u) : u[i] \in Nat,
         NEW n \in Nat, n <= Len(s), n <= Len(u), \A i \in 1..n : s[i] = u[i]
  PROVE  \A i \in 0..n : Sums(s)[i] = Sums(u)[i]
<1> DEFINE S == {i \in 0..n : Sums(s)[i] = Sums(u)[i]}
<1>1. /\ Sums(s)[0] = 0 /\ \A i \in 1..Len(s) : Sums(s)[i] = Sums(s)[i - 1] + s[i]
      /\ Sums(u)[0] = 0 /\ \A i \in 1..Len(u) : Sums(u)[i] = Sums(u)[i - 1] + u[i]
  BY SumsAre
<1>2. 0 \in S /\ \A i \in 1..n : i \in 0..n /\ i \in 1..Len(s) /\ i \in 1..Len(u)
  BY <1>1
<1>3. \A i \in 1..n : i - 1 \in S => i \in S
  BY <1>1, <1>2, Zenon
<1>4. 0..n \subseteq S
  <2> HIDE DEF S
  <2> QED BY <1>2, <1>3, UpTo, Zenon
<1> QED BY <1>4, Zenon

LEMMA SumsGrow ==
  ASSUME NEW s, Len(s) \in Nat, \A i \in 1..Len(s) : s[i] \in Nat,
         NEW i \in 0..Len(s), NEW j \in 0..Len(s), i <= j
  PROVE  Sums(s)[i] <= Sums(s)[j] /\ Sums(s)[i] \in Nat /\ Sums(s)[j] \in Nat
<1> DEFINE A == Sums(s)
           N == Len(s)
           S == {n \in 0..N : i <= n => A[i] <= A[n]}
<1>1. A \in [0..N -> Nat] /\ \A n \in 1..N : A[n] = A[n - 1] + s[n]
  BY SumsAre
<1>2. A[i] \in Nat /\ A[j] \in Nat
  BY <1>1
<1> HIDE DEF A, N
<1>3. 0 \in S
  BY <1>2 DEF N
<1>4. ASSUME NEW n \in 1..N, n - 1 \in S
      PROVE  n \in S
  <2>1. n \in 0..N /\ n - 1 \in 0..N
    BY DEF N
  <2>2. A[n - 1] \in Nat /\ s[n] \in Nat /\ A[n] = A[n - 1] + s[n]
    BY <1>1, <2>1, Zenon DEF N
  <2>3. A[n - 1] <= A[n] /\ A[n] \in Nat
    BY <2>2
  <2>4. CASE i = n
    BY <1>2, <2>1, <2>4
  <2>5. CASE i # n
    <3>1. i <= n => i <= n - 1
      BY <2>5
    <3> QED BY <1>2, <1>4, <2>1, <2>2, <2>3, <3>1
  <2> QED BY <2>4, <2>5
<1>5. 0..N \subseteq S
  <2> HIDE DEF S
  <2> QED BY <1>3, <1>4, UpTo, Zenon DEF N
<1> QED BY <1>2, <1>5 DEF A, N

(* Where the frames and the chunks of the entries begin and end.           *)
CSum(e) == Sums([i \in 1..Len(e) |-> e[i].cs])
DSum(e) == Sums([i \in 1..Len(e) |-> e[i].ds])

LEMMA EntrySums ==
  ASSUME NEW e \in Seq(EntryRecords)
  PROVE  /\ Len(e) \in Nat
         /\ CSum(e) \in [0..Len(e) -> Nat] /\ CSum(e)[0] = 0
         /\ DSum(e) \in [0..Len(e) -> Nat] /\ DSum(e)[0] = 0
         /\ \A i \in 1..Len(e) :
              /\ e[i] \in EntryRecords /\ e[i].cs \in Nat /\ e[i].ds \in Nat /\ e[i].ck \in Nat
              /\ CSum(e)[i] = CSum(e)[i - 1] + e[i].cs
              /\ DSum(e)[i] = DSum(e)[i - 1] + e[i].ds
         /\ \A i \in 0..Len(e), j \in 0..Len(e) :
              i <= j => CSum(e)[i] <= CSum(e)[j] /\ DSum(e)[i] <= DSum(e)[j]
<1> DEFINE N == Len(e)
           c == [i \in 1..N |-> e[i].cs]
           d == [i \in 1..N |-> e[i].ds]
<1>1. N \in Nat /\ \A i \in 1..N : e[i] \in EntryRecords
  <2> HIDE DEF EntryRecords
  <2> QED BY ElementOfSeq
<1>2. \A i \in 1..N : e[i].cs \in Nat /\ e[i].ds \in Nat /\ e[i].ck \in Nat
  <2>1. \A x \in EntryRecords : x.cs \in Nat /\ x.ds \in Nat /\ x.ck \in Nat
    BY DEF EntryRecords
  <2> QED BY <1>1, <2>1, Zenon
<1> HIDE DEF N
<1>3. /\ Len(c) = N /\ (\A i \in 1..Len(c) : c[i] \in Nat) /\ \A i \in 1..N : c[i] = e[i].cs
      /\ Len(d) = N /\ (\A i \in 1..Len(d) : d[i] \in Nat) /\ \A i \in 1..N : d[i] = e[i].ds
  BY <1>1, <1>2
<1>4. CSum(e) = Sums(c) /\ DSum(e) = Sums(d)
  BY Zenon DEF CSum, DSum, N
<1> HIDE DEF c, d
<1>5. /\ Sums(c) \in [0..Len(c) -> Nat] /\ Sums(c)[0] = 0
      /\ \A i \in 1..Len(c) : Sums(c)[i] = Sums(c)[i - 1] + c[i]
  BY <1>1, <1>3, SumsAre
<1>6. /\ Sums(d) \in [0..Len(d) -> Nat] /\ Sums(d)[0] = 0
      /\ \A i \in 1..Len(d) : Sums(d)[i] = Sums(d)[i - 1] + d[i]
  BY <1>1, <1>3, SumsAre
<1>7. \A i \in 0..N, j \in 0..N : i <= j => Sums(c)[i] <= Sums(c)[j]
  <2>1. Len(c) \in Nat /\ Len(c) = N
    BY <1>1, <1>3, Zenon
  <2> QED BY <1>3, <2>1, SumsGrow, Zenon
<1>8. \A i \in 0..N, j \in 0..N : i <= j => Sums(d)[i] <= Sums(d)[j]
  <2>1. Len(d) \in Nat /\ Len(d) = N
    BY <1>1, <1>3, Zenon
  <2> QED BY <1>3, <2>1, SumsGrow, Zenon
<1> QED BY <1>1, <1>2, <1>3, <1>4, <1>5, <1>6, <1>7, <1>8, Zenon DEF N

(* One more entry.                                                         *)
LEMMA OneMoreEntry ==
  ASSUME NEW e \in Seq(EntryRecords), NEW x \in EntryRecords
  PROVE  /\ Append(e, x) \in Seq(EntryRecords) /\ Len(Append(e, x)) = Len(e) + 1
         /\ Append(e, x)[Len(e) + 1] = x /\ \A i \in 1..Len(e) : Append(e, x)[i] = e[i]
         /\ \A i \in 0..Len(e) : CSum(Append(e, x))[i] = CSum(e)[i]
         /\ \A i \in 0..Len(e) : DSum(Append(e, x))[i] = DSum(e)[i]
         /\ CSum(Append(e, x))[Len(e) + 1] = CSum(e)[Len(e)] + x.cs
         /\ DSum(Append(e, x))[Len(e) + 1] = DSum(e)[Len(e)] + x.ds
<1> DEFINE f == Append(e, x)
           N == Len(e)
           ce == [i \in 1..N |-> e[i].cs]
           de == [i \in 1..N |-> e[i].ds]
           cf == [i \in 1..Len(f) |-> f[i].cs]
           df == [i \in 1..Len(f) |-> f[i].ds]
<1>1. /\ N \in Nat /\ f \in Seq(EntryRecords) /\ Len(f) = N + 1 /\ f[N + 1] = x
      /\ \A i \in 1..N : f[i] = e[i]
  <2> HIDE DEF EntryRecords
  <2> QED BY AppendProperties
<1>2. /\ \A i \in 1..N : e[i].cs \in Nat /\ e[i].ds \in Nat
      /\ \A i \in 1..Len(f) : f[i].cs \in Nat /\ f[i].ds \in Nat
  BY <1>1, EntrySums, Zenon
<1> HIDE DEF N
<1>3. /\ \A i \in 1..N : i \in 1..Len(f)
      /\ N <= Len(f) /\ N <= N /\ Len(f) \in Nat /\ N + 1 \in 1..Len(f) /\ (N + 1) - 1 = N
  BY <1>1
<1>4. /\ Len(ce) = N /\ (\A i \in 1..Len(ce) : ce[i] \in Nat) /\ Len(cf) = Len(f)
      /\ (\A i \in 1..Len(cf) : cf[i] \in Nat) /\ \A i \in 1..N : ce[i] = cf[i]
  BY <1>1, <1>2, <1>3
<1>5. /\ Len(de) = N /\ (\A i \in 1..Len(de) : de[i] \in Nat) /\ Len(df) = Len(f)
      /\ (\A i \in 1..Len(df) : df[i] \in Nat) /\ \A i \in 1..N : de[i] = df[i]
  BY <1>1, <1>2, <1>3
<1>6. CSum(e) = Sums(ce) /\ DSum(e) = Sums(de) /\ CSum(f) = Sums(cf) /\ DSum(f) = Sums(df)
  BY Zenon DEF CSum, DSum, N
<1> HIDE DEF ce, de, cf, df, f
<1>7. \A i \in 0..N : Sums(ce)[i] = Sums(cf)[i]
  <2>1. /\ Len(ce) \in Nat /\ Len(cf) \in Nat /\ N \in Nat
        /\ N <= Len(ce) /\ N <= Len(cf)
        /\ (\A i \in 1..Len(ce) : ce[i] \in Nat) /\ (\A i \in 1..Len(cf) : cf[i] \in Nat)
        /\ \A i \in 1..N : ce[i] = cf[i]
    BY <1>1, <1>3, <1>4, Zenon
  <2> QED BY ONLY <2>1, SumsSame, Zenon
<1>8. \A i \in 0..N : Sums(de)[i] = Sums(df)[i]
  <2>1. /\ Len(de) \in Nat /\ Len(df) \in Nat /\ N \in Nat
        /\ N <= Len(de) /\ N <= Len(df)
        /\ (\A i \in 1..Len(de) : de[i] \in Nat) /\ (\A i \in 1..Len(df) : df[i] \in Nat)
        /\ \A i \in 1..N : de[i] = df[i]
    BY <1>1, <1>3, <1>5, Zenon
  <2> QED BY ONLY <2>1, SumsSame, Zenon
<1>9. /\ CSum(f)[N + 1] = CSum(f)[N] + x.cs /\ DSum(f)[N + 1] = DSum(f)[N] + x.ds
  BY <1>1, <1>3, EntrySums, Zenon
<1>10. N \in 0..N
  BY <1>1
<1> QED BY <1>1, <1>6, <1>7, <1>8, <1>9, <1>10, Zenon DEF N, f

(* The entries of the chunks of input d, as far as it was written.         *)
Chunk(d, e, i) == SubSeq(d, DSum(e)[i - 1] + 1, DSum(e)[i])
Chunked(d, fs, ck, e) ==
  /\ e \in Seq(EntryRecords) /\ DSum(e)[Len(e)] <= Len(d)
  /\ \A i \in 1..Len(e) :
       /\ e[i].cs # 0 /\ e[i].ds \in 1..fs /\ (e[i].ds = fs \/ DSum(e)[i] = Len(d))
       /\ e[i].ck = IF ck THEN xxh64(Chunk(d, e, i)) ELSE 0

(* The frames that decode to them.                                         *)
Framed(a, d, e) ==
  \A i \in 1..Len(e) : a[CSum(e)[i - 1] + 1] = Cell("frame", e[i].cs, Chunk(d, e, i))

LEMMA FrameAppended ==
  ASSUME NEW a \in Seq(Cells), NEW chunk \in Seq(Byte), NEW len \in Nat \ {0}
  PROVE  /\ a \o compress(chunk, len) \in Seq(Cells)
         /\ Len(a \o compress(chunk, len)) = Len(a) + len
         /\ \A i \in 1..Len(a) : (a \o compress(chunk, len))[i] = a[i]
         /\ (a \o compress(chunk, len))[Len(a) + 1] = Cell("frame", len, chunk)
<1> DEFINE z == compress(chunk, len)
<1>0. z \in Seq(Cells)
  BY FrameCells, Zenon
<1>1. Len(z) = len /\ 1 \in 1..Len(z) /\ z[1] = Cell("frame", len, chunk)
  <2>1. 1 \in 1..len
    OBVIOUS
  <2> QED BY <2>1 DEF compress
<1> HIDE DEF z
<1>2. /\ a \o z \in Seq(Cells) /\ Len(a \o z) = Len(a) + Len(z)
      /\ \A i \in 1..Len(a) : (a \o z)[i] = a[i]
      /\ \A i \in 1..Len(z) : (a \o z)[Len(a) + i] = z[i]
  BY <1>0, ConcatAt, SMT
<1> QED BY <1>1, <1>2, Zenon DEF z

(* The entry x of the next chunk.                                          *)
NextChunk(d, fs, ck, e, x, chunk) ==
  /\ x \in EntryRecords /\ chunk \in Seq(Byte) /\ x.cs # 0 /\ x.ds \in 1..fs
  /\ chunk = SubSeq(d, DSum(e)[Len(e)] + 1, DSum(e)[Len(e)] + x.ds)
  /\ DSum(e)[Len(e)] + x.ds <= Len(d)
  /\ x.ds = fs \/ DSum(e)[Len(e)] + x.ds = Len(d)
  /\ x.ck = IF ck THEN xxh64(chunk) ELSE 0

(* The entries e and the archive a hold the same chunks.                   *)
Writing(a, d, fs, ck, e) ==
  /\ a \in Seq(Cells) /\ Chunked(d, fs, ck, e) /\ Framed(a, d, e) /\ Len(a) = CSum(e)[Len(e)]

LEMMA ChunkWritten ==
  ASSUME NEW d, NEW fs, NEW ck, NEW e, NEW a, Writing(a, d, fs, ck, e),
         NEW x, NEW chunk, NextChunk(d, fs, ck, e, x, chunk)
  PROVE  /\ Chunked(d, fs, ck, Append(e, x))
         /\ Framed(a \o compress(chunk, x.cs), d, Append(e, x))
         /\ Len(a \o compress(chunk, x.cs)) = CSum(Append(e, x))[Len(Append(e, x))]
<1> DEFINE N == Len(e)
           f == Append(e, x)
           b == a \o compress(chunk, x.cs)
           A == CSum(e)
<1>0. /\ a \in Seq(Cells) /\ Chunked(d, fs, ck, e) /\ Framed(a, d, e) /\ Len(a) = CSum(e)[Len(e)]
      /\ x \in EntryRecords /\ chunk \in Seq(Byte) /\ x.cs # 0 /\ x.ds \in 1..fs
      /\ chunk = SubSeq(d, DSum(e)[Len(e)] + 1, DSum(e)[Len(e)] + x.ds)
      /\ DSum(e)[Len(e)] + x.ds <= Len(d)
      /\ x.ds = fs \/ DSum(e)[Len(e)] + x.ds = Len(d)
      /\ x.ck = IF ck THEN xxh64(chunk) ELSE 0
  BY Zenon DEF Writing, NextChunk
<1>1. /\ e \in Seq(EntryRecords) /\ DSum(e)[N] <= Len(d)
      /\ \A i \in 1..N :
           /\ e[i].cs # 0 /\ e[i].ds \in 1..fs /\ (e[i].ds = fs \/ DSum(e)[i] = Len(d))
           /\ e[i].ck = IF ck THEN xxh64(Chunk(d, e, i)) ELSE 0
  BY <1>0, Zenon DEF Chunked
<1>2. /\ N \in Nat /\ A \in [0..N -> Nat]
      /\ \A i \in 1..N : e[i].cs \in Nat /\ A[i] = A[i - 1] + e[i].cs
      /\ \A i \in 0..N, j \in 0..N : i <= j => A[i] <= A[j]
  BY <1>1, EntrySums, Zenon
<1>3. /\ f \in Seq(EntryRecords) /\ Len(f) = N + 1 /\ f[N + 1] = x
      /\ \A i \in 1..N : f[i] = e[i]
      /\ \A i \in 0..N : CSum(f)[i] = A[i]
      /\ \A i \in 0..N : DSum(f)[i] = DSum(e)[i]
      /\ CSum(f)[N + 1] = A[N] + x.cs /\ DSum(f)[N + 1] = DSum(e)[N] + x.ds
  BY ONLY <1>0, <1>1, OneMoreEntry, SMT
<1>4. x.cs \in Nat
  BY <1>0 DEF EntryRecords
<1> HIDE DEF N, f, A
<1>6. /\ \A i \in 1..(N + 1) : i = N + 1 \/ i \in 1..N
      /\ \A i \in 1..N : i \in 0..N /\ i - 1 \in 0..N /\ i <= N
      /\ N \in 0..N /\ (N + 1) - 1 = N
  BY <1>2
<1>7. /\ \A i \in 1..N : Chunk(d, f, i) = Chunk(d, e, i)
      /\ Chunk(d, f, N + 1) = chunk
  BY <1>0, <1>3, <1>6, Zenon DEF Chunk, N
<1>8. Chunked(d, fs, ck, f)
  <2>1. ASSUME NEW i \in 1..Len(f)
        PROVE  /\ f[i].cs # 0 /\ f[i].ds \in 1..fs /\ (f[i].ds = fs \/ DSum(f)[i] = Len(d))
               /\ f[i].ck = IF ck THEN xxh64(Chunk(d, f, i)) ELSE 0
    <3>1. CASE i = N + 1
      BY <1>0, <1>3, <1>7, <3>1, Zenon DEF N
    <3>2. CASE i \in 1..N
      BY <1>1, <1>3, <1>6, <1>7, <3>2, Zenon
    <3> QED BY <1>3, <1>6, <3>1, <3>2, Zenon
  <2>2. DSum(f)[Len(f)] <= Len(d)
    BY <1>0, <1>3, Zenon DEF N
  <2> QED BY <1>3, <2>1, <2>2, Zenon DEF Chunked
<1>9. /\ Len(b) = Len(a) + x.cs /\ b[Len(a) + 1] = Cell("frame", x.cs, chunk)
      /\ \A i \in 1..Len(a) : b[i] = a[i]
  <2>1. x.cs \in Nat \ {0}
    BY <1>0, <1>4
  <2> QED BY <1>0, <2>1, FrameAppended, Zenon
<1> HIDE DEF b
<1>10. Len(a) = A[N] /\ A[N] \in Nat
  BY <1>0, <1>2, <1>6, Zenon DEF N, A
<1>11. Framed(b, d, f)
  <2>1. ASSUME NEW i \in 1..N
        PROVE  b[A[i - 1] + 1] = a[A[i - 1] + 1]
    <3>1. /\ A[i - 1] \in Nat /\ e[i].cs \in Nat /\ e[i].cs # 0 /\ A[i] = A[i - 1] + e[i].cs
          /\ A[i] <= A[N]
      <4>1. i \in 0..N /\ i - 1 \in 0..N /\ i <= N /\ N \in 0..N
        BY <1>6, Zenon
      <4>2. A[i - 1] \in Nat
        BY <1>2, <4>1, Zenon
      <4>3. A[i] <= A[N]
        BY <1>2, <4>1, Zenon
      <4>4. e[i].cs \in Nat /\ A[i] = A[i - 1] + e[i].cs
        BY <1>2, Zenon
      <4>5. e[i].cs # 0
        BY <1>1, Zenon
      <4> QED BY <4>2, <4>3, <4>4, <4>5, Zenon
    <3> DEFINE p == A[i - 1]
               k == p + 1
               l == Len(a)
               c == e[i].cs
    <3>2. k \in 1..l
      <4>1. p \in Nat /\ c \in Nat /\ c # 0 /\ p + c <= l /\ l \in Nat
        BY <1>10, <3>1, Zenon
      <4> HIDE DEF p, l, c
      <4> QED BY <4>1
    <3> HIDE DEF k, l
    <3> QED BY <1>9, <3>2, Zenon DEF k, l
  <2>2. b[A[N] + 1] = Cell("frame", x.cs, chunk)
    BY <1>9, <1>10, Zenon
  <2>3. ASSUME NEW i \in 1..Len(f)
        PROVE  b[CSum(f)[i - 1] + 1] = Cell("frame", f[i].cs, Chunk(d, f, i))
    <3>1. CASE i = N + 1
      BY <1>3, <1>6, <1>7, <2>2, <3>1, Zenon
    <3>2. CASE i \in 1..N
      <4>1. a[A[i - 1] + 1] = Cell("frame", e[i].cs, Chunk(d, e, i))
        BY <1>0, <3>2, Zenon DEF Framed, A, N
      <4> QED BY <1>3, <1>6, <1>7, <2>1, <3>2, <4>1, Zenon
    <3> QED BY <1>3, <1>6, <3>1, <3>2, Zenon
  <2> QED BY <2>3, Zenon DEF Framed
<1>12. Len(b) = CSum(f)[Len(f)]
  BY <1>3, <1>9, <1>10, Zenon
<1> QED BY <1>8, <1>11, <1>12, Zenon DEF b, f

-----------------------------------------------------------------------------
(* The table of an archive as written.                                     *)

(* Rows of m cells in a row: where a cell of a row is.                     *)
LEMMA CellOfRow ==
  ASSUME NEW m \in {2, 3}, NEW j \in Nat \ {0}, NEW i \in Nat, j <= i, NEW k \in 1..m
  PROVE  (j - 1) * m + k \in 1..(i * m) /\ i * m \in Nat /\ (j - 1) * m + m = j * m
<1>1. CASE m = 2
  BY <1>1
<1>2. CASE m = 3
  BY <1>2
<1> QED BY <1>1, <1>2

Rows(s, m) == \A i \in 1..Len(s) : Len(s[i]) = m
InRows(f, s, m) ==
  /\ Len(f) = Len(s) * m
  /\ \A i \in 1..Len(s), k \in 1..m : f[(i - 1) * m + k] = s[i][k]

LEMMA RowsAt ==
  ASSUME NEW S, NEW s \in Seq(Seq(S)), NEW m \in {2, 3}, Rows(s, m)
  PROVE  FlattenSeq(s) \in Seq(S) /\ InRows(FlattenSeq(s), s, m)
<1> DEFINE N == Len(s)
<1>1. PICK w \in [0..N -> Seq(S)] : Joins(w, s)
  BY JoinsExist
<1>2. FlattenSeq(s) = w[N]
  BY <1>1, FlattenIs, Zenon
<1>3. N \in Nat /\ \A i \in 1..N : s[i] \in Seq(S)
  BY ElementOfSeq
<1>4. w[0] = <<>> /\ \A i \in 1..N : w[i] = w[i - 1] \o s[i]
  BY <1>1, Zenon DEF Joins
<1> HIDE DEF N
<1> DEFINE Fits(i) == /\ Len(w[i]) = i * m
                      /\ \A j \in 1..i, k \in 1..m : w[i][(j - 1) * m + k] = s[j][k]
           T == {i \in 0..N : Fits(i)}
<1>5. 0 \in T
  <2>1. Len(<<>>) = 0 /\ 1..0 = {} /\ 0 \in 0..N /\ 0 * m = 0
    BY <1>3
  <2> QED BY <1>4, <2>1, Zenon
<1>6. ASSUME NEW i \in 1..N, i - 1 \in T
      PROVE  i \in T
  <2> DEFINE u == w[i - 1]
             v == s[i]
  <2>1. /\ i - 1 \in 0..N /\ i \in 0..N /\ i \in Nat /\ i - 1 \in Nat /\ i # 0
        /\ \A j \in 1..i : j = i \/ (j \in 1..(i - 1) /\ j <= i - 1 /\ j \in Nat \ {0})
    BY <1>3
  <2>2. u \in Seq(S) /\ v \in Seq(S) /\ w[i] = u \o v
    BY <1>1, <1>3, <1>4, <2>1, Zenon
  <2>3. Fits(i - 1)
    BY <1>6, Zenon
  <2>4. Len(u) = (i - 1) * m /\ Len(v) = m
    <3>1. Len(v) = m
      BY Zenon DEF N, Rows
    <3> QED BY <2>3, <3>1, Zenon
  <2> HIDE DEF u, v
  <2>5. /\ Len(u \o v) = Len(u) + Len(v)
        /\ \A k \in 1..Len(u) : (u \o v)[k] = u[k]
        /\ \A k \in 1..Len(v) : (u \o v)[Len(u) + k] = v[k]
    BY <2>2, ConcatAt, SMT
  <2>6. Len(w[i]) = i * m
    <3>1. (i - 1) * m + m = i * m
      <4>1. 1 \in 1..m
        OBVIOUS
      <4> QED BY <2>1, <4>1, CellOfRow
    <3> QED BY <2>2, <2>4, <2>5, <3>1, Zenon
  <2>7. ASSUME NEW j \in 1..i, NEW k \in 1..m
        PROVE  w[i][(j - 1) * m + k] = s[j][k]
    <3>1. CASE j = i
      BY <2>2, <2>4, <2>5, <3>1, Zenon DEF v
    <3>2. CASE j # i
      <4>1. j \in 1..(i - 1) /\ j <= i - 1 /\ j \in Nat \ {0}
        BY <2>1, <3>2, Zenon
      <4>2. (j - 1) * m + k \in 1..((i - 1) * m)
        BY <2>1, <4>1, CellOfRow
      <4>3. u[(j - 1) * m + k] = s[j][k]
        BY <2>3, <4>1, Zenon DEF u
      <4> QED BY <2>2, <2>4, <2>5, <4>2, <4>3, Zenon
    <3> QED BY <3>1, <3>2, Zenon
  <2> QED BY <2>1, <2>6, <2>7, Zenon
<1>7. 0..N \subseteq T
  <2> HIDE DEF T
  <2> QED BY <1>3, <1>5, <1>6, UpTo, Zenon
<1>8. N \in 0..N /\ Fits(N)
  <2>1. N \in 0..N
    BY <1>3
  <2> QED BY <1>7, <2>1, Zenon
<1>9. w[N] \in Seq(S)
  BY <1>1, <1>8, Zenon
<1> QED BY <1>2, <1>8, <1>9, Zenon DEF N, InRows

(* The table of the entries e behind their frames.                         *)
Tabled(a, e, ck) ==
  LET p == CSum(e)[Len(e)]
      content == Len(e) * EntrySize(ck) + FooterSize
  IN  /\ Len(a) = p + SkippableHeader + content
      /\ a[p + 1] = SkippableMagic /\ a[p + 2].n = content
      /\ \A i \in 1..Len(e) : /\ Field(a, p + SkippableHeader, i, 1, ck) = e[i].cs
                              /\ Field(a, p + SkippableHeader, i, 2, ck) = e[i].ds
                              /\ ck => Field(a, p + SkippableHeader, i, 3, ck) = e[i].ck
      /\ a[Len(a) - 2].n = Len(e) /\ a[Len(a) - 1].n = IF ck THEN 1 ELSE 0
      /\ a[Len(a)] = SeekableMagic

(* write_seek_table: cell by cell.                                         *)
LEMMA TableCellsAt ==
  ASSUME Arguments, Stored
  PROVE  LET m == EntrySize(checksum)
             n == Len(entries)
             T == SeekTableCells
         IN  /\ T \in Seq(Cells) /\ Len(T) = 2 + n * m + 3
             /\ T[1] = SkippableMagic /\ T[2].n = n * m + FooterSize
             /\ \A i \in 1..n : /\ T[2 + ((i - 1) * m + 1)].n = entries[i].cs
                                /\ T[2 + ((i - 1) * m + 2)].n = entries[i].ds
                                /\ checksum => T[2 + ((i - 1) * m + 3)].n = entries[i].ck
             /\ T[(2 + n * m) + 1].n = n /\ T[(2 + n * m) + 2].n = IF checksum THEN 1 ELSE 0
             /\ T[(2 + n * m) + 3] = SeekableMagic
<1> DEFINE m == EntrySize(checksum)
           n == Len(entries)
           s == [i \in 1..n |-> EntryCells(entries[i])]
           content == n * m + FooterSize
           flag == IF checksum THEN 1 ELSE 0
           h == <<SkippableMagic, Word(content)>>
           t == <<Word(n), Word(flag), SeekableMagic>>
           F == FlattenSeq(s)
           u == h \o F
           T == u \o t
<1>1. /\ SkippableMagic \in Cells /\ SeekableMagic \in Cells
      /\ \A x \in Nat : Word(x) \in Cells /\ Word(x).n = x
  <2> HIDE DEF Byte
  <2>1. <<>> \in Seq(Byte)
    OBVIOUS
  <2>2. "skippable_magic" \in Kinds /\ "seekable_magic" \in Kinds /\ "word" \in Kinds
    BY DEF Kinds
  <2> QED BY <2>1, <2>2 DEF SkippableMagic, SeekableMagic, Word, Cell, Cells
<1> HIDE DEF Cells
<1>2. /\ n \in Nat
      /\ \A i \in 1..n : entries[i].cs \in Nat /\ entries[i].ds \in Nat /\ entries[i].ck \in Nat
  BY EntrySums, Zenon DEF Stored
<1>3. m \in {2, 3} /\ (checksum => m = 3) /\ flag \in Nat /\ content \in Nat
  <2>1. m \in {2, 3} /\ (checksum => m = 3) /\ flag \in Nat
    BY DEF EntrySize, Arguments
  <2> HIDE DEF m
  <2>2. n * m \in Nat
    BY <1>2, <2>1
  <2> QED BY <2>1, <2>2 DEF FooterSize
<1>4. ASSUME NEW i \in 1..n
      PROVE  /\ EntryCells(entries[i]) \in Seq(Cells) /\ Len(EntryCells(entries[i])) = m
             /\ EntryCells(entries[i])[1].n = entries[i].cs
             /\ EntryCells(entries[i])[2].n = entries[i].ds
             /\ checksum => EntryCells(entries[i])[3].n = entries[i].ck
  <2> DEFINE x == Word(entries[i].cs)
             y == Word(entries[i].ds)
             z == Word(entries[i].ck)
  <2>1. /\ x \in Cells /\ y \in Cells /\ z \in Cells
        /\ x.n = entries[i].cs /\ y.n = entries[i].ds /\ z.n = entries[i].ck
    BY <1>1, <1>2, Zenon
  <2>2. EntryCells(entries[i]) = <<x, y>> \o IF checksum THEN <<z>> ELSE <<>>
    BY Zenon DEF EntryCells
  <2> HIDE DEF x, y, z
  <2>3. CASE checksum
    <3>0. (IF checksum THEN <<z>> ELSE <<>>) = <<z>>
      BY <2>3, Zenon
    <3>1. EntryCells(entries[i]) = <<x, y, z>>
      <4>1. EntryCells(entries[i]) = <<x, y>> \o <<z>>
        BY <2>2, <3>0, Zenon
      <4> DEFINE p == <<x, y>>
                 q == <<z>>
                 r == <<x, y, z>>
      <4>2. p \in Seq(Cells) /\ Len(p) = 2 /\ p[1] = x /\ p[2] = y
        BY <2>1
      <4>3. q \in Seq(Cells) /\ Len(q) = 1 /\ q[1] = z
        BY <2>1
      <4>4. r \in Seq(Cells) /\ Len(r) = 3 /\ r[1] = x /\ r[2] = y /\ r[3] = z
        BY <2>1
      <4> HIDE DEF p, q, r
      <4>5. /\ Len(r) = Len(p) + Len(q) /\ (\A j \in 1..Len(p) : r[j] = p[j])
            /\ \A j \in 1..Len(q) : r[Len(p) + j] = q[j]
        BY <4>2, <4>3, <4>4
      <4>6. r = p \o q
        BY <4>2, <4>3, <4>4, <4>5, ConcatIs
      <4> QED BY <4>1, <4>6, Zenon DEF p, q, r
    <3>2. m = 3
      BY <1>3, <2>3
    <3> QED BY <2>1, <3>1, <3>2
  <2>4. CASE ~checksum
    <3>0. (IF checksum THEN <<z>> ELSE <<>>) = <<>>
      BY <2>4, Zenon
    <3>1. EntryCells(entries[i]) = <<x, y>>
      <4>1. EntryCells(entries[i]) = <<x, y>> \o <<>>
        BY <2>2, <3>0, Zenon
      <4> QED BY <4>1
    <3>2. m = 2
      BY <2>4 DEF EntrySize
    <3> QED BY <2>1, <2>4, <3>1, <3>2
  <2> QED BY <2>3, <2>4
<1>5. s \in Seq(Seq(Cells)) /\ Len(s) = n /\ \A i \in 1..n : s[i] = EntryCells(entries[i])
  <2>1. s \in [1..n -> Seq(Cells)]
    BY <1>4
  <2> HIDE DEF n
  <2>2. \A i \in 1..n : s[i] = EntryCells(entries[i])
    OBVIOUS
  <2> HIDE DEF s
  <2> QED BY <1>2, <2>1, <2>2
<1> HIDE DEF s, m, n
<1>6. /\ F \in Seq(Cells) /\ Len(F) = n * m
      /\ \A i \in 1..n, k \in 1..m : F[(i - 1) * m + k] = s[i][k]
  <2>1. s \in Seq(Seq(Cells)) /\ m \in {2, 3} /\ Rows(s, m)
    BY <1>3, <1>4, <1>5, Zenon DEF Rows
  <2>2. FlattenSeq(s) \in Seq(Cells) /\ InRows(FlattenSeq(s), s, m)
    BY <2>1, RowsAt, Zenon
  <2> QED BY <1>5, <2>2, Zenon DEF InRows
<1> HIDE DEF F, content, flag
<1>7. /\ h \in Seq(Cells) /\ Len(h) = 2 /\ h[1] = SkippableMagic /\ h[2].n = content
      /\ t \in Seq(Cells) /\ Len(t) = 3 /\ t[1].n = n /\ t[2].n = flag /\ t[3] = SeekableMagic
  <2>1. Word(content) \in Cells /\ Word(content).n = content
    BY <1>1, <1>3, Zenon
  <2>2. /\ Word(n) \in Cells /\ Word(n).n = n /\ Word(flag) \in Cells /\ Word(flag).n = flag
    BY <1>1, <1>2, <1>3, Zenon
  <2> QED BY <1>1, <2>1, <2>2
<1> HIDE DEF h, t
<1>8. /\ u \in Seq(Cells) /\ Len(u) = Len(h) + Len(F)
      /\ \A i \in 1..Len(h) : u[i] = h[i]
      /\ \A i \in 1..Len(F) : u[Len(h) + i] = F[i]
  <2>1. h \in Seq(Cells) /\ F \in Seq(Cells)
    BY <1>6, <1>7
  <2> QED BY <2>1, ConcatAt, SMT
<1> HIDE DEF u
<1>9. /\ T \in Seq(Cells) /\ Len(T) = Len(u) + Len(t)
      /\ \A i \in 1..Len(u) : T[i] = u[i]
      /\ \A i \in 1..Len(t) : T[Len(u) + i] = t[i]
  <2>1. u \in Seq(Cells) /\ t \in Seq(Cells)
    BY <1>7, <1>8
  <2> QED BY <2>1, ConcatAt, SMT
<1>10. T = SeekTableCells
  BY Zenon DEF SeekTableCells, u, h, t, F, s, content, flag, m, n
<1> HIDE DEF T
<1> DEFINE nm == n * m
<1>11. nm \in Nat /\ Len(u) = 2 + nm /\ Len(T) = 2 + nm + 3
  BY <1>2, <1>3, <1>6, <1>7, <1>8, <1>9
<1>12. T[1] = SkippableMagic /\ T[2].n = content
  <2>1. 1 \in 1..Len(u) /\ 2 \in 1..Len(u) /\ 1 \in 1..Len(h) /\ 2 \in 1..Len(h)
    <3>1. Len(h) = 2
      BY <1>7, Zenon
    <3> QED BY <1>11, <3>1
  <2>2. T[1] = u[1] /\ T[2] = u[2] /\ u[1] = h[1] /\ u[2] = h[2]
    BY <1>8, <1>9, <2>1, Zenon
  <2> QED BY <1>7, <2>2, Zenon
<1>13. ASSUME NEW i \in 1..n, NEW k \in 1..m
       PROVE  T[2 + ((i - 1) * m + k)] = EntryCells(entries[i])[k]
  <2> DEFINE q == (i - 1) * m + k
  <2>1. q \in 1..nm
    <3>1. i \in Nat \ {0} /\ i <= n
      BY <1>2
    <3> QED BY <1>2, <1>3, <3>1, CellOfRow
  <2>2. F[q] = EntryCells(entries[i])[k]
    BY <1>5, <1>6, Zenon
  <2> HIDE DEF q, nm
  <2>3. 2 + q \in 1..Len(u)
    BY <1>11, <2>1
  <2>4. T[2 + q] = u[2 + q]
    BY <1>9, <2>3, Zenon
  <2>5. u[2 + q] = F[q]
    BY <1>6, <1>7, <1>8, <2>1, Zenon DEF nm
  <2> QED BY <2>2, <2>4, <2>5, Zenon DEF q
<1>14. \A i \in 1..n : /\ T[2 + ((i - 1) * m + 1)].n = entries[i].cs
                       /\ T[2 + ((i - 1) * m + 2)].n = entries[i].ds
                       /\ checksum => T[2 + ((i - 1) * m + 3)].n = entries[i].ck
  <2>1. 1 \in 1..m /\ 2 \in 1..m /\ (checksum => 3 \in 1..m)
    BY <1>3
  <2> QED BY <1>4, <1>13, <2>1, Zenon
<1>15. /\ T[(2 + nm) + 1].n = n /\ T[(2 + nm) + 2].n = flag /\ T[(2 + nm) + 3] = SeekableMagic
  <2>1. 1 \in 1..Len(t) /\ 2 \in 1..Len(t) /\ 3 \in 1..Len(t)
    BY <1>7
  <2> QED BY <1>7, <1>9, <1>11, <2>1, Zenon
<1> QED BY <1>9, <1>10, <1>11, <1>12, <1>14, <1>15, Zenon DEF content, flag, m, n

(* A frame lies before the end of the frames.                              *)
LEMMA FrameBefore ==
  ASSUME NEW e \in Seq(EntryRecords), NEW i \in 1..Len(e), e[i].cs # 0
  PROVE  /\ CSum(e)[i - 1] \in Nat /\ CSum(e)[i] \in Nat /\ CSum(e)[Len(e)] \in Nat
         /\ CSum(e)[i - 1] < CSum(e)[i] /\ CSum(e)[i] <= CSum(e)[Len(e)]
         /\ CSum(e)[i - 1] + 1 \in 1..CSum(e)[Len(e)]
         /\ CSum(e)[i] = CSum(e)[i - 1] + e[i].cs /\ e[i].cs \in Nat
<1> DEFINE N == Len(e)
           A == CSum(e)
<1>1. /\ N \in Nat /\ A \in [0..N -> Nat] /\ e[i].cs \in Nat /\ A[i] = A[i - 1] + e[i].cs
      /\ \A j \in 0..N, k \in 0..N : j <= k => A[j] <= A[k]
  BY EntrySums, Zenon
<1>2. i \in 0..N /\ i - 1 \in 0..N /\ N \in 0..N /\ i <= N
  BY <1>1
<1> HIDE DEF A, N
<1>3. A[i - 1] \in Nat /\ A[i] \in Nat /\ A[N] \in Nat /\ A[i] <= A[N]
  BY <1>1, <1>2, Zenon
<1>4. /\ A[i - 1] < A[i] /\ A[i - 1] + 1 \in 1..A[N] /\ A[i] = A[i - 1] + e[i].cs
      /\ e[i].cs \in Nat
  <2> DEFINE p == A[i - 1]
             q == A[i]
             z == A[N]
             c == e[i].cs
  <2>1. p \in Nat /\ q \in Nat /\ z \in Nat /\ q <= z /\ c \in Nat /\ q = p + c /\ c # 0
    BY <1>1, <1>3, Zenon
  <2> HIDE DEF p, q, z, c
  <2>2. p < q /\ p + 1 \in 1..z
    BY <2>1
  <2> QED BY <2>1, <2>2, Zenon DEF p, q, z, c
<1> QED BY <1>3, <1>4, Zenon DEF A, N

LEMMA TableWritten ==
  ASSUME Arguments, Stored, Framed(archive, data, entries),
         Len(archive) = CSum(entries)[Len(entries)],
         \A i \in 1..Len(entries) : entries[i].cs # 0
  PROVE  /\ archive \o SeekTableCells \in Seq(Cells)
         /\ Tabled(archive \o SeekTableCells, entries, checksum)
         /\ Framed(archive \o SeekTableCells, data, entries)
<1> DEFINE m == EntrySize(checksum)
           n == Len(entries)
           T == SeekTableCells
           a == archive
           b == a \o T
           P == CSum(entries)[n]
           nm == n * m
<1>1. /\ T \in Seq(Cells) /\ Len(T) = 2 + nm + 3
      /\ T[1] = SkippableMagic /\ T[2].n = nm + FooterSize
      /\ \A i \in 1..n : /\ T[2 + ((i - 1) * m + 1)].n = entries[i].cs
                         /\ T[2 + ((i - 1) * m + 2)].n = entries[i].ds
                         /\ checksum => T[2 + ((i - 1) * m + 3)].n = entries[i].ck
      /\ T[(2 + nm) + 1].n = n /\ T[(2 + nm) + 2].n = IF checksum THEN 1 ELSE 0
      /\ T[(2 + nm) + 3] = SeekableMagic
  BY TableCellsAt, Zenon
<1>2. n \in Nat /\ m \in {2, 3} /\ (checksum => m = 3) /\ (~checksum => m = 2)
  <2>1. n \in Nat
    BY EntrySums, Zenon DEF Stored
  <2> HIDE DEF n
  <2> QED BY <2>1 DEF EntrySize, Arguments
<1> HIDE DEF T
<1>3. /\ b \in Seq(Cells) /\ Len(b) = Len(a) + Len(T)
      /\ \A i \in 1..Len(a) : b[i] = a[i]
      /\ \A i \in 1..Len(T) : b[Len(a) + i] = T[i]
  <2>1. a \in Seq(Cells) /\ T \in Seq(Cells)
    BY <1>1, Zenon DEF Stored
  <2> HIDE DEF a
  <2>2. /\ a \o T \in Seq(Cells) /\ Len(a \o T) = Len(a) + Len(T)
        /\ \A i \in 1..Len(a) : (a \o T)[i] = a[i]
        /\ \A i \in 1..Len(T) : (a \o T)[Len(a) + i] = T[i]
    BY ONLY <2>1, ConcatAt, SMT
  <2> QED BY <2>2, Zenon
<1> HIDE DEF b, m, n
<1>4. nm \in Nat /\ Len(a) \in Nat /\ Len(a) = P
  <2>1. n * m \in Nat
    BY <1>2
  <2>2. Len(a) \in Nat
    BY DEF Stored
  <2> QED BY <2>1, <2>2 DEF n
<1>5. ASSUME NEW i \in 1..n, NEW k \in 1..m
      PROVE  Field(b, P + SkippableHeader, i, k, checksum) = T[2 + ((i - 1) * m + k)].n
  <2> DEFINE r == (i - 1) * m
             q == r + k
  <2>1. q \in 1..nm /\ r \in Int /\ k \in Int
    <3>1. i \in Nat \ {0} /\ i \in Nat /\ i <= n
      BY <1>2
    <3>2. q \in 1..nm
      BY <1>2, <3>1, CellOfRow
    <3>3. r \in Int /\ k \in Int
      BY <1>2
    <3> QED BY <3>2, <3>3
  <2> HIDE DEF r, nm, P
  <2>2. /\ (P + SkippableHeader) + r + k = Len(a) + (2 + q)
        /\ 2 + q \in 1..Len(T)
    BY <1>1, <1>4, <2>1 DEF SkippableHeader
  <2>3. b[(P + SkippableHeader) + r + k] = T[2 + q]
    BY <1>3, <2>2, Zenon
  <2> QED BY <2>3, Zenon DEF Field, r, m
<1>6. \A i \in 1..n :
        /\ Field(b, P + SkippableHeader, i, 1, checksum) = entries[i].cs
        /\ Field(b, P + SkippableHeader, i, 2, checksum) = entries[i].ds
        /\ checksum => Field(b, P + SkippableHeader, i, 3, checksum) = entries[i].ck
  <2>1. 1 \in 1..m /\ 2 \in 1..m /\ (checksum => 3 \in 1..m)
    BY <1>2
  <2> QED BY <1>1, <1>5, <2>1, Zenon
<1> HIDE DEF nm, P
<1>7. /\ Len(b) = P + SkippableHeader + (nm + FooterSize)
      /\ Len(b) = Len(a) + ((2 + nm) + 3)
      /\ Len(b) - 2 = Len(a) + ((2 + nm) + 1) /\ Len(b) - 1 = Len(a) + ((2 + nm) + 2)
      /\ P + 1 = Len(a) + 1 /\ P + 2 = Len(a) + 2
      /\ 1 \in 1..Len(T) /\ 2 \in 1..Len(T) /\ (2 + nm) + 1 \in 1..Len(T)
      /\ (2 + nm) + 2 \in 1..Len(T) /\ (2 + nm) + 3 \in 1..Len(T)
  <2>1. Len(T) = 2 + nm + 3 /\ Len(b) = Len(a) + Len(T)
    BY <1>1, <1>3, Zenon
  <2> QED BY <1>4, <2>1 DEF SkippableHeader, FooterSize
<1>8. /\ b[P + 1] = SkippableMagic /\ b[P + 2].n = nm + FooterSize
      /\ b[Len(b) - 2].n = n /\ b[Len(b) - 1].n = IF checksum THEN 1 ELSE 0
      /\ b[Len(b)] = SeekableMagic
  <2>1. b[P + 1] = SkippableMagic
    BY <1>1, <1>3, <1>7, Zenon
  <2>2. b[P + 2].n = nm + FooterSize
    BY <1>1, <1>3, <1>7, Zenon
  <2>3. b[Len(b) - 2].n = n
    BY <1>1, <1>3, <1>7, Zenon
  <2>4. b[Len(b) - 1].n = IF checksum THEN 1 ELSE 0
    BY <1>1, <1>3, <1>7, Zenon
  <2>5. b[Len(b)] = SeekableMagic
    BY <1>1, <1>3, <1>7, Zenon
  <2> QED BY <2>1, <2>2, <2>3, <2>4, <2>5, Zenon
<1>9. Tabled(b, entries, checksum)
  BY <1>6, <1>7, <1>8, Zenon DEF Tabled, P, nm, n, m
<1>10. Framed(b, data, entries)
  <2>1. ASSUME NEW i \in 1..Len(entries)
        PROVE  b[CSum(entries)[i - 1] + 1] = Cell("frame", entries[i].cs, Chunk(data, entries, i))
    <3>1. CSum(entries)[i - 1] + 1 \in 1..Len(a)
      BY <1>4, FrameBefore, Zenon DEF Stored, P, n
    <3>2. a[CSum(entries)[i - 1] + 1]
            = Cell("frame", entries[i].cs, Chunk(data, entries, i))
      BY Zenon DEF Framed
    <3> QED BY <1>3, <3>1, <3>2, Zenon
  <2> QED BY <2>1, Zenon DEF Framed
<1> QED BY <1>3, <1>9, <1>10, Zenon DEF b, T

(* The parsed table t of the entries e.                                    *)
TableOf(t, e, ck) ==
  /\ Indexed(t) /\ Len(t) = Len(e) /\ CompOff(t) = CSum(e) /\ Acc(t) = DSum(e)
  /\ \A i \in 1..Len(e) :
       /\ t[i].compressed_size = e[i].cs /\ t[i].decompressed_size = e[i].ds
       /\ t[i].checksum = IF ck THEN e[i].ck ELSE None

(* The parser finds the entries that were written.                         *)
LEMMA ParsedIs ==
  ASSUME NEW a \in Seq(Cells), NEW e \in Seq(EntryRecords), NEW ck \in BOOLEAN,
         Tabled(a, e, ck)
  PROVE  Parsed(a) # None /\ TableOf(Parsed(a), e, ck)
<1> DEFINE end == Len(a)
           n == Len(e)
           m == EntrySize(ck)
           content == n * m + FooterSize
           P == CSum(e)[n]
           p == P + SkippableHeader
           t == Entries(a, p, n, ck)
           F(i, k) == Field(a, p, i, k, ck)
<1>1. /\ end = p + content
      /\ a[P + 1] = SkippableMagic /\ a[P + 2].n = content
      /\ \A i \in 1..n : F(i, 1) = e[i].cs /\ F(i, 2) = e[i].ds /\ (ck => F(i, 3) = e[i].ck)
      /\ a[end - 2].n = n /\ a[end - 1].n = (IF ck THEN 1 ELSE 0) /\ a[end] = SeekableMagic
  BY Zenon DEF Tabled
<1>2. n \in Nat /\ P \in Nat /\ n * m \in Nat
  <2>1. n \in Nat /\ CSum(e) \in [0..n -> Nat]
    BY EntrySums, Zenon
  <2> HIDE DEF n
  <2>2. m \in {2, 3}
    BY DEF EntrySize
  <2>3. n * m \in Nat
    BY <2>1, <2>2
  <2>4. n \in 0..n
    BY <2>1
  <2> QED BY <2>1, <2>3, <2>4
<1>3. (a[end - 1].n = 1) = ck
  <2>1. CASE ck
    BY <1>1, <2>1
  <2>2. CASE ~ck
    BY <1>1, <2>2
  <2> QED BY <2>1, <2>2
<1> HIDE DEF F
<1>4. \A i \in 1..n : /\ t[i].compressed_size = F(i, 1) /\ t[i].decompressed_size = F(i, 2)
                      /\ t[i].checksum = IF ck THEN F(i, 3) ELSE None
  BY Zenon DEF Entries, F
<1>5. Indexed(t) /\ Len(t) = n
  <2> DEFINE len == n * m
  <2>1. p \in Nat /\ p + len <= Len(a)
    <3>1. len \in Nat /\ end = p + (len + FooterSize)
      BY <1>1, <1>2
    <3> HIDE DEF len, P
    <3> QED BY <1>2, <3>1 DEF FooterSize, SkippableHeader
  <2>2. n \in Nat
    BY <1>2
  <2> HIDE DEF p, n
  <2> QED BY <2>1, <2>2, EntriesIndexed, Zenon DEF len, m
<1> HIDE DEF t
<1>6. CompOff(t) = CSum(e) /\ Acc(t) = DSum(e)
  <2>1. [i \in 1..Len(t) |-> t[i].compressed_size] = [i \in 1..n |-> e[i].cs]
    BY <1>1, <1>4, <1>5, Zenon
  <2>2. [i \in 1..Len(t) |-> t[i].decompressed_size] = [i \in 1..n |-> e[i].ds]
    BY <1>1, <1>4, <1>5, Zenon
  <2> QED BY <2>1, <2>2, Zenon DEF CompOff, Acc, CSum, DSum, n
<1>7. TableOf(t, e, ck)
  BY <1>1, <1>4, <1>5, <1>6, Zenon DEF TableOf, n
<1>8. Parsed(a) = t
  <2> DEFINE num == a[end - 2].n
             has == a[end - 1].n = 1
             cont == num * EntrySize(has) + FooterSize
             skip_start == end - (SkippableHeader + cont)
             frames == Entries(a, skip_start + SkippableHeader, num, has)
  <2>1. Parsed(a) =
          IF end < SkippableHeader + FooterSize \/ a[end] # SeekableMagic THEN None
          ELSE IF skip_start < 0 THEN None
          ELSE IF a[skip_start + 1] # SkippableMagic \/ a[skip_start + 2].n # cont THEN None
          ELSE IF ~SizesFit(frames, skip_start) THEN None ELSE frames
    BY Zenon DEF Parsed
  <2>2. num = n /\ has = ck /\ cont = content
    BY <1>1, <1>3, Zenon
  <2> HIDE DEF cont
  <2>3. skip_start = P
    <3> DEFINE len == n * m
    <3>1. len \in Nat /\ end = p + (len + FooterSize) /\ cont = len + FooterSize
      BY <1>1, <1>2, <2>2
    <3> HIDE DEF len, P, end
    <3> QED BY <1>2, <3>1 DEF FooterSize, SkippableHeader
  <2>4. ~(end < SkippableHeader + FooterSize) /\ ~(P < 0)
    <3> DEFINE len == n * m
    <3>1. len \in Nat /\ end = p + (len + FooterSize)
      BY <1>1, <1>2
    <3> HIDE DEF len, P, end
    <3> QED BY <1>2, <3>1 DEF FooterSize, SkippableHeader
  <2> HIDE DEF skip_start, num, has
  <2>5. frames = t
    BY <2>2, <2>3, Zenon DEF t, p
  <2>6. SizesFit(t, P)
    BY <1>5, <1>6, Zenon DEF SizesFit, P
  <2> HIDE DEF frames, content
  <2> QED BY <1>1, <2>1, <2>2, <2>3, <2>4, <2>5, <2>6, Zenon
<1>9. t # None
  BY <1>5, Constants, Zenon DEF Indexed
<1> QED BY <1>7, <1>8, <1>9, Zenon

-----------------------------------------------------------------------------
(* Reading the frames of an archive as written.                            *)

(* The chunk of an entry, and the input up to its end.                     *)
ChunkAt(d, e, i) ==
  /\ Chunk(d, e, i) \in Seq(Byte) /\ Len(Chunk(d, e, i)) = e[i].ds
  /\ DSum(e)[i - 1] \in Nat /\ DSum(e)[i] \in Nat /\ e[i].ds \in Nat
  /\ DSum(e)[i] = DSum(e)[i - 1] + e[i].ds /\ DSum(e)[i] <= Len(d)
  /\ SubSeq(d, 1, DSum(e)[i]) = SubSeq(d, 1, DSum(e)[i - 1]) \o Chunk(d, e, i)

LEMMA ChunkIs ==
  ASSUME NEW d \in Seq(Byte), NEW e \in Seq(EntryRecords), DSum(e)[Len(e)] <= Len(d),
         NEW i \in 1..Len(e)
  PROVE  ChunkAt(d, e, i)
<1> DEFINE N == Len(e)
           A == DSum(e)
           lo == A[i - 1]
           hi == A[i]
<1>1. /\ N \in Nat /\ A \in [0..N -> Nat] /\ e[i].ds \in Nat /\ A[i] = A[i - 1] + e[i].ds
      /\ \A j \in 0..N, k \in 0..N : j <= k => A[j] <= A[k]
      /\ A[N] <= Len(d)
  BY EntrySums, Zenon
<1>2. i \in 0..N /\ i - 1 \in 0..N /\ N \in 0..N /\ i <= N
  BY <1>1
<1> HIDE DEF A, N
<1>3. lo \in Nat /\ hi \in Nat /\ A[N] \in Nat /\ hi <= A[N] /\ hi = lo + e[i].ds
  BY <1>1, <1>2, Zenon
<1>4. Chunk(d, e, i) = SubSeq(d, lo + 1, hi)
  BY Zenon DEF Chunk, A
<1> HIDE DEF lo, hi
<1>5. lo <= hi /\ hi <= Len(d) /\ hi - lo = e[i].ds
  BY <1>1, <1>3
<1>6. SubSeq(d, lo + 1, hi) \in Seq(Byte) /\ Len(SubSeq(d, lo + 1, hi)) = hi - lo
  <2> HIDE DEF Byte
  <2> QED BY <1>3, <1>5, Slice
<1>7. SubSeq(d, 1, hi) = SubSeq(d, 1, lo) \o SubSeq(d, lo + 1, hi)
  <2> HIDE DEF Byte
  <2> QED BY <1>3, <1>5, PrefixGrows
<1> QED BY <1>1, <1>3, <1>4, <1>5, <1>6, <1>7, Zenon DEF lo, hi, A, N, ChunkAt

(* A whole frame decodes to what it holds.                                 *)
FrameWithin(a, start, end, want, n, c) ==
  /\ start \in Nat /\ end \in Nat /\ n \in Nat /\ n # 0 /\ want \in Nat /\ Len(c) \in Nat
  /\ start + n <= end /\ Len(c) <= want /\ a[start + 1] = Cell("frame", n, c)

LEMMA FrameDecodes ==
  ASSUME NEW a, NEW start, NEW end, NEW want, NEW n, NEW c,
         FrameWithin(a, start, end, want, n, c)
  PROVE  decode_one(a, start, end, want) = Ok(c) /\ Consumed(a, start) = n
<1> DEFINE x == a[start + 1]
<1>1. x.k = "frame" /\ x.n = n /\ x.content = c
  BY DEF Cell, FrameWithin
<1>2. ~(start >= end) /\ ~(Len(c) > want) /\ ~(n > end - start)
  BY DEF FrameWithin
<1> DEFINE short == IF end - start < SkippableHeader
                       \/ a[start + 2].n > end - start - SkippableHeader
                    THEN Err("truncated") ELSE Ok(<<>>)
           plain == IF Len(x.content) > want THEN Err("output_too_large")
                    ELSE IF x.n > end - start THEN Err("truncated") ELSE Ok(x.content)
<1>3. decode_one(a, start, end, want) =
        IF start >= end THEN Err("truncated")
        ELSE CASE x.k = "skippable_magic" -> short
               [] x.k = "frame" -> plain
               [] OTHER -> Err("bad_magic")
  BY Zenon DEF decode_one
<1>4. plain = Ok(c)
  BY <1>1, <1>2, Zenon
<1>5. Consumed(a, start) = n
  BY <1>1 DEF Consumed
<1> HIDE DEF x, short, plain
<1>6. (CASE x.k = "skippable_magic" -> short
         [] x.k = "frame" -> plain
         [] OTHER -> Err("bad_magic")) = plain
  BY <1>1
<1> QED BY <1>2, <1>3, <1>4, <1>5, <1>6, Zenon

(* decompress_seekable_frame: every frame of the table decodes to its      *)
(* chunk.                                                                  *)
LEMMA FrameReads ==
  ASSUME NEW a \in Seq(Cells), NEW d \in Seq(Byte), NEW fs, NEW ck \in BOOLEAN, NEW e, NEW t,
         Chunked(d, fs, ck, e), Framed(a, d, e), CSum(e)[Len(e)] <= Len(a),
         TableOf(t, e, ck), NEW i \in 1..Len(e)
  PROVE  SeekFrame(a, t[i]) = Ok(Chunk(d, e, i))
<1> DEFINE f == t[i]
           c == Chunk(d, e, i)
           start == f.compressed_offset
           end == f.compressed_offset + f.compressed_size
           D == decode_one(a, start, end, f.decompressed_size)
<1>1. /\ e \in Seq(EntryRecords) /\ e[i].cs # 0
      /\ e[i].ck = IF ck THEN xxh64(c) ELSE 0
  BY Zenon DEF Chunked
<1>2. /\ f.compressed_size = e[i].cs /\ f.decompressed_size = e[i].ds
      /\ f.checksum = (IF ck THEN e[i].ck ELSE None) /\ start = CSum(e)[i - 1]
  BY Zenon DEF TableOf, Indexed
<1>3. /\ CSum(e)[i - 1] \in Nat /\ CSum(e)[Len(e)] \in Nat /\ CSum(e)[i] <= CSum(e)[Len(e)]
      /\ CSum(e)[i] = CSum(e)[i - 1] + e[i].cs /\ e[i].cs \in Nat /\ CSum(e)[i] \in Nat
  BY <1>1, FrameBefore, Zenon
<1>4. a[start + 1] = Cell("frame", e[i].cs, c)
  BY <1>2, Zenon DEF Framed
<1>5. Len(c) = e[i].ds /\ e[i].ds \in Nat
  BY ChunkIs, Zenon DEF Chunked, ChunkAt
<1>6. end = CSum(e)[i] /\ end <= Len(a)
  <2>1. end = CSum(e)[i]
    BY <1>2, <1>3, Zenon
  <2> DEFINE x == CSum(e)[i]
             y == CSum(e)[Len(e)]
  <2>2. x \in Nat /\ y \in Nat /\ x <= y /\ y <= Len(a)
    BY <1>3
  <2> HIDE DEF x, y
  <2>3. x <= Len(a)
    BY <2>2
  <2> QED BY <2>1, <2>3, Zenon DEF x
<1>7. D = Ok(c)
  <2> DEFINE n == e[i].cs
             want == e[i].ds
  <2>1. /\ start \in Nat /\ end \in Nat /\ n \in Nat /\ n # 0 /\ start + n = end
        /\ want \in Nat /\ Len(c) = want /\ f.decompressed_size = want
        /\ a[start + 1] = Cell("frame", n, c)
    BY <1>1, <1>2, <1>3, <1>4, <1>5, <1>6, Zenon
  <2> HIDE DEF start, end, n, want, c, f
  <2>2. start + n <= end /\ Len(c) <= want /\ Len(c) \in Nat
    BY <2>1
  <2>3. FrameWithin(a, start, end, want, n, c)
    BY <2>1, <2>2, Zenon DEF FrameWithin
  <2>4. decode_one(a, start, end, want) = Ok(c)
    BY <2>3, FrameDecodes, Zenon
  <2> QED BY <2>1, <2>4, Zenon
<1>8. Verified(f, c) = Ok(c)
  <2>1. Len(c) = f.decompressed_size
    BY <1>2, <1>5, Zenon
  <2>2. f.checksum # None => f.checksum = xxh64(c)
    BY <1>1, <1>2, Zenon
  <2> QED BY <2>1, <2>2, Zenon DEF Verified
<1>9. Len(a) \in Nat /\ end \in Nat /\ ~(end > Len(a))
  <2>1. end \in Nat
    BY <1>3, <1>6, Zenon
  <2> HIDE DEF end
  <2> QED BY <1>6, <2>1
<1>10. SeekFrame(a, f) = IF end > Len(a) THEN Err("truncated")
                         ELSE IF D.ok THEN Verified(f, D.bytes) ELSE D
  BY Zenon DEF SeekFrame
<1>11. D.ok = TRUE /\ D.bytes = c
  BY <1>7, OkIs, Zenon
<1> HIDE DEF D, end
<1> QED BY <1>8, <1>9, <1>10, <1>11, Zenon

(* The frames of the table yield the whole input.                          *)
LEMMA ReadsBack ==
  ASSUME NEW a \in Seq(Cells), NEW d \in Seq(Byte), NEW fs, NEW ck \in BOOLEAN, NEW e, NEW t,
         Chunked(d, fs, ck, e), Framed(a, d, e), CSum(e)[Len(e)] <= Len(a),
         DSum(e)[Len(e)] = Len(d), TableOf(t, e, ck)
  PROVE  FlattenSeq([i \in 1..Len(t) |-> decompress_seekable_frame(a, t, i).bytes]) = d
<1> DEFINE n == Len(e)
           A == DSum(e)
           s == [i \in 1..Len(t) |-> decompress_seekable_frame(a, t, i).bytes]
           w == [i \in 0..n |-> SubSeq(d, 1, A[i])]
<1>1. /\ e \in Seq(EntryRecords) /\ n \in Nat /\ Len(t) = n /\ A[0] = 0
  BY EntrySums, Zenon DEF Chunked, TableOf
<1> HIDE DEF n, A
<1>2. \A i \in 1..n : s[i] = Chunk(d, e, i)
  <2>1. ASSUME NEW i \in 1..n
        PROVE  s[i] = Chunk(d, e, i)
    <3>1. SeekFrame(a, t[i]) = Ok(Chunk(d, e, i))
      BY FrameReads, SMT DEF n
    <3>2. decompress_seekable_frame(a, t, i) = Ok(Chunk(d, e, i))
      BY <1>1, <3>1, Zenon DEF decompress_seekable_frame
    <3>3. Ok(Chunk(d, e, i)).bytes = Chunk(d, e, i)
      BY OkIs, Zenon
    <3> QED BY <1>1, <3>2, <3>3, Zenon
  <2> QED BY <2>1, Zenon
<1>3. \A i \in 1..n :
        /\ Chunk(d, e, i) \in Seq(Byte)
        /\ SubSeq(d, 1, A[i]) = SubSeq(d, 1, A[i - 1]) \o Chunk(d, e, i)
  <2>1. ASSUME NEW i \in 1..Len(e)
        PROVE  /\ Chunk(d, e, i) \in Seq(Byte)
               /\ SubSeq(d, 1, DSum(e)[i]) = SubSeq(d, 1, DSum(e)[i - 1]) \o Chunk(d, e, i)
    BY ChunkIs, Zenon DEF Chunked, ChunkAt
  <2> QED BY <2>1, Zenon DEF n, A
<1>4. s \in Seq(Seq(Byte)) /\ Len(s) = n
  <2>1. s \in [1..n -> Seq(Byte)]
    <3>1. s = [i \in 1..n |-> s[i]]
      BY <1>1, Zenon
    <3> HIDE DEF s
    <3> QED BY <1>2, <1>3, <3>1, Zenon
  <2> HIDE DEF s, Byte
  <2> QED BY <1>1, <2>1
<1>5. SubSeq(d, 1, 0) = <<>> /\ SubSeq(d, 1, Len(d)) = d
  BY WholeSeq, Zenon
<1>6. Joins(w, s)
  <2>1. 0 \in 0..n /\ \A i \in 1..n : i \in 0..n /\ i - 1 \in 0..n
    BY <1>1
  <2> HIDE DEF s
  <2>2. w[0] = <<>>
    BY <1>1, <1>5, <2>1, Zenon
  <2>3. \A i \in 1..n : w[i] = w[i - 1] \o s[i]
    BY <1>2, <1>3, <2>1, Zenon
  <2> QED BY <1>4, <2>2, <2>3, Zenon DEF Joins
<1>7. FlattenSeq(s) = w[n]
  <2> HIDE DEF s, w
  <2> QED BY <1>4, <1>6, FlattenIs, Zenon
<1>8. w[n] = d
  <2>1. n \in 0..n
    BY <1>1
  <2> QED BY <1>5, <2>1, Zenon DEF n, A
<1> QED BY <1>7, <1>8, Zenon

-----------------------------------------------------------------------------
(* decompress: the whole archive without its table.                        *)

(* Every frame takes a cell.                                               *)
LEMMA FramesTakeSpace ==
  ASSUME NEW e \in Seq(EntryRecords), \A i \in 1..Len(e) : e[i].cs # 0
  PROVE  Len(e) <= CSum(e)[Len(e)]
<1> DEFINE N == Len(e)
           A == CSum(e)
           S == {i \in 0..N : i <= A[i]}
<1>1. /\ N \in Nat /\ A \in [0..N -> Nat] /\ A[0] = 0
      /\ \A i \in 1..N : e[i].cs \in Nat /\ A[i] = A[i - 1] + e[i].cs /\ e[i].cs # 0
  BY EntrySums, Zenon
<1> HIDE DEF A, N
<1>2. 0 \in S
  BY <1>1
<1>3. ASSUME NEW i \in 1..N, i - 1 \in S
      PROVE  i \in S
  <2>1. i \in 0..N /\ i - 1 \in 0..N
    BY <1>1
  <2>2. A[i - 1] \in Nat /\ e[i].cs \in Nat /\ e[i].cs # 0 /\ A[i] = A[i - 1] + e[i].cs
    BY <1>1, <2>1, Zenon
  <2>3. i - 1 <= A[i - 1]
    BY <1>3, Zenon
  <2> QED BY <2>1, <2>2, <2>3
<1>4. 0..N \subseteq S
  <2> HIDE DEF S
  <2> QED BY <1>1, <1>2, <1>3, UpTo, Zenon
<1>5. N \in 0..N
  BY <1>1
<1> QED BY <1>4, <1>5 DEF A, N

(* The table is a skippable frame.                                         *)
TableAt(a, p, content, end) ==
  /\ p \in Nat /\ content \in Nat /\ end = p + SkippableHeader + content
  /\ a[p + 1] = SkippableMagic /\ a[p + 2].n = content

LEMMA TableSkipped ==
  ASSUME NEW a, NEW p, NEW content, NEW end, NEW want, TableAt(a, p, content, end)
  PROVE  /\ decode_one(a, p, end, want) = Ok(<<>>)
         /\ Consumed(a, p) = SkippableHeader + content
<1> DEFINE x == a[p + 1]
           short == end - p < SkippableHeader \/ a[p + 2].n > end - p - SkippableHeader
           skip == IF short THEN Err("truncated") ELSE Ok(<<>>)
           plain == IF Len(x.content) > want THEN Err("output_too_large")
                    ELSE IF x.n > end - p THEN Err("truncated") ELSE Ok(x.content)
<1>1. x.k = "skippable_magic" /\ a[p + 2].n = content
  BY DEF SkippableMagic, Cell, TableAt
<1>2. ~(p >= end) /\ ~short
  <2>1. p \in Nat /\ content \in Nat /\ end = p + SkippableHeader + content
    BY Zenon DEF TableAt
  <2> QED BY <1>1, <2>1 DEF SkippableHeader
<1>3. decode_one(a, p, end, want) =
        IF p >= end THEN Err("truncated")
        ELSE CASE x.k = "skippable_magic" -> skip
               [] x.k = "frame" -> plain
               [] OTHER -> Err("bad_magic")
  BY Zenon DEF decode_one
<1>4. Consumed(a, p) = SkippableHeader + content
  BY <1>1, Zenon DEF Consumed
<1>5. skip = Ok(<<>>)
  BY <1>2, Zenon
<1> HIDE DEF x, skip, plain
<1>6. (CASE x.k = "skippable_magic" -> skip
         [] x.k = "frame" -> plain
         [] OTHER -> Err("bad_magic")) = skip
  BY <1>1
<1> QED BY <1>2, <1>3, <1>4, <1>5, <1>6, Zenon

(* The loop, frame by frame.                                               *)
Running(p, o) == [pos |-> p, out |-> o, err |-> None]

LEMMA RunningIs ==
  ASSUME NEW p, NEW o
  PROVE  Running(p, o).pos = p /\ Running(p, o).out = o /\ Running(p, o).err = None
BY DEF Running

FrameNext(a, cap, p, o, c) ==
  /\ Len(a) \in Nat /\ p \in Nat /\ p < Len(a)
  /\ decode_one(a, p, Len(a), cap - Len(o)) = Ok(c)

LEMMA OneFrameIs ==
  ASSUME NEW a, NEW cap, NEW p, NEW o, NEW c, FrameNext(a, cap, p, o, c)
  PROVE  OneFrame(a, cap, Running(p, o)) = Running(p + Consumed(a, p), o \o c)
<1> DEFINE s == Running(p, o)
           frame == decode_one(a, s.pos, Len(a), cap - Len(s.out))
<1>1. s.pos = p /\ s.out = o /\ s.err = None
  BY RunningIs, Zenon
<1>2. ~(p >= Len(a))
  BY DEF FrameNext
<1>3. frame = Ok(c)
  BY <1>1, Zenon DEF FrameNext
<1>4. frame.ok = TRUE /\ frame.bytes = c
  BY <1>3, OkIs, Zenon
<1> HIDE DEF s, frame
<1>5. OneFrame(a, cap, s) =
        IF s.err # None \/ s.pos >= Len(a) THEN s
        ELSE IF frame.ok
        THEN [pos |-> s.pos + Consumed(a, s.pos), out |-> s.out \o frame.bytes, err |-> None]
        ELSE [s EXCEPT !.err = frame.err]
  BY Zenon DEF OneFrame, frame
<1>6. OneFrame(a, cap, s)
        = [pos |-> s.pos + Consumed(a, s.pos), out |-> s.out \o frame.bytes, err |-> None]
  BY <1>1, <1>2, <1>4, <1>5, Zenon
<1> QED BY <1>1, <1>4, <1>6, Zenon DEF Running, s

LEMMA StreamDecodes ==
  ASSUME NEW a \in Seq(Cells), NEW d \in Seq(Byte), NEW fs, NEW ck \in BOOLEAN, NEW e,
         Chunked(d, fs, ck, e), Framed(a, d, e), Tabled(a, e, ck), DSum(e)[Len(e)] = Len(d)
  PROVE  decompress_capped(a, Len(d)) = Ok(d)
<1> DEFINE n == Len(e)
           L == Len(a)
           cap == Len(d)
           A == CSum(e)
           B == DSum(e)
           content == n * EntrySize(ck) + FooterSize
           g == [i \in 0..L |-> IF i <= n THEN Running(A[i], SubSeq(d, 1, B[i]))
                                ELSE Running(L, d)]
           F(f) == [i \in 0..L |-> IF i = 0 THEN [pos |-> 0, out |-> <<>>, err |-> None]
                                   ELSE OneFrame(a, cap, f[i - 1])]
           s == CHOOSE f : f = F(f)
<1>1. /\ e \in Seq(EntryRecords) /\ n \in Nat /\ A \in [0..n -> Nat] /\ B \in [0..n -> Nat]
      /\ A[0] = 0 /\ B[0] = 0
      /\ \A i \in 1..n : e[i].cs # 0
  <2>1. e \in Seq(EntryRecords) /\ \A i \in 1..n : e[i].cs # 0
    BY Zenon DEF Chunked
  <2> QED BY <2>1, EntrySums, Zenon
<1>2. content \in Nat /\ FooterSize <= content
  <2>1. EntrySize(ck) \in {2, 3}
    BY DEF EntrySize
  <2> HIDE DEF n
  <2>2. n * EntrySize(ck) \in Nat
    BY <1>1, <2>1
  <2> DEFINE x == n * EntrySize(ck)
  <2> HIDE DEF x
  <2> QED BY <2>2 DEF x, FooterSize
<1>3. /\ L = A[n] + SkippableHeader + content
      /\ a[A[n] + 1] = SkippableMagic /\ a[A[n] + 2].n = content
  BY Zenon DEF Tabled
<1>4. n <= A[n]
  BY <1>1, FramesTakeSpace, Zenon
<1> HIDE DEF n, A, B, content, L
<1>5. n \in 0..n /\ A[n] \in Nat /\ L \in Nat /\ n + 1 <= L /\ A[n] < L
  <2>1. n \in 0..n
    BY <1>1
  <2>2. A[n] \in Nat
    BY <1>1, <2>1
  <2> DEFINE p == A[n]
  <2>3. p \in Nat /\ L = p + SkippableHeader + content /\ n <= p
    BY <1>3, <1>4, <2>2, Zenon
  <2> HIDE DEF p
  <2>4. L \in Nat /\ n + 1 <= L /\ p < L
    BY ONLY <1>1, <1>2, <2>3, SMT DEF SkippableHeader, FooterSize
  <2> QED BY <2>1, <2>2, <2>4, Zenon DEF p
<1>6. /\ SubSeq(d, 1, 0) = <<>> /\ SubSeq(d, 1, Len(d)) = d /\ B[n] = Len(d) /\ Len(d) \in Nat
  <2>1. Len(d) \in Nat
    OBVIOUS
  <2> QED BY <2>1, WholeSeq, Zenon DEF B, n
<1>7. ASSUME NEW i \in 1..n
      PROVE  OneFrame(a, cap, Running(A[i - 1], SubSeq(d, 1, B[i - 1])))
               = Running(A[i], SubSeq(d, 1, B[i]))
  <2> DEFINE p == A[i - 1]
             o == SubSeq(d, 1, B[i - 1])
             c == Chunk(d, e, i)
  <2>1. /\ p \in Nat /\ A[i] = p + e[i].cs /\ e[i].cs \in Nat /\ e[i].cs # 0 /\ A[i] <= A[n]
        /\ A[i] \in Nat
    BY <1>1, FrameBefore, Zenon DEF n, A
  <2>2. /\ Len(c) = e[i].ds /\ B[i] = B[i - 1] + e[i].ds /\ B[i] <= Len(d)
        /\ B[i - 1] \in Nat /\ B[i] \in Nat /\ e[i].ds \in Nat /\ SubSeq(d, 1, B[i]) = o \o c
    BY <1>1, ChunkIs, Zenon DEF n, B, ChunkAt, Chunked
  <2>3. Len(o) = B[i - 1]
    <3> DEFINE m == B[i - 1]
    <3>1. m \in 0..Len(d)
      BY <1>6, <2>2
    <3> HIDE DEF m, Byte
    <3>2. Len(SubSeq(d, 1, m)) = m
      BY <3>1, CutSeq
    <3> QED BY <3>2 DEF m
  <2>4. a[p + 1] = Cell("frame", e[i].cs, c)
    BY Zenon DEF Framed, A, n
  <2> DEFINE k == e[i].cs
             want == cap - Len(o)
             q == A[i]
  <2>5. p + k <= L /\ want \in Nat /\ Len(c) <= want /\ p < L
    <3> DEFINE w == e[i].ds
               b == B[i]
               r == B[i - 1]
    <3>1. /\ p \in Nat /\ k \in Nat /\ k # 0 /\ q = p + k /\ q <= A[n] /\ q \in Nat
          /\ Len(c) = w /\ b = r + w /\ b <= cap /\ r \in Nat /\ b \in Nat /\ w \in Nat
          /\ want = cap - r /\ cap \in Nat
      BY <1>6, <2>1, <2>2, <2>3, Zenon
    <3> HIDE DEF p, k, want, q, w, b, r, c, cap
    <3> QED BY <1>5, <3>1
  <2>6. FrameWithin(a, p, L, want, k, c)
    <3>1. Len(c) \in Nat
      BY <2>2, Zenon
    <3> QED BY <1>5, <2>1, <2>4, <2>5, <3>1, Zenon DEF FrameWithin
  <2>7. decode_one(a, p, L, want) = Ok(c) /\ Consumed(a, p) = k
    BY <2>6, FrameDecodes, Zenon
  <2> HIDE DEF p, o, c, cap
  <2>8. OneFrame(a, cap, Running(p, o)) = Running(p + Consumed(a, p), o \o c)
    <3>1. FrameNext(a, cap, p, o, c)
      BY <1>5, <2>1, <2>5, <2>7, Zenon DEF L, FrameNext
    <3> QED BY ONLY <3>1, OneFrameIs, SMT
  <2> QED BY <2>1, <2>2, <2>7, <2>8, Zenon DEF p, o
<1>8. OneFrame(a, cap, Running(A[n], SubSeq(d, 1, B[n]))) = Running(L, d)
  <2> DEFINE p == A[n]
  <2>1. /\ decode_one(a, p, L, cap - Len(d)) = Ok(<<>>)
        /\ Consumed(a, p) = SkippableHeader + content
    <3>1. TableAt(a, p, content, L)
      BY <1>2, <1>3, <1>5, Zenon DEF TableAt
    <3> QED BY <3>1, TableSkipped, Zenon
  <2>2. OneFrame(a, cap, Running(p, d)) = Running(p + Consumed(a, p), d \o <<>>)
    <3> HIDE DEF p, cap
    <3> DEFINE nothing == <<>>
    <3>1. FrameNext(a, cap, p, d, nothing)
      BY <1>5, <2>1, Zenon DEF L, p, FrameNext
    <3> HIDE DEF nothing
    <3>2. OneFrame(a, cap, Running(p, d)) = Running(p + Consumed(a, p), d \o nothing)
      BY ONLY <3>1, OneFrameIs, SMT
    <3> QED BY <3>2, Zenon DEF nothing
  <2>3. p + Consumed(a, p) = L
    <3> DEFINE k == Consumed(a, p)
    <3>1. p \in Nat /\ k = SkippableHeader + content /\ L = p + SkippableHeader + content
      BY <1>3, <1>5, <2>1, Zenon
    <3> HIDE DEF p, k
    <3>2. p + k = L
      BY <1>2, <3>1 DEF SkippableHeader
    <3> QED BY <3>2 DEF p, k
  <2>4. d \o <<>> = d
    OBVIOUS
  <2> QED BY <1>6, <2>2, <2>3, <2>4, Zenon
<1>9. OneFrame(a, cap, Running(L, d)) = Running(L, d)
  <2>1. Running(L, d).pos >= L
    <3>1. Running(L, d).pos = L
      BY RunningIs, Zenon
    <3> QED BY <1>5, <3>1
  <2> QED BY <2>1, Zenon DEF OneFrame, L
<1>10. g[0] = [pos |-> 0, out |-> <<>>, err |-> None] /\ g[L] = Running(L, d)
       /\ \A i \in 1..L : g[i] = OneFrame(a, cap, g[i - 1])
  <2>1. /\ 0 \in 0..L /\ 0 <= n /\ L \in 0..L /\ ~(L <= n)
        /\ \A i \in 1..L : i \in 0..L /\ i - 1 \in 0..L
    BY <1>1, <1>5
  <2>2. g[0] = Running(A[0], SubSeq(d, 1, B[0]))
    BY <2>1, Zenon
  <2>3. ASSUME NEW i \in 1..L
        PROVE  g[i] = OneFrame(a, cap, g[i - 1])
    <3>1. CASE i <= n
      <4>1. i \in 1..n /\ i - 1 <= n
        BY <1>1, <1>5, <3>1
      <4>2. g[i] = Running(A[i], SubSeq(d, 1, B[i]))
        BY <2>1, <3>1, Zenon
      <4>3. g[i - 1] = Running(A[i - 1], SubSeq(d, 1, B[i - 1]))
        BY <2>1, <4>1, Zenon
      <4> QED BY <1>7, <4>1, <4>2, <4>3, Zenon
    <3>2. CASE i = n + 1
      <4>1. i - 1 = n /\ n <= n /\ ~(i <= n)
        BY <1>1, <3>2
      <4>2. g[i] = Running(L, d)
        BY <2>1, <4>1, Zenon
      <4>3. g[i - 1] = Running(A[n], SubSeq(d, 1, B[n]))
        BY <2>1, <4>1, Zenon
      <4> QED BY <1>8, <4>2, <4>3, Zenon
    <3>3. CASE ~(i <= n) /\ i # n + 1
      <4>1. ~(i - 1 <= n)
        BY <1>1, <3>3
      <4>2. g[i] = Running(L, d)
        BY <2>1, <3>3, Zenon
      <4>3. g[i - 1] = Running(L, d)
        BY <2>1, <4>1, Zenon
      <4> QED BY <1>9, <4>2, <4>3, Zenon
    <3> QED BY <3>1, <3>2, <3>3, Zenon
  <2>4. g[L] = Running(L, d)
    BY <2>1, Zenon
  <2> QED BY <1>1, <1>6, <2>2, <2>3, <2>4, Zenon DEF Running
<1> DEFINE Z == [pos |-> 0, out |-> <<>>, err |-> None]
<1>11. g = F(g)
  <2> HIDE DEF Z
  <2>1. \A i \in 0..L : g[i] = IF i = 0 THEN Z ELSE OneFrame(a, cap, g[i - 1])
    <3>1. \A i \in 0..L : i # 0 => i \in 1..L
      BY <1>5
    <3>2. g[0] = Z
      BY <1>10, Zenon DEF Z
    <3> HIDE DEF g
    <3> QED BY <1>10, <3>1, <3>2, Zenon
  <2>2. g = [i \in 0..L |-> g[i]]
    BY Zenon
  <2> HIDE DEF g
  <2> QED BY <2>1, <2>2, Zenon DEF Z
<1> HIDE DEF g
<1>12. s = F(s)
  BY <1>11, Zenon
<1>13. decompress_capped(a, cap) = IF s[L].err = None THEN Ok(s[L].out) ELSE Err(s[L].err)
  BY Zenon DEF decompress_capped, L
<1> HIDE DEF s
<1>14. s[0] = Z /\ \A i \in 1..L : s[i] = OneFrame(a, cap, s[i - 1])
  <2> HIDE DEF Z
  <2>1. \A i \in 0..L : s[i] = IF i = 0 THEN Z ELSE OneFrame(a, cap, s[i - 1])
    BY <1>12, Zenon DEF Z
  <2>2. 0 \in 0..L /\ \A i \in 1..L : i \in 0..L /\ i # 0
    BY <1>5
  <2> QED BY <2>1, <2>2, Zenon
<1>15. s[L] = g[L]
  <2> DEFINE S == {i \in 0..L : s[i] = g[i]}
  <2>1. 0 \in S
    <3>1. 0 \in 0..L
      BY <1>5
    <3> QED BY <1>10, <1>14, <3>1, Zenon
  <2>2. ASSUME NEW i \in 1..L, i - 1 \in S
        PROVE  i \in S
    <3>1. i \in 0..L
      BY <1>5
    <3> QED BY <1>10, <1>14, <2>2, <3>1, Zenon
  <2>3. 0..L \subseteq S
    <3> HIDE DEF S
    <3> QED BY <1>5, <2>1, <2>2, UpTo, Zenon
  <2>4. L \in 0..L
    BY <1>5
  <2> QED BY <2>3, <2>4, Zenon
<1>16. s[L].err = None /\ s[L].out = d
  <2>1. s[L] = Running(L, d)
    BY <1>10, <1>15, Zenon
  <2>2. Running(L, d).err = None /\ Running(L, d).out = d
    BY RunningIs, Zenon
  <2> QED BY <2>1, <2>2, Zenon
<1> QED BY <1>13, <1>16, Zenon

-----------------------------------------------------------------------------
(* No worker is left without a frame.                                      *)

(* All chunks but the last are full.                                       *)
LEMMA FullChunks ==
  ASSUME NEW d \in Seq(Byte), NEW fs \in Nat \ {0}, NEW ck, NEW e, Chunked(d, fs, ck, e),
         DSum(e)[Len(e)] = Len(d)
  PROVE  /\ \A i \in 0..(Len(e) - 1) : DSum(e)[i] = fs * i
         /\ DSum(e)[Len(e)] <= fs * Len(e)
<1> DEFINE N == Len(e)
           B == DSum(e)
           S == {i \in 0..N : i < N => B[i] = fs * i}
<1>1. e \in Seq(EntryRecords)
  BY Zenon DEF Chunked
<1>2. \A i \in 1..N : e[i].ds \in 1..fs /\ (e[i].ds = fs \/ B[i] = B[N])
  BY Zenon DEF Chunked
<1>3. /\ N \in Nat /\ B \in [0..N -> Nat] /\ B[0] = 0
      /\ \A i \in 1..N : B[i] = B[i - 1] + e[i].ds
      /\ \A i \in 0..N, j \in 0..N : i <= j => B[i] <= B[j]
  BY <1>1, EntrySums, Zenon
<1> HIDE DEF N, B
<1>4. fs * 0 = 0 /\ \A i \in Nat : fs * i \in Nat /\ fs * (i + 1) = fs * i + fs
  <2>1. fs * 0 = 0
    OBVIOUS
  <2>2. \A i \in Nat : fs * i \in Nat /\ fs * (i + 1) = fs * i + fs
    BY Z3
  <2> QED BY <2>1, <2>2
<1>5. 0 \in S
  BY <1>3, <1>4
<1>6. ASSUME NEW i \in 1..N, i - 1 \in S
      PROVE  i \in S
  <2>1. i \in 0..N /\ i - 1 \in Nat /\ i - 1 \in 0..N /\ (i - 1) + 1 = i /\ (i < N => i - 1 < N)
    BY <1>3
  <2>2. ASSUME i < N
        PROVE  B[i] = fs * i
    <3>1. i + 1 \in 1..N /\ i + 1 \in 0..N /\ N \in 0..N /\ i + 1 <= N /\ (i + 1) - 1 = i
      BY <1>3, <2>2
    <3>2. B[i] < B[N]
      <4>1. B[i] \in Nat /\ B[i + 1] \in Nat /\ B[N] \in Nat
        BY <1>3, <2>1, <3>1, Zenon
      <4>2. e[i + 1].ds \in 1..fs /\ B[i + 1] = B[i] + e[i + 1].ds /\ B[i + 1] <= B[N]
        BY <1>2, <1>3, <3>1, Zenon
      <4> QED BY <4>1, <4>2
    <3>3. B[i] # B[N]
      <4>1. B[i] \in Nat /\ B[N] \in Nat
        BY <1>3, <2>1, <3>1, Zenon
      <4> QED BY <3>2, <4>1
    <3>4. e[i].ds = fs
      BY <1>2, <3>3, Zenon
    <3>5. B[i - 1] = fs * (i - 1)
      BY <1>6, <2>1, <2>2, Zenon
    <3>6. B[i] = fs * (i - 1) + fs
      BY <1>3, <3>4, <3>5, Zenon
    <3> QED BY <1>4, <2>1, <3>6, Zenon
  <2> QED BY <2>1, <2>2, Zenon
<1>7. 0..N \subseteq S
  <2> HIDE DEF S
  <2> QED BY <1>3, <1>5, <1>6, UpTo, Zenon
<1>8. \A i \in 0..(N - 1) : B[i] = fs * i
  <2>1. \A i \in 0..(N - 1) : i \in 0..N /\ i < N
    BY <1>3
  <2> QED BY <1>7, <2>1, Zenon
<1>9. B[N] <= fs * N
  <2>1. CASE N = 0
    BY <1>3, <1>4, <2>1
  <2>2. CASE N # 0
    <3>1. N \in 1..N /\ N - 1 \in 0..(N - 1) /\ N - 1 \in Nat /\ (N - 1) + 1 = N
      BY <1>3, <2>2
    <3>2. B[N] = fs * (N - 1) + e[N].ds /\ e[N].ds \in 1..fs
      BY <1>2, <1>3, <1>8, <3>1, Zenon
    <3>3. fs * (N - 1) \in Nat /\ fs * N = fs * (N - 1) + fs
      BY <1>4, <3>1, Zenon
    <3> DEFINE x == fs * (N - 1)
               y == fs * N
    <3> HIDE DEF x, y
    <3>4. B[N] = x + e[N].ds /\ x \in Nat /\ y = x + fs
      BY <3>2, <3>3 DEF x, y
    <3> QED BY <3>2, <3>4 DEF y
  <2> QED BY <2>1, <2>2
<1> QED BY <1>8, <1>9 DEF N, B

(* When just as many frames are left as groups need one, the group has its *)
(* share, since the frames before are full.                                *)
LEMMA ShareReached ==
  ASSUME NEW fs \in Nat, NEW N \in Nat, NEW n \in 0..N, NEW i \in 0..N, NEW l \in 0..n,
         N - i = n - l, NEW acc \in Nat, acc = fs * i, NEW total \in Nat, total <= fs * N
  PROVE  acc * n >= total * l
<1> DEFINE u == N - n
           v == N - i
<1>1. u \in Nat /\ v \in Nat /\ n = N - u /\ i = N - v /\ l = N - u - v /\ l \in Nat /\ n \in Nat
  OBVIOUS
<1> HIDE DEF u, v
<1>2. i * n = N * l + u * v
  <2>1. (N - v) * (N - u) = N * (N - u - v) + u * v
    BY <1>1, Z3
  <2> QED BY <1>1, <2>1
<1>3. u * v \in Nat /\ N * l \in Nat /\ fs * (u * v) \in Nat /\ fs * (N * l) \in Nat
  <2>1. u * v \in Nat /\ N * l \in Nat
    BY <1>1, Z3
  <2> DEFINE x == u * v
             y == N * l
  <2> HIDE DEF x, y
  <2>2. x \in Nat /\ y \in Nat
    BY <2>1 DEF x, y
  <2>3. fs * x \in Nat /\ fs * y \in Nat
    BY <2>2, Z3
  <2> QED BY <2>1, <2>3 DEF x, y
<1>4. acc * n = fs * (N * l) + fs * (u * v)
  <2> DEFINE x == u * v
             y == N * l
             z == i * n
  <2>1. acc * n = fs * z
    <3>1. (fs * i) * n = fs * (i * n)
      BY <1>1, Z3
    <3> QED BY <3>1
  <2> HIDE DEF x, y, z
  <2>2. x \in Nat /\ y \in Nat /\ z = y + x
    BY <1>2, <1>3 DEF x, y, z
  <2>3. fs * (y + x) = fs * y + fs * x
    BY <2>2, Z3
  <2> QED BY <2>1, <2>2, <2>3 DEF x, y
<1>5. total * l <= fs * (N * l)
  <2> DEFINE m == fs * N
  <2>1. m \in Nat
    BY Z3
  <2> HIDE DEF m
  <2>2. l * total <= l * m /\ total * l = l * total /\ l * m = m * l
    <3>1. total <= m
      BY DEF m
    <3>2. l * total <= l * m
      BY <1>1, <2>1, <3>1, TimesMono
    <3> QED BY <1>1, <2>1, <3>2, Z3
  <2>3. m * l = fs * (N * l)
    BY <1>1, Z3 DEF m
  <2> DEFINE x == fs * (N * l)
             y == total * l
  <2>4. y <= x
    BY <2>2, <2>3
  <2> QED BY <2>4
<1> DEFINE x == fs * (N * l)
           y == fs * (u * v)
           z == total * l
           w == acc * n
<1>6. x \in Nat /\ y \in Nat /\ w = x + y /\ z <= x /\ z \in Nat
  <2>1. z \in Nat
    BY <1>1, Z3
  <2> QED BY <1>3, <1>4, <1>5, <2>1
<1> HIDE DEF x, y, z, w
<1>7. w >= z
  BY <1>6
<1> QED BY <1>7 DEF w, z

(* The groups closed by frame i hold a frame each, and enough frames are   *)
(* left for the others.                                                    *)
Spread(b, n, i, len) ==
  /\ b[Len(b)] < len /\ \A g \in 1..(Len(b) - 1) : b[g] < b[g + 1]
  /\ Len(b) = n \/ n - Len(b) < len - i

(* The frames of t are as large as fs, but for the last one.               *)
Even(t, fs) ==
  /\ Acc(t) \in [0..Len(t) -> Nat] /\ decompressed_size(t) = Acc(t)[Len(t)]
  /\ \A i \in 0..(Len(t) - 1) : Acc(t)[i] = fs * i
  /\ Acc(t)[Len(t)] <= fs * Len(t)

LEMMA CloseSpread ==
  ASSUME NEW t, NEW N \in Nat \ {0}, N = Len(t), NEW fs \in Nat, Even(t, fs),
         NEW n \in 1..N, NEW i \in 1..N, NEW b,
         ClosedBy(b, n, i - 1, N), Spread(b, n, i - 1, N)
  PROVE  Spread(Closed(t, n, i, b), n, i, N)
<1> DEFINE l == Len(b)
           acc == Acc(t)[i]
           total == decompressed_size(t)
<1>1. /\ b \in Seq(0..N) /\ l \in 1..n /\ b[l] <= i - 1
      /\ b[l] < N /\ \A g \in 1..(l - 1) : b[g] < b[g + 1]
      /\ l = n \/ n - l < N - (i - 1)
  BY Zenon DEF ClosedBy, Spread
<1>2. b[l] \in 0..N
  <2>1. l \in 1..Len(b)
    BY <1>1
  <2> QED BY <1>1, <2>1, ElementOfSeq, Zenon
<1>3. acc \in Nat /\ total \in Nat /\ total <= fs * N /\ (i < N => acc = fs * i)
  <2>1. i \in 0..N /\ N \in 0..N /\ (i < N => i \in 0..(N - 1))
    OBVIOUS
  <2> QED BY <2>1, Zenon DEF Even
<1> HIDE DEF acc, total
<1>4. CASE CloseGroup(t, n, i, b)
  <2> DEFINE c == Append(b, i)
  <2>1. Closed(t, n, i, b) = c /\ l < n /\ N - i >= (n - l + 1) - 1
    BY <1>4, Zenon DEF Closed, CloseGroup
  <2>2. i < N /\ n - l <= N - i /\ l \in Nat /\ n \in Nat
    BY <1>1, <2>1
  <2>3. /\ c \in Seq(0..N) /\ Len(c) = l + 1 /\ c[l + 1] = i
        /\ \A g \in 1..l : c[g] = b[g]
    <3>1. i \in 0..N
      OBVIOUS
    <3> QED BY <1>1, <3>1, AppendProperties
  <2> HIDE DEF c
  <2>4. c[Len(c)] < N /\ n - Len(c) < N - i
    BY <2>2, <2>3
  <2>5. ASSUME NEW g \in 1..(Len(c) - 1)
        PROVE  c[g] < c[g + 1]
    <3>1. CASE g = l
      <4>1. c[g] = b[l] /\ c[g + 1] = i
        BY <1>1, <2>3, <3>1
      <4> QED BY <1>1, <1>2, <4>1
    <3>2. CASE g # l
      <4>1. g \in 1..(l - 1) /\ g \in 1..l /\ g + 1 \in 1..l
        BY <1>1, <2>3, <3>2
      <4> QED BY <1>1, <2>3, <4>1, Zenon
    <3> QED BY <3>1, <3>2
  <2> QED BY <2>1, <2>4, <2>5, Zenon DEF Spread
<1>5. CASE ~CloseGroup(t, n, i, b)
  <2>1. Closed(t, n, i, b) = b
    BY <1>5, Zenon DEF Closed
  <2>2. l = n \/ n - l < N - i
    <3>1. SUFFICES ASSUME l # n, ~(n - l < N - i)
                   PROVE  FALSE
      BY Zenon
    <3>2. N - i = n - l /\ l < n /\ i < N /\ l \in 0..n /\ n \in 0..N /\ i \in 0..N
      <4>1. l \in 1..n /\ l # n /\ n - l < N - (i - 1) /\ ~(n - l < N - i)
        BY <1>1, <3>1, Zenon
      <4> HIDE DEF l
      <4> QED BY <4>1
    <3>3. acc * n >= total * l
      BY <1>3, <3>2, ShareReached
    <3>4. N - i >= (n - l + 1) - 1
      BY <1>1, <3>2
    <3>5. CloseGroup(t, n, i, b)
      BY <3>2, <3>3, <3>4, Zenon DEF CloseGroup, acc, total
    <3> QED BY <1>5, <3>5
  <2> QED BY <1>1, <2>1, <2>2, Zenon DEF Spread
<1> QED BY <1>4, <1>5, Zenon

LEMMA NoGroupEmpty ==
  ASSUME NEW t, Len(t) \in Nat \ {0}, NEW fs \in Nat, Even(t, fs), NEW n \in 1..Len(t)
  PROVE  \A g \in 1..n : Bounds(t, n)[g] < Bounds(t, n)[g + 1]
<1> DEFINE N == Len(t)
<1>0. n \in Nat \ {0} /\ N \in Nat /\ N \in Nat \ {0} /\ N \in 0..N
  OBVIOUS
<1>1. PICK closed : Closes(closed, t, n) /\ Bounds(t, n) = Filled(closed[N], n, N)
  BY <1>0, BoundsAre, Zenon
<1>2. \A i \in 0..N : ClosedBy(closed[i], n, i, N)
  BY <1>0, <1>1, BoundsClose, Zenon
<1>3. closed[0] = <<0>> /\ \A i \in 1..N : closed[i] = Closed(t, n, i, closed[i - 1])
  BY <1>1, Zenon DEF Closes
<1> DEFINE S == {i \in 0..N : Spread(closed[i], n, i, N)}
           b == closed[N]
           c == Filled(b, n, N)
<1>4. N = Len(t) /\ n \in 1..N
  OBVIOUS
<1> HIDE DEF N
<1>5. 0 \in S
  <2>1. Len(<<0>>) = 1 /\ <<0>>[1] = 0 /\ 1..(1 - 1) = {} /\ 0 < N /\ n - 1 < N - 0 /\ 0 \in 0..N
    BY <1>0, <1>4
  <2>2. Spread(<<0>>, n, 0, N)
    BY <2>1, Zenon DEF Spread
  <2> QED BY <1>3, <2>1, <2>2, Zenon
<1>6. ASSUME NEW i \in 1..N, i - 1 \in S
      PROVE  i \in S
  <2>1. i \in 0..N /\ i - 1 \in 0..N
    BY <1>0
  <2>2. ClosedBy(closed[i - 1], n, i - 1, N) /\ Spread(closed[i - 1], n, i - 1, N)
    BY <1>2, <1>6, <2>1, Zenon
  <2>3. Spread(Closed(t, n, i, closed[i - 1]), n, i, N)
    BY <1>0, <1>4, <2>2, CloseSpread, Zenon
  <2> QED BY <1>3, <2>1, <2>3, Zenon
<1>7. 0..N \subseteq S
  <2> HIDE DEF S
  <2> QED BY <1>0, <1>5, <1>6, UpTo, Zenon
<1>8. Spread(b, n, N, N) /\ ClosedBy(b, n, N, N)
  BY <1>0, <1>2, <1>7, Zenon
<1> HIDE DEF b
<1>9. /\ b \in Seq(0..N) /\ Len(b) \in 1..n /\ b[Len(b)] < N
      /\ \A g \in 1..(Len(b) - 1) : b[g] < b[g + 1]
      /\ Len(b) = n \/ n - Len(b) < N - N
  BY <1>8, Zenon DEF Spread, ClosedBy
<1>10. Len(b) = n
  BY <1>0, <1>9
<1>11. \A g \in 1..(n + 1) : c[g] = IF g <= Len(b) THEN b[g] ELSE N
  BY <1>0, <1>8, FilledIs, SMT
<1> HIDE DEF c
<1>12. ASSUME NEW g \in 1..n
       PROVE  c[g] < c[g + 1]
  <2>1. /\ g \in 1..(n + 1) /\ g + 1 \in 1..(n + 1) /\ g <= n /\ n <= n
        /\ g # n => g \in 1..(n - 1) /\ g + 1 <= n
        /\ ~(n + 1 <= n)
    BY <1>0
  <2>2. CASE g = n
    BY <1>9, <1>10, <1>11, <2>1, <2>2, Zenon
  <2>3. CASE g # n
    BY <1>9, <1>10, <1>11, <2>1, <2>3, Zenon
  <2> QED BY <2>2, <2>3
<1> QED BY <1>1, <1>12, Zenon DEF c, b, N

-----------------------------------------------------------------------------
(* An archive that was not damaged.                                        *)

(* Its frames hold the chunks written so far; once the table is written it *)
(* lists them all, and so does the parsed table, which the groups divide.  *)
Undamaged ==
  /\ pc # "done" => /\ Chunked(data, FrameSize, checksum, entries)
                    /\ Framed(archive, data, entries)
  /\ pc = "write" => Len(archive) = CSum(entries)[Len(entries)]
  /\ pc \in {"stored", "ready", "decode"} => /\ DSum(entries)[Len(entries)] = Len(data)
                                            /\ Tabled(archive, entries, checksum)
  /\ pc \in {"ready", "decode"} => TableOf(table, entries, checksum)
  /\ pc = "decode" => bounds = Bounds(table, jobs)

ReadInvariant == faults.n \in Nat /\ (Intact => Undamaged)

(* The size of a chunk.                                                    *)
LEMMA SizeOfChunk == ASSUME size \in Nat PROVE FrameSize \in Nat \ {0}
BY DEF FrameSize

(* What is written.                                                        *)
LEMMA WrittenIs == Written = DSum(entries)[Len(entries)]
BY Zenon DEF Written, DSum

LEMMA ReadInit == Init => ReadInvariant
<1> SUFFICES ASSUME Init PROVE ReadInvariant
  OBVIOUS
<1>1. pc = "write" /\ entries = <<>> /\ archive = <<>> /\ faults.n = 0
  BY DEF Init
<1>2. entries \in Seq(EntryRecords) /\ Len(entries) = 0 /\ Len(archive) = 0 /\ 1..Len(entries) = {}
  BY <1>1
<1>3. CSum(entries)[0] = 0 /\ DSum(entries)[0] = 0
  BY <1>2, EntrySums, Zenon
<1>4. 0 <= Len(data)
  <2>1. data \in Seq(Byte)
    BY Constants, Zenon DEF Init
  <2> QED BY <2>1
<1>5. Chunked(data, FrameSize, checksum, entries) /\ Framed(archive, data, entries)
  BY <1>2, <1>3, <1>4, Zenon DEF Chunked, Framed
<1>6. Len(archive) = CSum(entries)[Len(entries)]
  BY <1>2, <1>3, Zenon
<1>7. Undamaged
  BY <1>1, <1>5, <1>6 DEF Undamaged
<1> QED BY <1>1, <1>7 DEF ReadInvariant

LEMMA ReadChunk ==
  ASSUME SeekInvariant, ReadInvariant, NEW len \in FrameLens, WriteChunk(len)
  PROVE  ReadInvariant'
<1> DEFINE W == Written
           n == IF Len(data) - W < FrameSize THEN Len(data) - W ELSE FrameSize
           chunk == SubSeq(data, W + 1, W + n)
           e == [cs |-> len, ds |-> n, ck |-> IF checksum THEN xxh64(chunk) ELSE 0]
<1>1. /\ pc = "write" /\ W < Len(data) /\ UNCHANGED <<input, faults, table, scope>>
      /\ \/ pc' = "done" /\ entries' = entries /\ archive' = archive
         \/ /\ entries' = Append(entries, e) /\ archive' = archive \o compress(chunk, len)
            /\ pc' = pc
  BY Zenon DEF WriteChunk
<1>2. faults' = faults /\ data' = data /\ size' = size /\ checksum' = checksum
  BY <1>1, Zenon DEF input
<1>3. CASE pc' = "done"
  <2>1. Undamaged'
    BY <1>3 DEF Undamaged
  <2> QED BY <1>2, <2>1, Zenon DEF ReadInvariant
<1>4. CASE ~Intact
  BY <1>2, <1>4, Zenon DEF ReadInvariant, Intact
<1>5. CASE pc' # "done" /\ Intact
  <2>1. entries' = Append(entries, e) /\ archive' = archive \o compress(chunk, len) /\ pc' = "write"
    BY <1>1, <1>5, Zenon
  <2>2. /\ Chunked(data, FrameSize, checksum, entries) /\ Framed(archive, data, entries)
        /\ Len(archive) = CSum(entries)[Len(entries)]
    BY <1>1, <1>5 DEF ReadInvariant, Undamaged
  <2>3. /\ data \in Seq(Byte) /\ size \in Nat /\ checksum \in BOOLEAN
        /\ entries \in Seq(EntryRecords) /\ archive \in Seq(Cells)
    BY Zenon DEF SeekInvariant, Arguments, Stored
  <2>4. FrameSize \in Nat \ {0} /\ W \in Nat /\ len \in Nat /\ len # 0
    BY <2>3, SizeOfChunk, WrittenIsNat, Constants
  <2> HIDE DEF W
  <2>5. Len(data) \in Nat
    BY <2>3
  <2>6. /\ n \in Nat /\ n \in 1..FrameSize /\ W + n <= Len(data)
        /\ n = FrameSize \/ W + n = Len(data)
    <3> DEFINE l == Len(data)
               s == FrameSize
    <3>1. l \in Nat /\ s \in Nat \ {0} /\ W \in Nat /\ W < l
      BY <1>1, <2>4, <2>5
    <3>2. n = IF l - W < s THEN l - W ELSE s
      OBVIOUS
    <3> HIDE DEF l, s, n
    <3>3. n \in Nat /\ n \in 1..s /\ W + n <= l /\ (n = s \/ W + n = l)
      BY <3>1, <3>2
    <3> QED BY <3>3 DEF l, s
  <2> HIDE DEF n
  <2>7. chunk \in Seq(Byte)
    <3> DEFINE hi == W + n
    <3>1. hi \in Nat /\ W <= hi /\ hi <= Len(data)
      BY <2>4, <2>6
    <3> HIDE DEF hi, Byte
    <3>2. SubSeq(data, W + 1, hi) \in Seq(Byte)
      BY <2>3, <2>4, <3>1, Slice
    <3> QED BY <3>2 DEF hi
  <2> HIDE DEF chunk
  <2>8. e \in EntryRecords /\ e.cs = len /\ e.ds = n /\ e.ck = IF checksum THEN xxh64(chunk) ELSE 0
    <3>1. xxh64(chunk) \in Nat
      BY <2>7, DigestIsNat
    <3> QED BY <2>4, <2>6, <3>1 DEF EntryRecords
  <2> HIDE DEF e
  <2>9. W = DSum(entries)[Len(entries)]
    BY WrittenIs, Zenon DEF W
  <2>10. /\ Chunked(data, FrameSize, checksum, Append(entries, e))
         /\ Framed(archive \o compress(chunk, len), data, Append(entries, e))
         /\ Len(archive \o compress(chunk, len))
              = CSum(Append(entries, e))[Len(Append(entries, e))]
    <3>1. /\ e.cs # 0 /\ e.ds \in 1..FrameSize
          /\ chunk = SubSeq(data, DSum(entries)[Len(entries)] + 1,
                            DSum(entries)[Len(entries)] + e.ds)
          /\ DSum(entries)[Len(entries)] + e.ds <= Len(data)
          /\ e.ds = FrameSize \/ DSum(entries)[Len(entries)] + e.ds = Len(data)
      BY <2>4, <2>6, <2>8, <2>9, Zenon DEF chunk
    <3>2. /\ Writing(archive, data, FrameSize, checksum, entries)
          /\ NextChunk(data, FrameSize, checksum, entries, e, chunk)
      BY <2>2, <2>3, <2>7, <2>8, <3>1, Zenon DEF Writing, NextChunk
    <3>3. /\ Chunked(data, FrameSize, checksum, Append(entries, e))
          /\ Framed(archive \o compress(chunk, e.cs), data, Append(entries, e))
          /\ Len(archive \o compress(chunk, e.cs))
               = CSum(Append(entries, e))[Len(Append(entries, e))]
      BY ONLY <3>2, ChunkWritten, SMT
    <3> QED BY <2>8, <3>3, Zenon
  <2>11. Undamaged'
    <3>1. FrameSize' = FrameSize
      BY <1>2 DEF FrameSize
    <3>2. /\ Chunked(data, FrameSize, checksum, entries)' /\ Framed(archive, data, entries)'
          /\ (Len(archive) = CSum(entries)[Len(entries)])'
      BY <1>2, <2>1, <2>10, <3>1, Zenon
    <3> QED BY <2>1, <3>2 DEF Undamaged
  <2> QED BY <1>2, <2>11, Zenon DEF ReadInvariant
<1> QED BY <1>3, <1>4, <1>5, Zenon

LEMMA ReadTable ==
  ASSUME SeekInvariant, ReadInvariant, WriteTable
  PROVE  ReadInvariant'
<1>1. /\ pc = "write" /\ Written = Len(data) /\ UNCHANGED <<input, entries, faults, table, scope>>
      /\ \/ pc' = "done" /\ archive' = archive
         \/ pc' = "stored" /\ archive' = archive \o SeekTableCells
  BY Zenon DEF WriteTable
<1>2. /\ faults' = faults /\ data' = data /\ size' = size /\ checksum' = checksum
      /\ entries' = entries
  BY <1>1, Zenon DEF input
<1>3. CASE pc' = "done"
  <2>1. Undamaged'
    BY <1>3 DEF Undamaged
  <2> QED BY <1>2, <2>1, Zenon DEF ReadInvariant
<1>4. CASE ~Intact
  BY <1>2, <1>4, Zenon DEF ReadInvariant, Intact
<1>5. CASE pc' # "done" /\ Intact
  <2>1. pc' = "stored" /\ archive' = archive \o SeekTableCells
    BY <1>1, <1>5, Zenon
  <2>2. /\ Chunked(data, FrameSize, checksum, entries) /\ Framed(archive, data, entries)
        /\ Len(archive) = CSum(entries)[Len(entries)]
    BY <1>1, <1>5 DEF ReadInvariant, Undamaged
  <2>3. \A i \in 1..Len(entries) : entries[i].cs # 0
    BY <2>2, Zenon DEF Chunked
  <2>4. /\ Tabled(archive \o SeekTableCells, entries, checksum)
        /\ Framed(archive \o SeekTableCells, data, entries)
    BY <2>2, <2>3, TableWritten, Zenon DEF SeekInvariant
  <2>5. DSum(entries)[Len(entries)] = Len(data)
    BY <1>1, WrittenIs, Zenon
  <2>6. Undamaged'
    <3>1. FrameSize' = FrameSize
      BY <1>2 DEF FrameSize
    <3>2. /\ Chunked(data, FrameSize, checksum, entries)' /\ Framed(archive, data, entries)'
          /\ (DSum(entries)[Len(entries)] = Len(data))' /\ Tabled(archive, entries, checksum)'
      BY <1>2, <2>1, <2>2, <2>4, <2>5, <3>1, Zenon
    <3> QED BY <2>1, <3>2 DEF Undamaged
  <2> QED BY <1>2, <2>6, Zenon DEF ReadInvariant
<1> QED BY <1>3, <1>4, <1>5, Zenon

LEMMA ReadDamage ==
  ASSUME SeekInvariant, ReadInvariant, DamageArchive
  PROVE  ReadInvariant'
<1>1. faults' = [n |-> faults.n + 1, late |-> pc = "ready"]
  BY Zenon DEF DamageArchive
<1>2. faults.n \in Nat
  BY DEF ReadInvariant
<1>3. faults'.n = faults.n + 1
  BY <1>1, Zenon
<1>4. faults'.n \in Nat /\ faults'.n # 0
  BY <1>2, <1>3
<1> QED BY <1>4, Zenon DEF ReadInvariant, Intact

LEMMA ReadParse ==
  ASSUME SeekInvariant, ReadInvariant, Parse
  PROVE  ReadInvariant'
<1>1. /\ pc = "stored" /\ table' = Parsed(archive)
      /\ IF table' = None THEN pc' = "done" ELSE pc' = "ready"
      /\ UNCHANGED <<input, entries, archive, faults, scope>>
  BY Zenon DEF Parse
<1>2. /\ faults' = faults /\ data' = data /\ size' = size /\ checksum' = checksum
      /\ entries' = entries /\ archive' = archive
  BY <1>1, Zenon DEF input
<1>3. CASE ~Intact
  BY <1>2, <1>3, Zenon DEF ReadInvariant, Intact
<1>4. CASE Intact
  <2>1. /\ Chunked(data, FrameSize, checksum, entries) /\ Framed(archive, data, entries)
        /\ DSum(entries)[Len(entries)] = Len(data) /\ Tabled(archive, entries, checksum)
    BY <1>1, <1>4 DEF ReadInvariant, Undamaged
  <2>2. Parsed(archive) # None /\ TableOf(Parsed(archive), entries, checksum)
    BY <2>1, ParsedIs, Zenon DEF SeekInvariant, Arguments, Stored
  <2>3. pc' = "ready" /\ TableOf(table', entries, checksum)
    BY <1>1, <2>2, Zenon
  <2>4. Undamaged'
    <3>1. FrameSize' = FrameSize
      BY <1>2 DEF FrameSize
    <3>2. /\ Chunked(data, FrameSize, checksum, entries)' /\ Framed(archive, data, entries)'
          /\ (DSum(entries)[Len(entries)] = Len(data))' /\ Tabled(archive, entries, checksum)'
          /\ TableOf(table, entries, checksum)'
      BY <1>2, <2>1, <2>3, <3>1, Zenon
    <3> QED BY <2>3, <3>2 DEF Undamaged
  <2> QED BY <1>2, <2>4, Zenon DEF ReadInvariant
<1> QED BY <1>3, <1>4

(* The calls that leave the archive and its table alone.                   *)
LEMMA ReadSame ==
  ASSUME ReadInvariant, UNCHANGED <<data, size, checksum, entries, archive, faults, table>>,
         \/ pc' = "done"
         \/ pc = "ready" /\ pc' = "decode" /\ bounds' = Bounds(table, jobs')
         \/ UNCHANGED <<pc, jobs, bounds>>
  PROVE  ReadInvariant'
<1>1. /\ faults' = faults /\ data' = data /\ size' = size /\ checksum' = checksum
      /\ entries' = entries /\ archive' = archive /\ table' = table
  BY Zenon
<1>2. FrameSize' = FrameSize
  BY <1>1 DEF FrameSize
<1>3. CASE ~Intact
  BY <1>1, <1>3, Zenon DEF ReadInvariant, Intact
<1>4. CASE pc' = "done"
  <2>1. Undamaged'
    BY <1>4 DEF Undamaged
  <2> QED BY <1>1, <2>1, Zenon DEF ReadInvariant
<1>5. CASE Intact /\ pc = "ready" /\ pc' = "decode" /\ bounds' = Bounds(table, jobs')
  <2>1. /\ Chunked(data, FrameSize, checksum, entries) /\ Framed(archive, data, entries)
        /\ DSum(entries)[Len(entries)] = Len(data) /\ Tabled(archive, entries, checksum)
        /\ TableOf(table, entries, checksum)
    BY <1>5 DEF ReadInvariant, Undamaged
  <2>2. /\ Chunked(data, FrameSize, checksum, entries)' /\ Framed(archive, data, entries)'
        /\ (DSum(entries)[Len(entries)] = Len(data))' /\ Tabled(archive, entries, checksum)'
        /\ TableOf(table, entries, checksum)' /\ (bounds = Bounds(table, jobs))'
    BY <1>1, <1>2, <1>5, <2>1, Zenon
  <2>3. Undamaged'
    BY <1>5, <2>2 DEF Undamaged
  <2> QED BY <1>1, <2>3, Zenon DEF ReadInvariant
<1>6. CASE Intact /\ UNCHANGED <<pc, jobs, bounds>>
  <2>1. Undamaged
    BY <1>6, Zenon DEF ReadInvariant
  <2>2. Undamaged'
    BY <1>1, <1>2, <1>6, <2>1, Zenon DEF Undamaged
  <2> QED BY <1>1, <2>2, Zenon DEF ReadInvariant
<1> QED BY <1>3, <1>4, <1>5, <1>6, Zenon

LEMMA ReadNext == SeekInvariant /\ ReadInvariant /\ [Next]_vars => ReadInvariant'
<1> SUFFICES ASSUME SeekInvariant, ReadInvariant, [Next]_vars PROVE ReadInvariant'
  OBVIOUS
<1>1. CASE WriteTable
  BY <1>1, ReadTable
<1>2. CASE Parse
  BY <1>2, ReadParse
<1>3. CASE Join
  BY <1>3, ReadSame DEF Join, input
<1>4. CASE EndScope
  BY <1>4, ReadSame DEF EndScope, input
<1>5. ASSUME NEW len \in FrameLens, WriteChunk(len)
      PROVE  ReadInvariant'
  BY <1>5, ReadChunk
<1>6. ASSUME NEW n \in JobCounts, NEW m \in Ceilings, decompress_seekable_parallel_capped(n, m)
      PROVE  ReadInvariant'
  <2>1. /\ UNCHANGED <<data, size, checksum, entries, archive, faults, table>>
        /\ \/ pc' = "done"
           \/ pc = "ready" /\ pc' = "decode" /\ bounds' = Bounds(table, jobs')
    BY <1>6, Zenon DEF decompress_seekable_parallel_capped, input
  <2> QED BY <2>1, ReadSame
<1>7. CASE DamageArchive
  BY <1>7, ReadDamage
<1>8. ASSUME NEW g \in 1..jobs, WorkerFrame(g)
      PROVE  ReadInvariant'
  BY <1>8, ReadSame DEF WorkerFrame, input
<1>9. CASE UNCHANGED vars
  BY <1>9, ReadSame DEF vars, input, scope
<1> QED
  BY <1>1, <1>2, <1>3, <1>4, <1>5, <1>6, <1>7, <1>8, <1>9, Zenon DEF Next, Main

(* What RoundTrip says of an undamaged archive.                            *)
LEMMA ReadableBack == SeekInvariant /\ ReadInvariant => RoundTrip
<1> SUFFICES ASSUME SeekInvariant, ReadInvariant, Intact PROVE RoundTrip
  BY Zenon DEF RoundTrip, NoIdleWorker
<1>1. /\ data \in Seq(Byte) /\ size \in Nat /\ checksum \in BOOLEAN /\ archive \in Seq(Cells)
      /\ FrameSize \in Nat \ {0}
  <2>1. data \in Seq(Byte) /\ size \in Nat /\ checksum \in BOOLEAN /\ archive \in Seq(Cells)
    BY Zenon DEF SeekInvariant, Arguments, Stored
  <2> QED BY <2>1, SizeOfChunk, Zenon
<1>2. Undamaged
  BY Zenon DEF ReadInvariant
<1>3. ASSUME pc \in {"stored", "ready", "decode"}
      PROVE  /\ Chunked(data, FrameSize, checksum, entries) /\ Framed(archive, data, entries)
             /\ DSum(entries)[Len(entries)] = Len(data) /\ Tabled(archive, entries, checksum)
             /\ entries \in Seq(EntryRecords)
             /\ CSum(entries)[Len(entries)] <= Len(archive)
  <2>1. /\ Chunked(data, FrameSize, checksum, entries) /\ Framed(archive, data, entries)
        /\ DSum(entries)[Len(entries)] = Len(data) /\ Tabled(archive, entries, checksum)
    <3>1. pc # "done"
      BY <1>3
    <3> QED BY <1>2, <1>3, <3>1, Zenon DEF Undamaged
  <2>2. entries \in Seq(EntryRecords)
    BY <2>1, Zenon DEF Chunked
  <2>3. CSum(entries)[Len(entries)] <= Len(archive)
    <3> DEFINE p == CSum(entries)[Len(entries)]
               x == Len(entries) * EntrySize(checksum)
    <3>1. p \in Nat
      <4>1. Len(entries) \in Nat /\ CSum(entries) \in [0..Len(entries) -> Nat]
        BY <2>2, EntrySums, Zenon
      <4>2. Len(entries) \in 0..Len(entries)
        BY <4>1
      <4> QED BY <4>1, <4>2
    <3>2. x \in Nat
      <4>1. EntrySize(checksum) \in {2, 3} /\ Len(entries) \in Nat
        BY <2>2 DEF EntrySize
      <4> QED BY <4>1
    <3>3. Len(archive) = p + SkippableHeader + (x + FooterSize)
      BY <2>1, Zenon DEF Tabled
    <3> HIDE DEF p, x
    <3>4. p <= Len(archive)
      BY <3>1, <3>2, <3>3 DEF SkippableHeader, FooterSize
    <3> QED BY <3>4 DEF p
  <2> QED BY <2>1, <2>2, <2>3
<1>4. NoIdleWorker
  <2> SUFFICES ASSUME pc = "decode" PROVE \A g \in 1..jobs : bounds[g] < bounds[g + 1]
    BY Zenon DEF NoIdleWorker
  <2>1. TableOf(table, entries, checksum) /\ bounds = Bounds(table, jobs)
    BY <1>2 DEF Undamaged
  <2>2. jobs \in 1..Len(table)
    BY Zenon DEF SeekInvariant, Decoding, Decodes
  <2>3. Len(table) \in Nat \ {0}
    <3>1. Len(table) \in Nat
      BY <2>1, AccFacts, Zenon DEF TableOf
    <3> QED BY <2>2, <3>1
  <2>4. Even(table, FrameSize)
    <3>1. pc \in {"stored", "ready", "decode"}
      OBVIOUS
    <3>2. /\ \A i \in 0..(Len(entries) - 1) : DSum(entries)[i] = FrameSize * i
          /\ DSum(entries)[Len(entries)] <= FrameSize * Len(entries)
      BY <1>1, <1>3, <3>1, FullChunks
    <3>3. /\ Acc(table) \in [0..Len(table) -> Nat]
          /\ decompressed_size(table) = Acc(table)[Len(table)]
      BY <2>1, AccFacts, Zenon DEF TableOf
    <3> QED BY <2>1, <3>2, <3>3, Zenon DEF Even, TableOf
  <2>5. FrameSize \in Nat
    BY <1>1
  <2> QED BY <2>1, <2>2, <2>3, <2>4, <2>5, NoGroupEmpty, Zenon
<1>5. ASSUME pc = "stored"
      PROVE  Parsed(archive) # None /\ decompress_capped(archive, Len(data)) = Ok(data)
  <2>1. pc \in {"stored", "ready", "decode"}
    BY <1>5
  <2>2. Parsed(archive) # None
    BY <1>1, <1>3, <2>1, ParsedIs, Zenon
  <2>3. decompress_capped(archive, Len(data)) = Ok(data)
    BY <1>1, <1>3, <2>1, StreamDecodes, SMT
  <2> QED BY <2>2, <2>3
<1>6. ASSUME pc = "ready"
      PROVE  FlattenSeq([i \in 1..Len(table) |->
               decompress_seekable_frame(archive, table, i).bytes]) = data
  <2>1. pc \in {"stored", "ready", "decode"}
    BY <1>6
  <2>2. TableOf(table, entries, checksum)
    BY <1>2, <1>6 DEF Undamaged
  <2> QED BY <1>1, <1>3, <2>1, <2>2, ReadsBack, SMTT(30)
<1> QED BY <1>4, <1>5, <1>6, Zenon DEF RoundTrip

(* compress_seekable and its readers: for every input, frame size and      *)
(* length of the compressed frames, an archive that was not damaged parses *)
(* to the entries written, each of its frames decodes to its chunk, a      *)
(* decoder that skips the table yields the input, and every worker of the  *)
(* parallel decode has a frame to decode.                                  *)
THEOREM ArchiveReadsBack == Spec => []RoundTrip
<1>1. Spec => []ReadInvariant
  <2>1. SeekInvariant /\ ReadInvariant /\ [Next]_vars => ReadInvariant'
    BY ReadNext
  <2>2. Init => ReadInvariant
    BY ReadInit
  <2> QED BY <2>1, <2>2, SeekInvariance, PTL DEF Spec
<1>2. SeekInvariant /\ ReadInvariant => RoundTrip
  BY ReadableBack
<1> QED
  BY <1>1, <1>2, SeekInvariance, PTL
=============================================================================

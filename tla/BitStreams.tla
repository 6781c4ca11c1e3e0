----------------------------- MODULE BitStreams -----------------------------
(***************************************************************************)
(* The bit readers of src/bits.rs and the writer of                        *)
(* src/encode/bitstream.rs, as operators on their registers.               *)
(*                                                                         *)
(* A stream is the sequence of its bits, eight to a byte, the least        *)
(* significant first.  A register is not kept as a number but as the part  *)
(* of the stream it holds: where it was loaded from and how much of it is  *)
(* used up.                                                                *)
(***************************************************************************)
EXTENDS BitNumbers, Sequences, SequencesExt

Container == 64  \* bits in the writer's and the readers' registers

Zeros(n)     == [i \in 1..n |-> 0]
DivUp(a, b)  == (a + b - 1) \div b

RECURSIVE SumOf(_)
SumOf(s) ==
  IF s = <<>> THEN 0 ELSE IF Len(s) = 1 THEN s[1]
  ELSE LET half == Len(s) \div 2
       IN  SumOf(SubSeq(s, 1, half)) + SumOf(SubSeq(s, half + 1, Len(s)))

(* The n low bits of a number, and the number they make.                   *)
ToBits(v, n) == [i \in 1..n |-> (v \div 2^(i - 1)) % 2]
FromBits(b)  == SumOf([i \in 1..Len(b) |-> b[i] * 2^(i - 1)])

-----------------------------------------------------------------------------
(* BitWriter.  "full": its register was, so that the next flush would have *)
(* shifted it by its own width, and there is no stream.                    *)

NewWriter == [acc |-> <<>>, out |-> <<>>, full |-> FALSE]

flush_full_bytes(w) ==
  LET whole == 8 * (Len(w.acc) \div 8)
  IN  [w EXCEPT !.acc = SubSeq(@, whole + 1, Len(@)), !.out = @ \o SubSeq(w.acc, 1, whole)]

Put(w, field) ==
  [w EXCEPT !.acc = @ \o field, !.full = @ \/ Len(w.acc) + Len(field) >= Container]

add(w, field) ==
  LET v == IF Len(w.acc) + Len(field) >= Container THEN flush_full_bytes(w) ELSE w
  IN  Put(v, field)

(* The sentinel ends the stream, which is padded to a byte.                *)
Ended(w) ==
  LET v == flush_full_bytes(w)
  IN  IF w.full THEN <<>>
      ELSE v.out \o (IF v.acc = <<>> THEN <<>> ELSE v.acc \o Zeros(8 - Len(v.acc)))
finish(w) == Ended(add(w, <<1>>))

-----------------------------------------------------------------------------
(* ReverseBitReader: its register holds the 64 bits of the stream from     *)
(* byte ptr on, the highest "consumed" of them used up.                    *)

NumBytes(s) == Len(s) \div 8
LastByte(s) == SubSeq(s, Len(s) - 7, Len(s))

NewReader(s) ==
  IF s = <<>> \/ FromBits(LastByte(s)) = 0 THEN None
  ELSE LET past == 8 - highbit32(FromBits(LastByte(s)))
       IN  IF NumBytes(s) >= 8 THEN [ptr |-> NumBytes(s) - 8, consumed |-> past]
           ELSE [ptr |-> 0, consumed |-> past + 8 * (8 - NumBytes(s))]

(* The next n bits, in the order they are read.  The shift is taken modulo *)
(* 64 and brings in zeros.                                                 *)
peek(s, r, n) ==
  [k \in 1..n |->
     LET i == 64 - (r.consumed % 64) - k  \* bit i of the register
     IN  IF i >= 0 /\ 8 * r.ptr + i < Len(s) THEN s[8 * r.ptr + i + 1] ELSE 0]
consume(r, n) == [r EXCEPT !.consumed = @ + n]

Loaded(r, bytes) == [ptr |-> r.ptr - bytes, consumed |-> r.consumed - 8 * bytes]
reload(r) ==
  IF r.consumed > Container THEN [status |-> "Overflow", r |-> r]
  ELSE IF r.ptr >= 8 THEN [status |-> "Unfinished", r |-> Loaded(r, r.consumed \div 8)]
  ELSE IF r.ptr = 0
       THEN [status |-> IF r.consumed < Container THEN "EndOfBuffer" ELSE "Completed", r |-> r]
  ELSE IF r.ptr < r.consumed \div 8 THEN [status |-> "EndOfBuffer", r |-> Loaded(r, r.ptr)]
  ELSE [status |-> "Unfinished", r |-> Loaded(r, r.consumed \div 8)]

ensure(r, n) == IF r.consumed + n > Container THEN reload(r).r ELSE r

(* The bits of the stream the reader has not consumed.                     *)
Remaining(r) == 8 * r.ptr + Container - r.consumed

(* As a number, the first bit read is the most significant.                *)
PeekNum(s, r, n) == FromBits(Reverse(peek(s, r, n)))

-----------------------------------------------------------------------------
(* ForwardBitReader: its register holds the "live" bits before byte idx.   *)

refill(s, f) ==
  LET bytes == Lesser((Container - f.live) \div 8, NumBytes(s) - f.idx)
  IN  [idx |-> f.idx + bytes, live |-> f.live + 8 * bytes]
NewForward(s) == refill(s, [idx |-> 0, live |-> 0])

(* The register before a peek of n bits, the peek itself (zeros follow the *)
(* last byte), and the register afterwards.                                *)
ForPeek(s, f, n) == IF f.live < n THEN refill(s, f) ELSE f
ForwardPeek(s, f, n) ==
  LET g == ForPeek(s, f, n)
  IN  [k \in 1..n |-> IF k <= g.live THEN s[8 * g.idx - g.live + k] ELSE 0]
ForwardConsume(s, f, n) ==
  LET g == ForPeek(s, f, n) IN [g EXCEPT !.live = IF @ >= n THEN @ - n ELSE 0]

bytes_consumed(f) == DivUp(8 * f.idx - f.live, 8)
=============================================================================

------------------------------- MODULE Hasher -------------------------------
(***************************************************************************)
(* The streaming XXH64 of src/xxhash.rs and the one-shot function it must  *)
(* agree with.  The arithmetic is left out: a digest is the term made of   *)
(* what enters it, in order: the length, the stripes the four accumulators *)
(* absorbed, and the tail in steps of eight, four and one bytes.           *)
(***************************************************************************)
EXTENDS Integers, Sequences

CONSTANTS
  Stripe,   \* bytes that are absorbed at once: 32
  Byte,
  Pieces,   \* what one call of update may get
  MaxCalls

ASSUME StripeAssumption == Stripe \in Nat \ {0}
ASSUME PiecesAssumption == Pieces \subseteq Seq(Byte) /\ 0 \in Byte

VARIABLES
  input,      \* everything passed to update so far
  calls,      \* how many calls that took
  total_len,
  v,          \* the bytes of all absorbed stripes
  mem,        \* the buffered bytes, of which memsize count
  memsize

hashVars == <<input, calls, total_len, v, mem, memsize>>

(* The end of a hash: words of eight bytes, one of four, single bytes.     *)
Tail_Words(s) ==
  LET eight == 8 * (Len(s) \div 8)
      four  == IF eight + 4 <= Len(s) THEN eight + 4 ELSE eight
  IN  <<SubSeq(s, 1, eight), SubSeq(s, eight + 1, four), SubSeq(s, four + 1, Len(s))>>

(* "seeded" stands for accumulators no stripe has entered.                 *)
Term(len, stripes, rest) == <<len, stripes, Tail_Words(rest)>>

xxh64(data) ==
  LET whole == Stripe * (Len(data) \div Stripe)
  IN  Term(Len(data), IF Len(data) >= Stripe THEN SubSeq(data, 1, whole) ELSE <<"seeded">>,
           SubSeq(data, whole + 1, Len(data)))

digest_Whole ==  \* mutant: hashes the whole buffer
  Term(total_len, IF total_len >= Stripe THEN v ELSE <<"seeded">>, mem)
digest ==
  Term(total_len, IF total_len >= Stripe THEN v ELSE <<"seeded">>, SubSeq(mem, 1, memsize))

(* The buffer with s copied to position "at".                              *)
Copied(at, s, buffer) ==
  [i \in 1..Stripe |-> IF at < i /\ i <= at + Len(s) THEN s[i - at] ELSE buffer[i]]

HashInit ==
  /\ input = <<>> /\ calls = 0 /\ total_len = 0
  /\ v = <<>> /\ mem = [i \in 1..Stripe |-> 0] /\ memsize = 0

(* Not enough for a stripe.                                                *)
Fits(piece) == memsize + Len(piece) < Stripe
Buffer(piece) ==
  /\ Fits(piece)
  /\ mem' = Copied(memsize, piece, mem)
  /\ memsize' = memsize + Len(piece)
  /\ v' = v

(* The buffer is filled up, whole stripes are taken straight from the      *)
(* input, and what is left of it is buffered.                              *)
Need(piece) == IF memsize > 0 THEN Stripe - memsize ELSE 0
NewSize_Kept(left) ==  \* mutant: nothing left, nothing reset
  IF left = <<>> THEN memsize ELSE Len(left)
NewSize(left) == Len(left)
Absorb(piece) ==
  LET need  == Need(piece)
      full  == Copied(memsize, SubSeq(piece, 1, need), mem)
      rest  == SubSeq(piece, need + 1, Len(piece))
      whole == Stripe * (Len(rest) \div Stripe)
      left  == SubSeq(rest, whole + 1, Len(rest))
  IN  /\ ~Fits(piece)
      /\ v' = (IF memsize > 0 THEN v \o full ELSE v) \o SubSeq(rest, 1, whole)
      /\ mem' = Copied(0, left, IF memsize > 0 THEN full ELSE mem)
      /\ memsize' = NewSize(left)

update(piece) ==
  /\ calls < MaxCalls /\ calls' = calls + 1
  /\ input' = input \o piece
  /\ total_len' = total_len + Len(piece)
  /\ Buffer(piece) \/ Absorb(piece)

HashNext == \E piece \in Pieces : update(piece)
HashSpec == HashInit /\ [][HashNext]_hashVars

-----------------------------------------------------------------------------
(* The buffer never holds a whole stripe between calls.                    *)
TypeOK ==
  /\ input \in Seq(Byte) /\ v \in Seq(Byte)
  /\ total_len = Len(input)
  /\ mem \in [1..Stripe -> Byte]
  /\ memsize \in 0..(Stripe - 1)

(* "Matches the one-shot xxh64 byte-for-byte regardless of chunk           *)
(* boundaries": after any sequence of updates.                             *)
DigestMatches == digest = xxh64(input)

(* The invariant behind it: absorbed and buffered bytes are the input.     *)
Split ==
  /\ input = v \o SubSeq(mem, 1, memsize)
  /\ Len(v) = Stripe * (Len(input) \div Stripe)
Inv == TypeOK /\ Split
=============================================================================

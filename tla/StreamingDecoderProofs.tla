----------------------- MODULE StreamingDecoderProofs -----------------------
(***************************************************************************)
(* Proofs about StreamingDecoder, for every set of frames, dictionaries,   *)
(* buffer sizes and bytes: its invariants, which rest on IInv, and then    *)
(* the theorem that it delivers what the one-shot decoder makes of the     *)
(* same input (DecoderContract).  That one needs Sim as well, which says   *)
(* at every point of a block where the one-shot decoder is.                *)
(***************************************************************************)
EXTENDS DecoderContract, DataLemmas, SequenceTheorems, TLAPS

-----------------------------------------------------------------------------
(* Facts about sequences.                                                  *)

(* A subsequence within bounds: its length and its elements.               *)
LEMMA SubSeqFacts ==
  ASSUME NEW S, NEW s \in Seq(S), NEW m \in Nat \ {0}, NEW n \in Nat,
         m <= n + 1, n <= Len(s)
  PROVE  /\ SubSeq(s, m, n) \in Seq(S)
         /\ Len(SubSeq(s, m, n)) = n - m + 1
         /\ \A i \in 1..(n - m + 1) : SubSeq(s, m, n)[i] = s[m + i - 1]
<1>1. \A i \in m..n : s[i] \in S
  OBVIOUS
<1>2. QED
  BY <1>1, SubSeqProperties

(* A concatenation: its length and its elements.                           *)
LEMMA ConcatFacts ==
  ASSUME NEW S, NEW s \in Seq(S), NEW t \in Seq(S)
  PROVE  /\ s \o t \in Seq(S)
         /\ Len(s \o t) = Len(s) + Len(t)
         /\ \A i \in 1..Len(s) : (s \o t)[i] = s[i]
         /\ \A i \in 1..Len(t) : (s \o t)[Len(s) + i] = t[i]
  OBVIOUS

(* Draining d bytes and moving the cursor r by as much leaves the bytes    *)
(* behind the cursor as they were.                                         *)
LEMMA DrainKeepsPending ==
  ASSUME NEW S, NEW o \in Seq(S), NEW r \in Nat, NEW d \in Nat,
         d <= r, r <= Len(o)
  PROVE  LET kept == SubSeq(o, d + 1, Len(o))
         IN  SubSeq(kept, r - d + 1, Len(kept)) = SubSeq(o, r + 1, Len(o))
<1> DEFINE kept == SubSeq(o, d + 1, Len(o))
           a == SubSeq(kept, r - d + 1, Len(kept))
           b == SubSeq(o, r + 1, Len(o))
<1>0. Len(o) \in Nat
  OBVIOUS
<1>1. /\ kept \in Seq(S) /\ Len(kept) = Len(o) - d
      /\ \A i \in 1..(Len(o) - d) : kept[i] = o[d + i]
  <2>1. /\ kept \in Seq(S) /\ Len(kept) = Len(o) - (d + 1) + 1
        /\ \A i \in 1..(Len(o) - (d + 1) + 1) : kept[i] = o[(d + 1) + i - 1]
    BY <1>0, SubSeqFacts
  <2>2. QED
    BY <1>0, <2>1
<1> HIDE DEF kept
<1>2. /\ a \in Seq(S) /\ Len(a) = Len(o) - r
      /\ \A i \in 1..(Len(o) - r) : a[i] = kept[r - d + i]
  <2>1. /\ a \in Seq(S) /\ Len(a) = Len(kept) - (r - d + 1) + 1
        /\ \A i \in 1..(Len(kept) - (r - d + 1) + 1) :
             a[i] = kept[(r - d + 1) + i - 1]
    BY <1>0, <1>1, SubSeqFacts
  <2>2. QED
    BY <1>0, <1>1, <2>1
<1>3. /\ b \in Seq(S) /\ Len(b) = Len(o) - r
      /\ \A i \in 1..(Len(o) - r) : b[i] = o[r + i]
  <2>1. /\ b \in Seq(S) /\ Len(b) = Len(o) - (r + 1) + 1
        /\ \A i \in 1..(Len(o) - (r + 1) + 1) : b[i] = o[(r + 1) + i - 1]
    BY <1>0, SubSeqFacts
  <2>2. QED
    BY <1>0, <2>1
<1> HIDE DEF a, b
<1>4. ASSUME NEW i \in 1..Len(a)
      PROVE  a[i] = b[i]
  <2>1. i \in 1..(Len(o) - r) /\ r - d + i \in 1..(Len(o) - d)
    BY <1>0, <1>2
  <2>2. a[i] = kept[r - d + i] /\ b[i] = o[r + i]
    BY <2>1, <1>2, <1>3
  <2>3. kept[r - d + i] = o[d + (r - d + i)]
    BY <2>1, <1>1
  <2>4. d + (r - d + i) = r + i
    BY <2>1
  <2>5. QED
    BY <2>2, <2>3, <2>4
<1>5. a = b
  BY <1>2, <1>3, <1>4, SeqEqual
<1>6. QED
  BY <1>5 DEF a, b, kept

(* Concatenation of bytes is associative.                                  *)
LEMMA ConcatBytes ==
  ASSUME NEW s \in Seq(Byte), NEW t \in Seq(Byte), NEW u \in Seq(Byte)
  PROVE  (s \o t) \o u = s \o (t \o u)
  BY ConcatAssociative

(* Handing over the n bytes at the cursor r splits what was pending.       *)
LEMMA SplitPending ==
  ASSUME NEW d \in Seq(Byte), NEW o \in Seq(Byte), NEW r \in Nat,
         NEW n \in Nat, r + n <= Len(o)
  PROVE  d \o SubSeq(o, r + 1, Len(o))
           = (d \o SubSeq(o, r + 1, r + n)) \o SubSeq(o, r + n + 1, Len(o))
<1>1. SubSeq(o, r + 1, r + n) \o SubSeq(o, r + n + 1, Len(o))
        = SubSeq(o, r + 1, Len(o))
  <2>1. /\ r + 1 \in 1..(Len(o) + 1)
        /\ r + n \in ((r + 1) - 1)..Len(o)
        /\ Len(o) \in (r + n)..Len(o)
    OBVIOUS
  <2>2. QED
    BY <2>1, ConcatAdjacentSubSeq
<1>2. /\ SubSeq(o, r + 1, r + n) \in Seq(Byte)
      /\ SubSeq(o, r + n + 1, Len(o)) \in Seq(Byte)
  <2>1. /\ r + 1 \in Nat \ {0} /\ r + n \in Nat /\ r + n + 1 \in Nat \ {0}
        /\ Len(o) \in Nat /\ r + 1 <= (r + n) + 1 /\ r + n + 1 <= Len(o) + 1
    OBVIOUS
  <2>2. SubSeq(o, r + 1, r + n) \in Seq(Byte)
    BY <2>1, SubSeqFacts
  <2>3. SubSeq(o, r + n + 1, Len(o)) \in Seq(Byte)
    BY <2>1, SubSeqFacts
  <2>4. QED
    BY <2>2, <2>3
<1> DEFINE a == SubSeq(o, r + 1, r + n)
           b == SubSeq(o, r + n + 1, Len(o))
<1>3. a \in Seq(Byte) /\ b \in Seq(Byte)
  BY <1>2
<1>4. (d \o a) \o b = d \o (a \o b)
  <2> HIDE DEF a, b
  <2> QED  BY <1>3, ConcatBytes
<1>5. QED
  BY <1>1, <1>4

-----------------------------------------------------------------------------
(* Facts about the operators of BlockDecode.                               *)

(* The overlap-safe match copy appends exactly match_len bytes, all taken  *)
(* from the history, when the offset was checked against it.               *)
LEMMA CopyMatchBytes ==
  ASSUME NEW o \in Seq(Byte), NEW off \in Nat \ {0}, NEW ml \in Nat,
         off <= Len(o)
  PROVE  /\ CopyMatch(o, off, ml) \in Seq(Byte)
         /\ Len(CopyMatch(o, off, ml)) = ml
<1>1. ASSUME NEW k \in 1..ml
      PROVE  o[Len(o) - off + 1 + ((k - 1) % off)] \in Byte
  <2>1. (k - 1) % off \in 0..(off - 1)
    OBVIOUS
  <2>2. Len(o) - off + 1 + ((k - 1) % off) \in 1..Len(o)
    BY <2>1
  <2>3. QED
    BY <2>2
<1>2. CopyMatch(o, off, ml) \in [1..ml -> Byte]
  BY <1>1 DEF CopyMatch
<1>3. QED
  BY <1>2

(* Resolving an Offset_Value keeps the repeat offsets a triple of numbers. *)
LEMMA ResolveOffsetType ==
  ASSUME NEW r \in RepTriple, NEW ov \in Nat \ {0}, NEW ll0 \in BOOLEAN
  PROVE  /\ resolve_offset(r, ov, ll0).offset \in Nat
         /\ resolve_offset(r, ov, ll0).rep \in RepTriple
<1>1. r[1] \in Nat /\ r[2] \in Nat /\ r[3] \in Nat
  BY DEF RepTriple
<1>2. CASE ov > 3
  BY <1>1, <1>2 DEF resolve_offset, RepTriple
<1>3. CASE ov <= 3
  <2> DEFINE code == ov - 1 + (IF ll0 THEN 1 ELSE 0)
             off  == IF code = 3 THEN SatSub(r[1], 1) ELSE r[code + 1]
  <2>1. code \in 0..3
    BY <1>3
  <2>2. CASE code = 0
    BY <1>1, <1>3, <2>2 DEF resolve_offset
  <2>3. CASE code # 0
    <3>1. off \in Nat
      BY <1>1, <2>1, <2>3 DEF SatSub
    <3>2. QED
      BY <1>1, <1>3, <2>3, <3>1 DEF resolve_offset, RepTriple
  <2>4. QED
    BY <2>2, <2>3
<1>4. QED
  BY <1>2, <1>3

(* An accepted sequence appends its literal run and its match: ll + ml     *)
(* bytes.                                                                  *)
LEMMA SequenceBytesType ==
  ASSUME NEW o \in Seq(Byte), NEW lits \in Seq(Byte), NEW lp \in Nat,
         NEW s \in Sequence, NEW off \in Nat \ {0},
         lp + s.ll <= Len(lits), off <= Len(o) + s.ll
  PROVE  /\ SequenceBytes(o, lits, lp, s, off) \in Seq(Byte)
         /\ Len(SequenceBytes(o, lits, lp, s, off)) = s.ll + s.ml
<1> DEFINE run == SubSeq(lits, lp + 1, lp + s.ll)
<1>0. s.ll \in Nat /\ s.ml \in Nat
  BY DEF Sequence
<1>1. run \in Seq(Byte) /\ Len(run) = s.ll
  <2>1. lp + 1 \in Nat \ {0} /\ lp + s.ll \in Nat /\ lp + 1 <= (lp + s.ll) + 1
    BY <1>0
  <2>2. run \in Seq(Byte) /\ Len(run) = (lp + s.ll) - (lp + 1) + 1
    BY <2>1, SubSeqFacts
  <2>3. QED
    BY SMTT(30), <1>0, <2>2
<1>4. SequenceBytes(o, lits, lp, s, off) = run \o CopyMatch(o \o run, off, s.ml)
  BY DEF SequenceBytes
<1> HIDE DEF run
<1>2. o \o run \in Seq(Byte) /\ Len(o \o run) = Len(o) + s.ll
  BY <1>1, ConcatProperties
<1>3. /\ CopyMatch(o \o run, off, s.ml) \in Seq(Byte)
      /\ Len(CopyMatch(o \o run, off, s.ml)) = s.ml
  BY <1>0, <1>2, CopyMatchBytes
<1> DEFINE match == CopyMatch(o \o run, off, s.ml)
<1>5. match \in Seq(Byte) /\ Len(match) = s.ml
  BY <1>3
<1> HIDE DEF match
<1>6. run \o match \in Seq(Byte) /\ Len(run \o match) = s.ll + s.ml
  <2>1. run \o match \in Seq(Byte) /\ Len(run \o match) = Len(run) + Len(match)
    BY <1>1, <1>5, ConcatFacts
  <2>2. QED
    BY <1>1, <1>5, <2>1
<1>7. QED
  BY <1>4, <1>6 DEF match

-----------------------------------------------------------------------------
(* Facts about the sliding buffer, for any window w.                       *)

(* The first n bytes of o are the last n bytes of h.                       *)
EndOf(h, o, n) ==
  n <= Len(h) /\ \A i \in 1..n : o[i] = h[Len(h) - n + i]

(* A block decoded at the end of a buffer that held the end of the history *)
(* extends both by the same bytes.                                         *)
LEMMA EndOfExtended ==
  ASSUME NEW S, NEW h \in Seq(S), NEW o \in Seq(S), NEW n \in Nat,
         n <= Len(o), EndOf(h, o, n)
  PROVE  EndOf(h \o SubSeq(o, n + 1, Len(o)), o, Len(o))
<1> DEFINE p == SubSeq(o, n + 1, Len(o))
<1>0. Len(o) \in Nat /\ Len(h) \in Nat /\ n <= Len(h)
  BY DEF EndOf
<1>1. /\ p \in Seq(S) /\ Len(p) = Len(o) - n
      /\ \A i \in 1..(Len(o) - n) : p[i] = o[n + i]
  <2>1. /\ p \in Seq(S) /\ Len(p) = Len(o) - (n + 1) + 1
        /\ \A i \in 1..(Len(o) - (n + 1) + 1) : p[i] = o[(n + 1) + i - 1]
    BY <1>0, SubSeqFacts
  <2>2. QED
    BY <1>0, <2>1
<1> HIDE DEF p
<1>2. /\ Len(h \o p) = Len(h) + Len(o) - n
      /\ \A i \in 1..Len(h) : (h \o p)[i] = h[i]
      /\ \A i \in 1..(Len(o) - n) : (h \o p)[Len(h) + i] = p[i]
  <2>0. p \in Seq(S)
    BY <1>1
  <2>1. /\ Len(h \o p) = Len(h) + Len(p)
        /\ \A i \in 1..Len(h) : (h \o p)[i] = h[i]
        /\ \A i \in 1..Len(p) : (h \o p)[Len(h) + i] = p[i]
    BY <2>0, ConcatFacts
  <2>2. QED
    BY <1>0, <1>1, <2>1
<1>3. ASSUME NEW i \in 1..Len(o)
      PROVE  o[i] = (h \o p)[Len(h) - n + i]
  <2>1. CASE i <= n
    <3>1. o[i] = h[Len(h) - n + i]
      BY <2>1 DEF EndOf
    <3>2. Len(h) - n + i \in 1..Len(h)
      BY <1>0, <2>1
    <3>3. QED
      BY <1>2, <3>1, <3>2
  <2>2. CASE i > n
    <3>1. i - n \in 1..(Len(o) - n) /\ Len(h) + (i - n) = Len(h) - n + i
          /\ n + (i - n) = i
      BY <1>0, <2>2
    <3>2. (h \o p)[Len(h) + (i - n)] = p[i - n] /\ p[i - n] = o[n + (i - n)]
      BY <1>1, <1>2, <3>1
    <3>3. QED
      BY <3>1, <3>2
  <2>3. i <= n \/ i > n
    OBVIOUS
  <2>4. QED
    BY <2>1, <2>2, <2>3
<1>4. Len(h \o p) - Len(o) = Len(h) - n /\ Len(o) <= Len(h \o p)
  BY <1>0, <1>2
<1>5. QED
  BY <1>3, <1>4 DEF EndOf, p

(* Draining the front of a buffer that is the end of the history leaves    *)
(* the end of the history.                                                 *)
LEMMA EndOfDrained ==
  ASSUME NEW S, NEW h \in Seq(S), NEW o \in Seq(S), NEW d \in Nat,
         d <= Len(o), EndOf(h, o, Len(o))
  PROVE  LET kept == SubSeq(o, d + 1, Len(o))
         IN  /\ kept \in Seq(S) /\ Len(kept) = Len(o) - d
             /\ EndOf(h, kept, Len(kept))
<1> DEFINE kept == SubSeq(o, d + 1, Len(o))
<1>0. Len(o) \in Nat /\ Len(h) \in Nat /\ Len(o) <= Len(h)
  BY DEF EndOf
<1>1. /\ kept \in Seq(S) /\ Len(kept) = Len(o) - d
      /\ \A i \in 1..(Len(o) - d) : kept[i] = o[d + i]
  <2>1. /\ kept \in Seq(S) /\ Len(kept) = Len(o) - (d + 1) + 1
        /\ \A i \in 1..(Len(o) - (d + 1) + 1) : kept[i] = o[(d + 1) + i - 1]
    BY <1>0, SubSeqFacts
  <2>2. QED
    BY <1>0, <2>1
<1> HIDE DEF kept
<1>2. ASSUME NEW i \in 1..Len(kept)
      PROVE  kept[i] = h[Len(h) - Len(kept) + i]
  <2>1. d + i \in 1..Len(o) /\ Len(h) - Len(o) + (d + i) = Len(h) - Len(kept) + i
    BY <1>0, <1>1
  <2>2. kept[i] = o[d + i]
    BY <1>1
  <2>3. o[d + i] = h[Len(h) - Len(o) + (d + i)]
    BY <2>1 DEF EndOf
  <2>4. QED
    BY <2>1, <2>2, <2>3
<1>3. Len(kept) <= Len(h)
  BY <1>0, <1>1
<1>4. EndOf(h, kept, Len(kept))
  BY <1>2, <1>3 DEF EndOf
<1>5. QED
  BY <1>1, <1>4 DEF kept

(* Bytes appended to the buffer do not disturb its first n.                *)
LEMMA EndOfAppended ==
  ASSUME NEW S, NEW h \in Seq(S), NEW o \in Seq(S), NEW x \in Seq(S),
         NEW n \in Nat, n <= Len(o), EndOf(h, o, n)
  PROVE  EndOf(h, o \o x, n)
<1>1. \A i \in 1..n : (o \o x)[i] = o[i]
  BY ConcatFacts
<1>2. QED
  BY <1>1 DEF EndOf

(* What compact drains: never past the cursor, never into the last window  *)
(* bytes, and all that these two leave.                                    *)
LEMMA CompactDrop ==
  ASSUME NEW o \in Seq(Byte), NEW r \in Nat, r <= Len(o), window \in Nat
  PROVE  /\ compact_drop(o, r) \in Nat
         /\ compact_drop(o, r) <= r
         /\ Len(o) - compact_drop(o, r) >= Minimum(window, Len(o))
         /\ \/ Len(o) - compact_drop(o, r) <= window
            \/ compact_drop(o, r) = r
<1>1. ASSUME NEW L \in Nat, NEW w \in Nat, r <= L
      PROVE  /\ Minimum(r, SatSub(L, w)) \in Nat
             /\ Minimum(r, SatSub(L, w)) <= r
             /\ L - Minimum(r, SatSub(L, w)) >= Minimum(w, L)
             /\ \/ L - Minimum(r, SatSub(L, w)) <= w
                \/ Minimum(r, SatSub(L, w)) = r
  BY <1>1 DEF Minimum, SatSub
<1>2. Len(o) \in Nat
  OBVIOUS
<1>3. QED
  BY <1>1, <1>2, Zenon DEF compact_drop

-----------------------------------------------------------------------------
(* The inductive invariant.  None of the safety properties is inductive    *)
(* alone: what FinishBlock drains depends on how far the block it finishes *)
(* could grow (InBlock), which depends on where StartBlock found the       *)
(* cursor (Between, NoUnderflow).                                          *)
Bound == Maximum(window, Len(content))

Inputs == frame \in Frames /\ dict \in Dicts \cup {None}

Fresh ==
  ~Opened => /\ out = <<>> /\ hashed = <<>> /\ delivered = <<>>
             /\ pos = 1 /\ ~poisoned

Between ==
  pc \in {"idle", "loop"} /\ ~poisoned =>
    /\ EndOf(whole, out, Len(out))
    /\ Len(out) >= Minimum(window, Len(whole))
    /\ hashed = delivered \o SubSeq(out, read_off + 1, Len(out))
    /\ Len(out) <= Bound
    /\ pos > 1 => Len(out) <= window

InBlock ==
  pc \in {"seqs", "check"} =>
    /\ ~poisoned /\ read_off = before
    /\ before <= Len(out) /\ Len(out) <= before + block_max
    /\ before <= Bound /\ before >= Minimum(window, Len(whole))
    /\ EndOf(whole, out, before)
    /\ hashed = delivered
    /\ pos <= Len(frame.blocks)
    /\ pc = "seqs" => lit_pos <= Len(block.lits) /\ nseq <= Len(block.seqs)

AfterError == poisoned => pc = "idle" /\ Len(out) <= Bound + block_max

IInv ==
  /\ TypeOK /\ Inputs /\ NoUnderflow
  /\ Fresh /\ Between /\ InBlock /\ AfterError

(* The quantities the invariant speaks of are well defined.                *)
LEMMA StateFacts ==
  ASSUME TypeOK
  PROVE  /\ window \in Nat /\ block_max \in Nat /\ block_max <= window
         /\ content \in Seq(Byte) /\ Len(content) \in Nat
         /\ whole \in Seq(Byte) /\ Len(whole) = Len(content) + Len(hashed)
         /\ Bound \in Nat /\ window <= Bound /\ Len(content) <= Bound
         /\ frame.blocks \in Seq(Block) /\ Len(frame.blocks) \in Nat
         /\ pos <= Len(frame.blocks) => block \in Block
<1>1. window \in Nat /\ frame.blocks \in Seq(Block)
  BY DEF TypeOK, Frame, window
<1>2. content \in Seq(Byte)
  BY DEF TypeOK, Dict, content
<1>3. Len(content) \in Nat
  BY <1>2
<1>4. block_max \in Nat /\ block_max <= window
  BY <1>1, MaxBlockSizeAssumption DEF block_max, Minimum
<1>5. whole \in Seq(Byte) /\ Len(whole) = Len(content) + Len(hashed)
  BY <1>2, ConcatFacts DEF TypeOK, whole
<1>6. Bound \in Nat /\ window <= Bound /\ Len(content) <= Bound
  BY <1>1, <1>3 DEF Bound, Maximum
<1>7. Len(frame.blocks) \in Nat
  BY <1>1
<1>8. pos <= Len(frame.blocks) => block \in Block
  BY <1>1, <1>7 DEF TypeOK, block
<1>9. QED
  BY <1>1, <1>2, <1>3, <1>4, <1>5, <1>6, <1>7, <1>8

(* They only change with the frame and the dictionary.                     *)
LEMMA SameInput ==
  ASSUME UNCHANGED input
  PROVE  /\ window' = window /\ block_max' = block_max /\ content' = content
         /\ Bound' = Bound /\ frame' = frame /\ dict' = dict
  BY DEF input, window, block_max, content, Bound

(* The initial states satisfy IInv.                                        *)
LEMMA InitIInv == Init => IInv
<1> SUFFICES ASSUME Init PROVE IInv
  OBVIOUS
<1>1. Inputs
  BY DEF Init, Inputs
<1>2. TypeOK
  <2>1. frame \in Frame /\ dict \in Dict \cup {None}
    BY <1>1, ConstantsAssumption DEF Inputs
  <2>2. DefaultRep \in RepTriple
    BY DEF DefaultRep, RepTriple
  <2>3. <<>> \in Seq(Byte)
    OBVIOUS
  <2>4. /\ have_huff \in BOOLEAN /\ have_seq \in BOOLEAN
        /\ last_done \in BOOLEAN /\ poisoned \in BOOLEAN
    BY DEF Init
  <2>5. 0 \in Nat /\ 1 \in Nat \ {0}
    OBVIOUS
  <2>6. QED
    BY <2>1, <2>2, <2>3, <2>4, <2>5, Zenon DEF Init, TypeOK
<1>3. NoUnderflow /\ Fresh /\ Between /\ InBlock /\ AfterError
  BY DEF Init, NoUnderflow, Fresh, Between, InBlock, AfterError, Opened
<1>4. QED
  BY <1>1, <1>2, <1>3 DEF IInv

-----------------------------------------------------------------------------
(* Every step preserves it.                                                *)

(* Each action keeps IInv: with_options.                                   *)
LEMMA WithOptionsIInv ==
  ASSUME IInv, with_options
  PROVE  IInv'
<1> USE DEF IInv
<1>1. UNCHANGED input /\ pc = "new"
  BY DEF with_options
<1>2. /\ window' = window /\ block_max' = block_max /\ content' = content
      /\ Bound' = Bound /\ frame' = frame /\ dict' = dict
  BY <1>1, SameInput
<1>3. out = <<>> /\ hashed = <<>> /\ delivered = <<>> /\ pos = 1 /\ ~poisoned
  BY <1>1 DEF Fresh, Opened
<1>4. /\ window \in Nat /\ content \in Seq(Byte) /\ Len(content) \in Nat
      /\ Bound \in Nat /\ Len(content) <= Bound
  BY StateFacts
<1>5. Inputs'
  BY <1>2 DEF Inputs
<1>6. CASE ~Acceptable
  <2>1. pc' = "rejected" /\ UNCHANGED <<out, dict_len, read_off, tables, rep>>
    BY <1>6 DEF with_options
  <2>2. TypeOK'
    BY <1>2, <2>1 DEF with_options, TypeOK, tables, locals
  <2>3. NoUnderflow' /\ Fresh' /\ Between' /\ InBlock' /\ AfterError'
    BY <1>3, <2>1 DEF with_options, NoUnderflow, Fresh, Between, InBlock, AfterError
  <2>4. QED
    BY <1>5, <2>2, <2>3
<1>7. CASE Acceptable
  <2>1. /\ pc' = "idle" /\ out' = content
        /\ dict_len' = Len(content) /\ read_off' = Len(content)
        /\ have_huff' \in BOOLEAN /\ have_seq' \in BOOLEAN
        /\ rep' \in RepTriple
        /\ hashed' = <<>> /\ delivered' = <<>> /\ pos' = 1 /\ poisoned' = FALSE
    <3>1. rep' \in RepTriple
      <4>1. CASE dict # None /\ dict.entropy
        BY <1>7, <4>1 DEF with_options, TypeOK, Dict
      <4>2. CASE ~(dict # None /\ dict.entropy)
        BY <1>7, <4>2 DEF with_options, TypeOK
      <4>3. QED
        BY <4>1, <4>2
    <3>2. have_huff' \in BOOLEAN /\ have_seq' \in BOOLEAN
      BY <1>7 DEF with_options, TypeOK, tables
    <3>3. poisoned' = FALSE
      BY <1>3 DEF with_options, TypeOK
    <3>4. QED
      BY <1>3, <1>7, <3>1, <3>2, <3>3 DEF with_options
  <2>2. TypeOK'
    BY <1>2, <1>4, <2>1 DEF with_options, TypeOK, locals
  <2>3. NoUnderflow' /\ Fresh' /\ InBlock' /\ AfterError'
    BY <1>4, <2>1 DEF NoUnderflow, Fresh, Opened, InBlock, AfterError
  <2>4. Between'
    <3>1. whole' = content
      BY <1>2, <1>4, <2>1, ConcatEmptySeq DEF whole
    <3>2. EndOf(content, content, Len(content))
      BY <1>4 DEF EndOf
    <3>3. SubSeq(content, Len(content) + 1, Len(content)) = <<>>
      BY <1>4
    <3>4. Len(content) >= Minimum(window, Len(content))
      BY <1>4 DEF Minimum
    <3>5. hashed' = delivered' \o SubSeq(out', read_off' + 1, Len(out'))
      BY <2>1, <3>3
    <3>6. QED
      BY <1>2, <1>4, <2>1, <3>1, <3>2, <3>4, <3>5 DEF Between
  <2>5. QED
    BY <1>5, <2>2, <2>3, <2>4
<1>8. QED
  BY <1>6, <1>7

(* The start of read.                                                      *)
LEMMA ReadIInv ==
  ASSUME IInv, NEW n \in BufSizes, Read(n)
  PROVE  IInv'
<1> USE DEF IInv
<1>1. /\ window' = window /\ block_max' = block_max /\ content' = content
      /\ Bound' = Bound /\ frame' = frame /\ dict' = dict
  BY SameInput DEF Read
<1>2. UNCHANGED <<pos, out, dict_len, tables, rep, read_off, last_done,
                  hashed, total_out, poisoned, locals, delivered>>
      /\ whole' = whole /\ pc = "idle"
  BY <1>1 DEF Read, whole
<1>3. n \in Nat
  BY ConstantsAssumption
<1>4. \/ poisoned /\ ret' = "err" /\ UNCHANGED <<pc, buf_len>>
      \/ ~poisoned /\ pc' = "loop" /\ buf_len' = n /\ UNCHANGED ret
  BY DEF Read
<1>5. TypeOK' /\ Inputs'
  BY <1>1, <1>2, <1>3, <1>4 DEF TypeOK, Inputs, tables, locals
<1>6. NoUnderflow' /\ Fresh' /\ InBlock' /\ AfterError'
  BY <1>1, <1>2, <1>4 DEF NoUnderflow, Fresh, Opened, InBlock, AfterError
<1>7. Between'
  BY <1>1, <1>2, <1>4 DEF Between
<1>8. QED
  BY <1>5, <1>6, <1>7

(* A failed decode_next_block: whatever it had appended, the buffer stays  *)
(* within its peak and the decoder only answers with the error from now on. *)
LEMMA PoisonIInv ==
  ASSUME IInv, Poison,
         pos' \in Nat \ {0}, rep' \in RepTriple,
         have_huff' \in BOOLEAN, have_seq' \in BOOLEAN, last_done' \in BOOLEAN,
         hashed' \in Seq(Byte), total_out' \in Nat,
         before' \in Nat, lit_pos' \in Nat, nseq' \in Nat,
         out' \in Seq(Byte), Len(out) <= Len(out'),
         Len(out') <= Bound + block_max
  PROVE  IInv'
<1> USE DEF IInv
<1>1. /\ window' = window /\ block_max' = block_max /\ content' = content
      /\ Bound' = Bound /\ frame' = frame /\ dict' = dict
  BY SameInput DEF Poison
<1>2. /\ poisoned' = TRUE /\ pc' = "idle" /\ ret' = "err"
      /\ UNCHANGED <<read_off, dict_len, buf_len, delivered>>
  BY DEF Poison
<1>3. TypeOK' /\ Inputs'
  BY <1>1, <1>2 DEF TypeOK, Inputs
<1>4. Fresh' /\ Between' /\ InBlock' /\ AfterError'
  BY <1>1, <1>2 DEF Fresh, Opened, Between, InBlock, AfterError
<1>5. NoUnderflow'
  <2>1. Len(out) \in Nat /\ Len(out') \in Nat
    BY DEF TypeOK
  <2>2. QED
    BY <1>2, <2>1 DEF NoUnderflow, TypeOK
<1>6. QED
  BY <1>3, <1>4, <1>5

(* The bytes of a raw or RLE block.                                        *)
LEMMA PlainBytesType ==
  ASSUME NEW b \in Block, WellFormedBlock(b), b.type \in {"raw", "rle"}
  PROVE  PlainBytes(b) \in Seq(Byte) /\ Len(PlainBytes(b)) = b.size
<1>1. b.size \in Nat /\ b.lits \in Seq(Byte)
  BY DEF Block
<1>2. CASE b.type = "raw"
  BY <1>1, <1>2 DEF WellFormedBlock, PlainBytes
<1>3. CASE b.type = "rle"
  <2>1. b.lits[1] \in Byte
    BY <1>1, <1>3 DEF WellFormedBlock
  <2>2. PlainBytes(b) = [k \in 1..b.size |-> b.lits[1]]
    BY <1>3 DEF PlainBytes
  <2>3. PlainBytes(b) \in [1..b.size -> Byte]
    BY <2>1, <2>2
  <2>4. QED
    BY <1>1, <2>3
<1>4. QED
  BY <1>2, <1>3

(* The head of decode_one_block.                                           *)
LEMMA StartBlockIInv ==
  ASSUME IInv, StartBlock
  PROVE  IInv'
<1> USE DEF IInv
<1>0. /\ window \in Nat /\ block_max \in Nat /\ Bound \in Nat
      /\ whole \in Seq(Byte) /\ Len(out) \in Nat
      /\ frame.blocks \in Seq(Block) /\ Len(frame.blocks) \in Nat
      /\ pos <= Len(frame.blocks) => block \in Block
  BY StateFacts DEF TypeOK
<1>1. /\ pc = "loop" /\ ~poisoned /\ read_off = Len(out)
  BY <1>0 DEF StartBlock, NeedBlock, AfterError, NoUnderflow, TypeOK
<1>2. /\ EndOf(whole, out, Len(out)) /\ Len(out) >= Minimum(window, Len(whole))
      /\ hashed = delivered \o SubSeq(out, read_off + 1, Len(out))
      /\ Len(out) <= Bound
  BY <1>1 DEF Between
<1>3. hashed = delivered
  <2>1. SubSeq(out, Len(out) + 1, Len(out)) = <<>>
    BY DEF TypeOK
  <2>2. delivered \o <<>> = delivered
    BY ConcatEmptySeq DEF TypeOK
  <2>3. QED
    BY <1>1, <1>2, <2>1, <2>2
<1>4. UNCHANGED input
  BY DEF StartBlock, Poison
<1>5. /\ window' = window /\ block_max' = block_max /\ content' = content
      /\ Bound' = Bound /\ frame' = frame /\ dict' = dict
  BY <1>4, SameInput
<1>6. CASE ~accepted
  <2>1. Poison /\ UNCHANGED <<pos, out, tables, rep, last_done, hashed,
                              total_out, locals>>
    BY <1>6 DEF StartBlock
  <2>2. Len(out') <= Bound + block_max
    BY <1>0, <1>2, <2>1
  <2>3. QED
    BY <1>0, <2>1, <2>2, PoisonIInv DEF TypeOK, tables, locals
<1>7. CASE accepted
  <2>1. /\ pos <= Len(frame.blocks)
        /\ BlockAccepted(block, block_max, have_huff, have_seq, block.size)
    BY <1>7 DEF accepted
  <2>2. block \in Block /\ block.size \in Nat
    BY <1>0, <2>1 DEF Block
  <2>3. block.size <= block_max /\ block.type # "reserved"
    BY <1>0, <2>1, <2>2 DEF BlockAccepted
  <2>4. /\ before' = Len(out) /\ lit_pos' = 0 /\ nseq' = 0
        /\ UNCHANGED <<pos, dict_len, rep, read_off, last_done, hashed,
                       total_out, poisoned, buf_len, delivered, ret>>
        /\ whole' = whole /\ block' = block
    BY <1>5, <1>7 DEF StartBlock, whole, block
  <2>5. CASE block.type = "comp"
    <3>1. /\ pc' = "seqs" /\ out' = out
          /\ have_huff' \in BOOLEAN /\ have_seq' \in BOOLEAN
      BY <1>7, <2>5 DEF StartBlock, TypeOK, HuffAfter, TablesAfter
    <3>2. TypeOK' /\ Inputs'
      BY <1>0, <1>5, <2>4, <3>1 DEF TypeOK, Inputs
    <3>3. NoUnderflow' /\ Fresh' /\ Between' /\ AfterError'
      BY <1>1, <2>4, <3>1 DEF NoUnderflow, Fresh, Opened, Between, AfterError
    <3>4. InBlock'
      <4>1. block.lits \in Seq(Byte) /\ block.seqs \in Seq(Sequence)
        BY <2>2 DEF Block
      <4>2. 0 <= Len(block.lits) /\ 0 <= Len(block.seqs)
        BY <4>1
      <4>3. Len(out) <= Len(out) + block_max
        BY <1>0
      <4>4. QED
        BY <1>0, <1>1, <1>2, <1>3, <1>5, <2>1, <2>4, <3>1, <4>2, <4>3
        DEF InBlock
    <3>5. QED
      BY <3>2, <3>3, <3>4
  <2>6. CASE block.type # "comp"
    <3> DEFINE bytes == PlainBytes(block)
    <3>1. pc' = "check" /\ out' = out \o bytes /\ UNCHANGED tables
      BY <1>7, <2>6 DEF StartBlock
    <3>2. bytes \in Seq(Byte) /\ Len(bytes) = block.size
      <4>1. WellFormedBlock(block)
        BY <1>0, <2>1, ConstantsAssumption DEF Inputs, TypeOK, block
      <4>2. block.type \in {"raw", "rle"}
        BY <2>2, <2>3, <2>6 DEF Block
      <4>3. QED
        BY <2>2, <4>1, <4>2, PlainBytesType
    <3> HIDE DEF bytes
    <3>3. out' \in Seq(Byte) /\ Len(out') = Len(out) + block.size
      BY SMTT(30), <3>1, <3>2, ConcatFacts DEF TypeOK
    <3>4. TypeOK' /\ Inputs'
      BY <1>0, <1>5, <2>4, <3>1, <3>3 DEF TypeOK, Inputs, tables
    <3>5. Len(out) <= Len(out') /\ Len(out') <= Len(out) + block_max
      BY <1>0, <2>2, <2>3, <3>3
    <3>6. NoUnderflow' /\ Fresh' /\ Between' /\ AfterError'
      BY <1>1, <2>4, <3>1, <3>5
      DEF NoUnderflow, Fresh, Opened, Between, AfterError
    <3>7. EndOf(whole, out', Len(out))
      BY <1>0, <1>2, <3>1, <3>2, EndOfAppended DEF TypeOK
    <3>8. InBlock'
      BY <1>0, <1>1, <1>2, <1>3, <1>5, <2>1, <2>4, <3>1, <3>5, <3>7
      DEF InBlock
    <3>9. QED
      BY <3>4, <3>6, <3>8
  <2>7. QED
    BY <2>5, <2>6
<1>8. QED
  BY <1>6, <1>7

(* Inside a block the cap of decode_compressed leaves what is missing to   *)
(* one block beyond the bytes that were there before.                      *)
LEMMA HeadroomFacts ==
  ASSUME IInv, pc \in {"seqs", "check"}
  PROVE  headroom = before + block_max - Len(out) /\ Len(out) \in Nat
<1>1. /\ before \in Nat /\ dict_len \in Nat /\ Len(out) \in Nat
      /\ block_max \in Nat
  BY StateFacts DEF IInv, TypeOK
<1>2. dict_len <= before /\ before <= Len(out) /\ Len(out) <= before + block_max
  BY DEF IInv, InBlock, NoUnderflow
<1>3. QED
  BY <1>1, <1>2 DEF headroom, SatSub

(* Appending x inside a block, within the headroom.                        *)
LEMMA AppendIInv ==
  ASSUME IInv, pc = "seqs", pc' \in {"seqs", "check"},
         NEW x \in Seq(Byte), out' = out \o x, Len(x) <= headroom,
         UNCHANGED <<input, pos, dict_len, tables, read_off, last_done, hashed,
                     total_out, poisoned, buf_len, before, delivered, ret>>,
         rep' \in RepTriple, lit_pos' \in Nat, nseq' \in Nat,
         lit_pos' <= Len(block.lits), nseq' <= Len(block.seqs)
  PROVE  IInv'
<1> USE DEF IInv
<1>1. /\ window' = window /\ block_max' = block_max /\ content' = content
      /\ Bound' = Bound /\ frame' = frame /\ dict' = dict
  BY SameInput
<1>2. whole' = whole /\ block' = block
  BY <1>1 DEF whole, block
<1>3. headroom = before + block_max - Len(out) /\ Len(out) \in Nat
  BY HeadroomFacts
<1>4. block_max \in Nat /\ whole \in Seq(Byte) /\ before \in Nat /\ Len(x) \in Nat
  BY StateFacts DEF TypeOK
<1>5. out' \in Seq(Byte) /\ Len(out') = Len(out) + Len(x)
  BY ConcatFacts DEF TypeOK
<1>6. Len(out) <= Len(out') /\ Len(out') <= before + block_max
  BY <1>3, <1>4, <1>5
<1>7. TypeOK' /\ Inputs'
  BY <1>1, <1>5 DEF TypeOK, Inputs, tables
<1>8. before <= Len(out) /\ EndOf(whole, out, before) /\ ~poisoned
  BY DEF InBlock
<1>9. EndOf(whole, out', before)
  BY <1>4, <1>8, EndOfAppended DEF TypeOK
<1>10. before <= Len(out') /\ read_off <= Len(out')
  BY <1>3, <1>4, <1>5, <1>8 DEF InBlock
<1>11. NoUnderflow' /\ Fresh' /\ Between' /\ AfterError'
  BY <1>8, <1>10 DEF NoUnderflow, Fresh, Opened, Between, AfterError
<1>12. InBlock'
  BY <1>1, <1>2, <1>6, <1>8, <1>9, <1>10 DEF InBlock
<1>13. QED
  BY <1>7, <1>11, <1>12

(* One sequence of a compressed block.                                     *)
LEMMA DecodeSequenceIInv ==
  ASSUME IInv, DecodeSequence
  PROVE  IInv'
<1> USE DEF IInv
<1> DEFINE s == block.seqs[nseq + 1]
           r == resolve_offset(rep, s.ov, s.ll = 0)
           left == Len(block.lits) - lit_pos
           v == SequenceVerdict(r.offset, s, headroom, left, Len(out))
           run == SubSeq(block.lits, lit_pos + 1, lit_pos + s.ll)
<1>1. pc = "seqs" /\ nseq < Len(block.seqs)
  BY DEF DecodeSequence
<1>2. /\ pos <= Len(frame.blocks) /\ lit_pos <= Len(block.lits)
      /\ before <= Len(out) /\ before <= Bound
  BY <1>1 DEF InBlock
<1>3. /\ block \in Block /\ block_max \in Nat /\ Bound \in Nat
      /\ before \in Nat /\ lit_pos \in Nat /\ nseq \in Nat
  BY <1>2, StateFacts DEF TypeOK
<1>4. /\ block.lits \in Seq(Byte) /\ block.seqs \in Seq(Sequence)
      /\ Len(block.lits) \in Nat /\ Len(block.seqs) \in Nat
  BY <1>3 DEF Block
<1>5. s \in Sequence
  <2>1. nseq + 1 \in 1..Len(block.seqs)
    BY <1>1, <1>3, <1>4
  <2>2. QED
    BY <1>4, <2>1
<1>6. s.ll \in Nat /\ s.ml \in Nat /\ s.ov \in Nat \ {0}
  BY <1>5 DEF Sequence
<1>7. r.offset \in Nat /\ r.rep \in RepTriple
  BY <1>6, ResolveOffsetType DEF TypeOK
<1>8. headroom = before + block_max - Len(out) /\ Len(out) \in Nat
  BY <1>1, HeadroomFacts
<1>9. left \in Nat
  BY <1>2, <1>3, <1>4
<1>10. /\ rep' = r.rep
       /\ UNCHANGED <<pos, tables, last_done, hashed, total_out>>
  BY DEF DecodeSequence
<1>11. ASSUME v = "ok"
       PROVE  /\ out' = out \o SequenceBytes(out, block.lits, lit_pos, s, r.offset)
              /\ lit_pos' = lit_pos + s.ll /\ nseq' = nseq + 1
              /\ UNCHANGED <<input, pc, dict_len, read_off, poisoned,
                             buf_len, before, delivered, ret>>
  BY <1>11 DEF DecodeSequence
<1>12. ASSUME v = "offset_too_large"
       PROVE  Poison /\ out' = out \o run /\ UNCHANGED locals
  BY <1>12 DEF DecodeSequence
<1>13. ASSUME v \notin {"ok", "offset_too_large"}
       PROVE  Poison /\ UNCHANGED <<out, locals>>
  BY <1>13 DEF DecodeSequence
<1>14. left = Len(block.lits) - lit_pos
  OBVIOUS
<1> HIDE DEF s, r, left
<1>15. ASSUME v \in {"ok", "offset_too_large"}
       PROVE  s.ll + s.ml <= headroom /\ s.ll <= left
  BY <1>3, <1>6, <1>7, <1>8, <1>9, <1>15 DEF SequenceVerdict
<1>16. ASSUME v = "ok"
       PROVE  r.offset # 0 /\ r.offset <= Len(out) + s.ll
  BY <1>3, <1>6, <1>7, <1>8, <1>9, <1>16 DEF SequenceVerdict
<1>17. Len(out) <= before + block_max
  BY <1>1 DEF InBlock
<1> HIDE DEF v
<1>18. CASE v = "ok"
  <2> DEFINE x == SequenceBytes(out, block.lits, lit_pos, s, r.offset)
  <2>1. /\ s.ll + s.ml <= headroom /\ s.ll <= left
        /\ r.offset # 0 /\ r.offset <= Len(out) + s.ll
    BY <1>15, <1>16, <1>18
  <2>2. /\ out' = out \o x
        /\ lit_pos' = lit_pos + s.ll /\ nseq' = nseq + 1
        /\ UNCHANGED <<input, pc, dict_len, read_off, poisoned,
                       buf_len, before, delivered, ret>>
    BY <1>11, <1>18
  <2>3. x \in Seq(Byte) /\ Len(x) = s.ll + s.ml
    <3>1. lit_pos + s.ll <= Len(block.lits)
      BY <1>3, <1>4, <1>6, <1>14, <2>1
    <3>2. r.offset \in Nat \ {0}
      BY <1>7, <2>1
    <3>3. out \in Seq(Byte)
      BY DEF TypeOK
    <3>4. QED
      BY <1>3, <1>4, <1>5, <2>1, <3>1, <3>2, <3>3, SequenceBytesType
  <2> HIDE DEF x
  <2>4. /\ lit_pos' \in Nat /\ nseq' \in Nat
        /\ lit_pos' <= Len(block.lits) /\ nseq' <= Len(block.seqs)
    <3>1. s.ll <= Len(block.lits) - lit_pos
      BY <1>14, <2>1
    <3>2. QED
      BY SMTT(30), <1>1, <1>3, <1>4, <1>6, <2>2, <3>1
  <2>5. Len(x) <= headroom /\ rep' \in RepTriple /\ pc' \in {"seqs", "check"}
    BY <1>1, <1>7, <1>10, <2>1, <2>2, <2>3
  <2>6. QED
    BY <1>1, <1>10, <2>2, <2>3, <2>4, <2>5, AppendIInv
<1>19. CASE v = "offset_too_large"
  <2>1. s.ll + s.ml <= headroom /\ s.ll <= left
    BY <1>15, <1>19
  <2>2. Poison /\ out' = out \o run /\ UNCHANGED locals
    BY <1>12, <1>19
  <2>3. run \in Seq(Byte) /\ Len(run) = s.ll
    <3>1. /\ lit_pos + 1 \in Nat \ {0} /\ lit_pos + s.ll \in Nat
          /\ lit_pos + 1 <= (lit_pos + s.ll) + 1
          /\ lit_pos + s.ll <= Len(block.lits)
      BY SMTT(30), <1>3, <1>4, <1>6, <1>14, <2>1
    <3>2. run \in Seq(Byte) /\ Len(run) = (lit_pos + s.ll) - (lit_pos + 1) + 1
      BY <1>4, <3>1, SubSeqFacts
    <3>3. QED
      BY <1>3, <1>6, <3>2
  <2> HIDE DEF run
  <2>4. out' \in Seq(Byte) /\ Len(out') = Len(out) + s.ll
    <3>1. out \in Seq(Byte) /\ run \in Seq(Byte)
      BY <2>3 DEF TypeOK
    <3>2. out \o run \in Seq(Byte) /\ Len(out \o run) = Len(out) + Len(run)
      BY <3>1, ConcatFacts
    <3>3. QED
      BY <2>2, <2>3, <3>2
  <2>5. Len(out) <= Len(out') /\ Len(out') <= Bound + block_max
    BY SMTT(30), <1>2, <1>3, <1>6, <1>8, <2>1, <2>4
  <2>6. QED
    BY <1>7, <1>10, <2>2, <2>4, <2>5, PoisonIInv DEF TypeOK, tables, locals
<1>20. CASE v \notin {"ok", "offset_too_large"}
  <2>1. Poison /\ UNCHANGED <<out, locals>>
    BY <1>13, <1>20
  <2>2. Len(out) <= Len(out') /\ Len(out') <= Bound + block_max
    BY <1>2, <1>3, <1>8, <1>17, <2>1
  <2>3. QED
    BY <1>7, <1>10, <2>1, <2>2, PoisonIInv DEF TypeOK, tables, locals
<1>21. QED
  BY <1>18, <1>19, <1>20

(* The literals after the last sequence.                                   *)
LEMMA TrailingLiteralsIInv ==
  ASSUME IInv, TrailingLiterals
  PROVE  IInv'
<1> USE DEF IInv
<1> DEFINE rest == SubSeq(block.lits, lit_pos + 1, Len(block.lits))
<1>1. pc = "seqs" /\ UNCHANGED <<pos, tables, rep, last_done, hashed, total_out, locals>>
  BY DEF TrailingLiterals
<1>2. /\ pos <= Len(frame.blocks) /\ lit_pos <= Len(block.lits)
      /\ nseq <= Len(block.seqs) /\ before <= Bound /\ Len(out) <= before + block_max
  BY <1>1 DEF InBlock
<1>3. /\ block \in Block /\ block_max \in Nat /\ Bound \in Nat
      /\ before \in Nat /\ lit_pos \in Nat /\ Len(out) \in Nat
  BY <1>2, StateFacts DEF TypeOK
<1>4. block.lits \in Seq(Byte) /\ Len(block.lits) \in Nat
  BY <1>3 DEF Block
<1>5. rest \in Seq(Byte) /\ Len(rest) \in Nat
  <2>1. lit_pos + 1 \in Nat \ {0} /\ lit_pos + 1 <= Len(block.lits) + 1
    BY <1>2, <1>3, <1>4
  <2>2. rest \in Seq(Byte)
    BY <1>4, <2>1, SubSeqFacts
  <2>3. QED
    BY <2>2
<1>6. headroom = before + block_max - Len(out)
  BY <1>1, HeadroomFacts
<1>7. CASE Len(rest) > headroom
  <2>1. Poison /\ UNCHANGED out
    BY <1>7 DEF TrailingLiterals
  <2>2. Len(out) <= Len(out') /\ Len(out') <= Bound + block_max
    BY <1>2, <1>3, <2>1
  <2>3. QED
    BY <1>1, <2>1, <2>2, PoisonIInv DEF TypeOK, tables, locals
<1>8. CASE ~(Len(rest) > headroom)
  <2>1. /\ out' = out \o rest /\ pc' = "check"
        /\ UNCHANGED <<input, dict_len, read_off, poisoned, buf_len,
                       delivered, ret>>
    BY <1>8 DEF TrailingLiterals
  <2>2. Len(rest) <= headroom
    BY <1>3, <1>5, <1>6, <1>8
  <2> HIDE DEF rest
  <2>3. QED
    BY <1>1, <1>2, <1>5, <2>1, <2>2, AppendIInv DEF TypeOK, locals
<1>9. QED
  BY <1>7, <1>8

(* compact, on a buffer that is the end of the history h: the buffer it    *)
(* leaves still is, holds the last window bytes of h and everything behind *)
(* the cursor, and exceeds the window only if all of it is behind it.      *)
LEMMA CompactFacts ==
  ASSUME NEW o \in Seq(Byte), NEW h \in Seq(Byte), NEW r \in Nat, NEW d \in Nat,
         window \in Nat, d <= r, r <= Len(o),
         EndOf(h, o, Len(o)), Len(o) >= Minimum(window, Len(h)),
         compact(o, r, d)
  PROVE  /\ out' \in Seq(Byte) /\ read_off' \in Nat /\ dict_len' \in Nat
         /\ dict_len' <= read_off' /\ read_off' <= Len(out')
         /\ EndOf(h, out', Len(out')) /\ Len(out') >= Minimum(window, Len(h))
         /\ SubSeq(out', read_off' + 1, Len(out')) = SubSeq(o, r + 1, Len(o))
         /\ Len(out') <= Len(o)
         /\ Len(out') <= window \/ Len(out') = Len(o) - r
<1> DEFINE drop == compact_drop(o, r)
<1>1. /\ drop \in Nat /\ drop <= r
      /\ Len(o) - drop >= Minimum(window, Len(o))
      /\ Len(o) - drop <= window \/ drop = r
  BY CompactDrop
<1>2. /\ out' = SubSeq(o, drop + 1, Len(o)) /\ read_off' = r - drop
      /\ dict_len' = SatSub(d, drop)
  BY DEF compact
<1> HIDE DEF drop
<1>3. Len(o) \in Nat /\ Len(h) \in Nat /\ drop <= Len(o)
  BY <1>1
<1>4. out' \in Seq(Byte) /\ Len(out') = Len(o) - drop /\ EndOf(h, out', Len(out'))
  BY <1>1, <1>2, <1>3, EndOfDrained
<1>5. read_off' \in Nat /\ dict_len' \in Nat /\ dict_len' <= read_off'
  BY <1>1, <1>2 DEF SatSub
<1>6. read_off' <= Len(out') /\ Len(out') <= Len(o)
  BY <1>1, <1>2, <1>3, <1>4
<1>7. Len(out') >= Minimum(window, Len(h))
  BY <1>1, <1>3, <1>4 DEF Minimum
<1>8. SubSeq(out', read_off' + 1, Len(out')) = SubSeq(o, r + 1, Len(o))
  BY <1>1, <1>2, DrainKeepsPending
<1>9. Len(out') <= window \/ Len(out') = Len(o) - r
  BY <1>1, <1>4
<1>10. QED
  BY <1>4, <1>5, <1>6, <1>7, <1>8, <1>9

(* The checksum, the final checks and compact.                             *)
LEMMA FinishBlockIInv ==
  ASSUME IInv, FinishBlock
  PROVE  IInv'
<1> USE DEF IInv
<1>1. /\ pc = "check" /\ pos' = pos + 1 /\ hashed' = hashed \o produced
      /\ total_out' = total_out + Len(produced) /\ last_done' = block.last
      /\ UNCHANGED <<tables, rep, locals>>
  BY DEF FinishBlock
<1>2. /\ ~poisoned /\ read_off = before /\ before <= Len(out)
      /\ Len(out) <= before + block_max /\ before <= Bound
      /\ before >= Minimum(window, Len(whole))
      /\ EndOf(whole, out, before) /\ hashed = delivered
      /\ pos <= Len(frame.blocks)
  BY <1>1 DEF InBlock
<1>3. /\ block \in Block /\ window \in Nat /\ block_max \in Nat
      /\ block_max <= window /\ Bound \in Nat /\ window <= Bound
      /\ whole \in Seq(Byte) /\ content \in Seq(Byte)
      /\ before \in Nat /\ dict_len \in Nat /\ pos \in Nat \ {0}
      /\ out \in Seq(Byte) /\ Len(out) \in Nat
      /\ hashed \in Seq(Byte) /\ total_out \in Nat
  BY <1>2, StateFacts DEF TypeOK
<1>4. produced \in Seq(Byte) /\ Len(produced) = Len(out) - before
  <2>1. before + 1 \in Nat \ {0} /\ before + 1 <= Len(out) + 1
    BY <1>2, <1>3
  <2>2. produced \in Seq(Byte) /\ Len(produced) = Len(out) - (before + 1) + 1
    BY <1>3, <2>1, SubSeqFacts DEF produced
  <2>3. QED
    BY <1>3, <2>2
<1>5. /\ pos' \in Nat \ {0} /\ hashed' \in Seq(Byte) /\ total_out' \in Nat
      /\ last_done' \in BOOLEAN
  <2>1. pos' \in Nat \ {0} /\ total_out' \in Nat
    BY <1>1, <1>2, <1>3, <1>4
  <2>2. hashed' \in Seq(Byte)
    BY <1>1, <1>3, <1>4, ConcatFacts
  <2>3. last_done' \in BOOLEAN
    BY <1>1, <1>3 DEF Block
  <2>4. QED
    BY <2>1, <2>2, <2>3
<1>6. UNCHANGED input
  BY DEF FinishBlock, Poison
<1>7. /\ window' = window /\ block_max' = block_max /\ content' = content
      /\ Bound' = Bound /\ frame' = frame /\ dict' = dict
  BY <1>6, SameInput
<1>8. CASE block.last /\ ~FinalOk(hashed', total_out')
  <2>1. Poison /\ UNCHANGED out
    BY <1>8 DEF FinishBlock
  <2>2. Len(out) <= Len(out') /\ Len(out') <= Bound + block_max
    BY <1>2, <1>3, <2>1
  <2>3. QED
    BY <1>1, <1>5, <2>1, <2>2, PoisonIInv DEF TypeOK, tables, locals
<1>9. CASE ~(block.last /\ ~FinalOk(hashed', total_out'))
  <2>1. /\ pc' = "loop" /\ compact(out, read_off, dict_len)
        /\ UNCHANGED <<poisoned, buf_len, delivered, ret>>
    BY <1>9 DEF FinishBlock
  <2> DEFINE h == whole \o produced
  <2>2. h \in Seq(Byte) /\ Len(h) = Len(whole) + Len(produced)
    BY <1>3, <1>4, ConcatFacts
  <2>3. whole' = h
    <3>1. whole' = content \o (hashed \o produced)
      BY <1>1, <1>7 DEF whole
    <3>2. (content \o hashed) \o produced = content \o (hashed \o produced)
      <4>1. content \in Seq(Byte) /\ hashed \in Seq(Byte) /\ produced \in Seq(Byte)
        BY <1>3, <1>4
      <4>2. QED
        BY <4>1, ConcatBytes
    <3>3. QED
      BY <3>1, <3>2 DEF whole
  <2>4. EndOf(h, out, Len(out))
    BY <1>2, <1>3, EndOfExtended DEF produced
  <2> HIDE DEF h
  <2>5. Len(out) >= Minimum(window, Len(h))
    <3>1. Len(whole) \in Nat
      BY <1>3
    <3>2. QED
      BY <1>2, <1>3, <1>4, <2>2, <3>1 DEF Minimum
  <2>6. dict_len <= read_off /\ read_off <= Len(out) /\ read_off \in Nat
    BY DEF NoUnderflow, TypeOK
  <2>7. /\ out' \in Seq(Byte) /\ read_off' \in Nat /\ dict_len' \in Nat
        /\ dict_len' <= read_off' /\ read_off' <= Len(out')
        /\ EndOf(h, out', Len(out')) /\ Len(out') >= Minimum(window, Len(h))
        /\ SubSeq(out', read_off' + 1, Len(out')) = SubSeq(out, read_off + 1, Len(out))
        /\ Len(out') <= window \/ Len(out') = Len(out) - read_off
    BY <1>3, <2>1, <2>2, <2>4, <2>5, <2>6, CompactFacts
  <2>8. Len(out') <= window /\ Len(out') <= Bound
    <3>1. Len(out') \in Nat /\ (Len(out') <= window \/ Len(out') = Len(out) - read_off)
      BY <2>7
    <3>2. read_off = before /\ Len(out) <= before + block_max
      BY <1>2
    <3>3. /\ Len(out) \in Nat /\ Bound \in Nat /\ window \in Nat /\ before \in Nat
          /\ block_max \in Nat /\ block_max <= window /\ window <= Bound
      BY <1>3
    <3>4. QED
      BY <3>1, <3>2, <3>3
  <2>9. hashed' = delivered' \o SubSeq(out', read_off' + 1, Len(out'))
    BY <1>1, <1>2, <2>1, <2>7 DEF produced
  <2>10. TypeOK' /\ Inputs'
    BY <1>1, <1>5, <1>7, <2>1, <2>7 DEF TypeOK, Inputs, tables, locals
  <2>11. NoUnderflow' /\ Fresh' /\ InBlock' /\ AfterError'
    BY <1>2, <2>1, <2>7 DEF NoUnderflow, Fresh, Opened, InBlock, AfterError
  <2>12. Between'
    BY <1>7, <2>3, <2>7, <2>8, <2>9 DEF Between
  <2>13. QED
    BY <2>10, <2>11, <2>12
<1>10. QED
  BY <1>8, <1>9

(* The end of read.                                                        *)
LEMMA DeliverIInv ==
  ASSUME IInv, Deliver
  PROVE  IInv'
<1> USE DEF IInv
<1> DEFINE avail == Len(out) - read_off
           n == Minimum(avail, buf_len)
<1>1. /\ pc = "loop" /\ pc' = "idle"
      /\ UNCHANGED <<input, pos, tables, rep, last_done, hashed, total_out,
                     poisoned, buf_len, locals>>
  BY DEF Deliver, LoopExit
<1>2. /\ window' = window /\ block_max' = block_max /\ content' = content
      /\ Bound' = Bound /\ frame' = frame /\ dict' = dict /\ whole' = whole
  BY <1>1, SameInput DEF whole
<1>3. ~poisoned
  BY <1>1 DEF AfterError
<1>4. /\ EndOf(whole, out, Len(out)) /\ Len(out) >= Minimum(window, Len(whole))
      /\ hashed = delivered \o SubSeq(out, read_off + 1, Len(out))
      /\ Len(out) <= Bound /\ (pos > 1 => Len(out) <= window)
  BY <1>1, <1>3 DEF Between
<1>5. /\ window \in Nat /\ Bound \in Nat /\ whole \in Seq(Byte)
      /\ out \in Seq(Byte) /\ Len(out) \in Nat /\ read_off \in Nat
      /\ dict_len \in Nat /\ buf_len \in Nat /\ delivered \in Seq(Byte)
      /\ dict_len <= read_off /\ read_off <= Len(out)
  BY StateFacts DEF TypeOK, NoUnderflow
<1>6. n \in Nat /\ read_off + n <= Len(out)
  BY <1>5 DEF Minimum
<1>7. CASE avail = 0
  <2>1. ret' = "eof" /\ UNCHANGED <<out, read_off, dict_len, delivered>>
    BY <1>7 DEF Deliver
  <2>2. TypeOK' /\ Inputs'
    BY <1>1, <1>2, <2>1 DEF TypeOK, Inputs, tables, locals
  <2>3. NoUnderflow' /\ Fresh' /\ InBlock' /\ AfterError'
    BY <1>1, <1>3, <1>5, <2>1 DEF NoUnderflow, Fresh, Opened, InBlock, AfterError
  <2>4. Between'
    BY <1>1, <1>2, <1>4, <2>1 DEF Between
  <2>5. QED
    BY <2>2, <2>3, <2>4
<1>8. CASE avail # 0
  <2>1. /\ ret' = "data"
        /\ delivered' = delivered \o SubSeq(out, read_off + 1, read_off + n)
        /\ compact(out, read_off + n, dict_len)
    BY <1>8 DEF Deliver
  <2> HIDE DEF n
  <2>2. /\ out' \in Seq(Byte) /\ read_off' \in Nat /\ dict_len' \in Nat
        /\ dict_len' <= read_off' /\ read_off' <= Len(out')
        /\ EndOf(whole, out', Len(out')) /\ Len(out') >= Minimum(window, Len(whole))
        /\ SubSeq(out', read_off' + 1, Len(out'))
             = SubSeq(out, read_off + n + 1, Len(out))
        /\ Len(out') <= Len(out)
    <3>1. read_off + n \in Nat /\ dict_len <= read_off + n
      BY <1>5, <1>6
    <3>2. QED
      BY <1>4, <1>5, <1>6, <2>1, <3>1, CompactFacts
  <2>3. delivered' \in Seq(Byte)
    <3>1. /\ read_off + 1 \in Nat \ {0} /\ read_off + n \in Nat
          /\ read_off + 1 <= (read_off + n) + 1
      BY <1>5, <1>6
    <3>2. SubSeq(out, read_off + 1, read_off + n) \in Seq(Byte)
      BY <1>5, <1>6, <3>1, SubSeqFacts
    <3>3. QED
      BY <1>5, <2>1, <3>2, ConcatFacts
  <2>4. hashed' = delivered' \o SubSeq(out', read_off' + 1, Len(out'))
    <3>1. delivered \o SubSeq(out, read_off + 1, Len(out))
            = (delivered \o SubSeq(out, read_off + 1, read_off + n))
                \o SubSeq(out, read_off + n + 1, Len(out))
      <4>1. /\ delivered \in Seq(Byte) /\ out \in Seq(Byte)
            /\ read_off \in Nat /\ n \in Nat /\ read_off + n <= Len(out)
        BY <1>5, <1>6
      <4>2. QED
        BY <4>1, SplitPending
    <3>2. QED
      BY <1>1, <1>4, <2>1, <2>2, <3>1
  <2>5. TypeOK' /\ Inputs'
    BY <1>1, <1>2, <2>1, <2>2, <2>3 DEF TypeOK, Inputs, tables, locals
  <2>6. NoUnderflow' /\ Fresh' /\ InBlock' /\ AfterError'
    BY <1>1, <1>3, <2>2 DEF NoUnderflow, Fresh, Opened, InBlock, AfterError
  <2>7. Len(out') <= Bound /\ (pos > 1 => Len(out') <= window)
    <3>1. Len(out') \in Nat /\ Len(out') <= Len(out)
      BY <2>2
    <3>2. Len(out) <= Bound /\ (pos > 1 => Len(out) <= window)
      BY <1>4
    <3>3. Len(out) \in Nat /\ Bound \in Nat /\ window \in Nat
      BY <1>5
    <3>4. QED
      BY <3>1, <3>2, <3>3
  <2>8. Between'
    BY <1>1, <1>2, <2>2, <2>4, <2>7 DEF Between
  <2>9. QED
    BY <2>5, <2>6, <2>8
<1>9. QED
  BY <1>7, <1>8

(* Every step of the decoder keeps IInv.                                   *)
LEMMA StepIInv == IInv /\ [Next]_vars => IInv'
<1> SUFFICES ASSUME IInv, [Next]_vars PROVE IInv'
  OBVIOUS
<1>1. CASE with_options
  BY <1>1, WithOptionsIInv
<1>2. CASE \E n \in BufSizes : Read(n)
  BY <1>2, ReadIInv
<1>3. CASE StartBlock
  BY <1>3, StartBlockIInv
<1>4. CASE DecodeSequence
  BY <1>4, DecodeSequenceIInv
<1>5. CASE TrailingLiterals
  BY <1>5, TrailingLiteralsIInv
<1>6. CASE FinishBlock
  BY <1>6, FinishBlockIInv
<1>7. CASE Deliver
  BY <1>7, DeliverIInv
<1>8. CASE UNCHANGED vars
  <2>1. /\ UNCHANGED input /\ UNCHANGED <<pc, pos, out, dict_len, have_huff,
           have_seq, rep, read_off, last_done, hashed, total_out, poisoned,
           buf_len, before, lit_pos, nseq, delivered, ret>>
    BY <1>8 DEF vars, input
  <2>2. /\ window' = window /\ block_max' = block_max /\ content' = content
        /\ Bound' = Bound /\ frame' = frame /\ dict' = dict
    BY <2>1, SameInput
  <2>3. whole' = whole /\ block' = block
    BY <2>1, <2>2 DEF whole, block
  <2>4. TypeOK' /\ Inputs' /\ NoUnderflow'
    BY <2>1, <2>2 DEF IInv, TypeOK, Inputs, NoUnderflow
  <2>5. Fresh' /\ Between' /\ InBlock' /\ AfterError'
    BY <2>1, <2>2, <2>3 DEF IInv, Fresh, Opened, Between, InBlock, AfterError
  <2>6. QED
    BY <2>4, <2>5 DEF IInv
<1>9. QED
  BY <1>1, <1>2, <1>3, <1>4, <1>5, <1>6, <1>7, <1>8 DEF Next

(* The inductive invariant holds of every state of the decoder.            *)
THEOREM Invariance == Spec => []IInv
  BY InitIInv, StepIInv, PTL DEF Spec

-----------------------------------------------------------------------------
(* What follows from it.                                                   *)

(* Every variable of the decoder keeps its type: in particular the byte    *)
(* sequences stay within what was decoded (no index out of bounds).        *)
THEOREM TypeCorrect == Spec => []TypeOK
<1>1. IInv => TypeOK
  BY DEF IInv
<1>2. QED
  BY Invariance, <1>1, PTL

(* No usize subtraction of StreamingDecoder or BlockState::output_len      *)
(* wraps, for every frame, dictionary, window and buffer size.             *)
THEOREM CursorSafety == Spec => []NoUnderflow
<1>1. IInv => NoUnderflow
  BY DEF IInv
<1>2. QED
  BY Invariance, <1>1, PTL

(* The memory bound of StreamingDecoder for every frame and caller.        *)
THEOREM BoundedMemory == Spec => []MemoryBounded
<1>1. IInv => MemoryBounded
  <2> SUFFICES ASSUME IInv PROVE MemoryBounded
    OBVIOUS
  <2>1. /\ Bound \in Nat /\ block_max \in Nat /\ Len(out) \in Nat
        /\ before \in Nat /\ pos \in Nat
    BY StateFacts DEF IInv, TypeOK
  <2>2. pc = "idle" /\ ~poisoned /\ pos > 1 => Len(out) <= window
    BY DEF IInv, Between
  <2>3. Len(out) <= Bound + block_max
    <3>1. CASE ~Opened
      <4>1. out = <<>>
        BY <3>1 DEF IInv, Fresh
      <4>2. QED
        BY <2>1, <4>1
    <3>2. CASE pc \in {"seqs", "check"}
      BY <2>1, <3>2 DEF IInv, InBlock
    <3>3. CASE pc \in {"idle", "loop"} /\ ~poisoned
      BY <2>1, <3>3 DEF IInv, Between
    <3>4. CASE poisoned
      BY <3>4 DEF IInv, AfterError
    <3>5. QED
      BY <3>1, <3>2, <3>3, <3>4 DEF IInv, TypeOK, Opened
  <2>4. QED
    BY <2>2, <2>3 DEF MemoryBounded, Bound
<1>2. QED
  BY Invariance, <1>1, PTL

(* The window a block may refer to is always still in the buffer.          *)
THEOREM WindowKept == Spec => []HistoryKept
<1>1. IInv => HistoryKept
  BY DEF IInv, Between, HistoryKept, EndOf
<1>2. QED
  BY Invariance, <1>1, PTL

(* What was checksummed is what the caller received and still will.        *)
THEOREM NothingLost == Spec => []DeliveredIsHashed
<1>1. IInv => DeliveredIsHashed
  BY DEF IInv, Between, DeliveredIsHashed
<1>2. QED
  BY Invariance, <1>1, PTL

-----------------------------------------------------------------------------
(* The one-shot decoder.                                                   *)

(* Its states; Lost: it fails, or has matched beyond the window.           *)
States == [out : Seq(Byte), have_huff : BOOLEAN, have_seq : BOOLEAN, rep : RepTriple,
           lit_pos : Nat, ok : BOOLEAN, ended : BOOLEAN, data : Seq(Byte),
           near : BOOLEAN, legal : BOOLEAN]
Lost(st) == ~st.ok \/ ~st.near

(* t begins with s.                                                        *)
Begins(s, t) == Len(s) <= Len(t) /\ \A i \in 1..Len(s) : t[i] = s[i]

(* Decoding more of a block takes st to u: it never gives bytes back, and  *)
(* never recovers.                                                         *)
Grows(st, u) ==
  /\ u \in States /\ Begins(st.out, u.out)
  /\ u.ended = st.ended /\ u.data = st.data
  /\ u.ok => st.ok
  /\ Lost(st) => Lost(u)

(* The fields of a state.                                                  *)
LEMMA StateIs ==
  ASSUME NEW st \in States
  PROVE  /\ st.out \in Seq(Byte) /\ st.have_huff \in BOOLEAN /\ st.have_seq \in BOOLEAN
         /\ st.rep \in RepTriple /\ st.lit_pos \in Nat /\ st.ok \in BOOLEAN
         /\ st.ended \in BOOLEAN /\ st.data \in Seq(Byte) /\ st.near \in BOOLEAN
         /\ st.legal \in BOOLEAN /\ Len(st.out) \in Nat
<1>1. /\ st.out \in Seq(Byte) /\ st.have_huff \in BOOLEAN /\ st.have_seq \in BOOLEAN
      /\ st.rep \in RepTriple /\ st.lit_pos \in Nat /\ st.ok \in BOOLEAN
      /\ st.ended \in BOOLEAN /\ st.data \in Seq(Byte) /\ st.near \in BOOLEAN
      /\ st.legal \in BOOLEAN
  BY Zenon DEF States
<1>2. Len(st.out) \in Nat
  BY <1>1
<1> QED BY <1>1, <1>2

(* Begins is a preorder.                                                   *)
LEMMA BeginsFacts ==
  ASSUME NEW S, NEW s \in Seq(S), NEW t \in Seq(S), NEW u \in Seq(S)
  PROVE  /\ Begins(s, s)
         /\ Begins(s, s \o t)
         /\ Begins(s, t) /\ Begins(t, u) => Begins(s, u)
<1>1. Begins(s, s)
  BY DEF Begins
<1>2. Begins(s, s \o t)
  BY DEF Begins
<1>3. ASSUME Begins(s, t), Begins(t, u)
      PROVE  Begins(s, u)
  <2>1. Len(s) \in Nat /\ Len(t) \in Nat /\ Len(u) \in Nat
    OBVIOUS
  <2> QED BY <1>3, <2>1 DEF Begins
<1> QED BY <1>1, <1>2, <1>3

(* Every sequence begins what appending makes of it.                       *)
LEMMA BeginsLonger ==
  ASSUME NEW S, NEW s \in Seq(S), NEW t \in Seq(S), NEW u, u = s \o t
  PROVE  Begins(s, u)
  BY BeginsFacts

(* Grows is a preorder.                                                    *)
LEMMA GrowsFacts ==
  ASSUME NEW st \in States, NEW u, NEW v
  PROVE  /\ Grows(st, st)
         /\ Grows(st, u) /\ Grows(u, v) => Grows(st, v)
<1>1. Grows(st, st)
  BY StateIs, BeginsFacts, Zenon DEF Grows
<1>2. ASSUME Grows(st, u), Grows(u, v)
      PROVE  Grows(st, v)
  <2>1. u \in States /\ v \in States
    BY <1>2 DEF Grows
  <2>2. st.out \in Seq(Byte) /\ u.out \in Seq(Byte) /\ v.out \in Seq(Byte)
    BY <2>1, StateIs, Zenon
  <2>3. Begins(st.out, v.out)
    <3>1. Begins(st.out, u.out) /\ Begins(u.out, v.out)
      BY <1>2, Zenon DEF Grows
    <3> QED BY <2>2, <3>1, BeginsFacts, Zenon
  <2> QED BY <1>2, <2>1, <2>3, Zenon DEF Grows
<1> QED BY <1>1, <1>2, Zenon

(* Grows, step after step.                                                 *)
LEMMA GrowsOn ==
  ASSUME NEW st \in States, NEW u, NEW v, Grows(st, u), Grows(u, v)
  PROVE  Grows(st, v)
  BY GrowsFacts, Zenon

(* Refusing, and appending x.                                              *)
LEMMA RefusedIs ==
  ASSUME NEW st \in States
  PROVE  /\ Grows(st, Refused(st)) /\ ~Refused(st).ok
         /\ Refused(st).out = st.out /\ Refused(st).lit_pos = st.lit_pos
<1> DEFINE u == Refused(st)
<1>1. /\ u \in States /\ ~u.ok /\ u.out = st.out /\ u.lit_pos = st.lit_pos
      /\ u.ended = st.ended /\ u.data = st.data /\ u.near = st.near
  BY DEF Refused, States
<1>2. Begins(st.out, u.out)
  BY <1>1, StateIs, BeginsFacts, Zenon
<1> QED BY <1>1, <1>2, Zenon DEF Grows, Lost

(* Appending bytes to the output keeps a state a state.                    *)
LEMMA AppendIs ==
  ASSUME NEW st \in States, NEW x \in Seq(Byte)
  PROVE  LET u == [st EXCEPT !.out = @ \o x]
         IN  /\ u \in States /\ Grows(st, u) /\ u.out = st.out \o x
             /\ u.have_huff = st.have_huff /\ u.have_seq = st.have_seq
             /\ u.rep = st.rep /\ u.lit_pos = st.lit_pos /\ u.ok = st.ok /\ u.near = st.near
<1> DEFINE u == [st EXCEPT !.out = @ \o x]
<1>0. st.out \o x \in Seq(Byte)
  BY StateIs, ConcatFacts
<1>1. /\ u \in States /\ u.out = st.out \o x
      /\ u.have_huff = st.have_huff /\ u.have_seq = st.have_seq /\ u.rep = st.rep
      /\ u.lit_pos = st.lit_pos /\ u.ok = st.ok /\ u.near = st.near
      /\ u.ended = st.ended /\ u.data = st.data
  BY <1>0 DEF States
<1>2. Begins(st.out, u.out)
  <2>1. st.out \in Seq(Byte)
    BY StateIs
  <2> QED BY ONLY <1>1, <2>1, x \in Seq(Byte), BeginsLonger, Zenon
<1> QED BY <1>1, <1>2, Zenon DEF Grows, Lost

(* The bytes x of a sequence that used n literals.                         *)
Advanced(st, u, r, near, x, n) ==
  /\ u \in States /\ Grows(st, u) /\ u.out = st.out \o x
  /\ u.have_huff = st.have_huff /\ u.have_seq = st.have_seq
  /\ u.rep = r /\ u.lit_pos = st.lit_pos + n /\ u.ok = st.ok
  /\ u.near = (st.near /\ near)

(* The state after an executed sequence.                                   *)
LEMMA SequenceIs ==
  ASSUME NEW st \in States, NEW r \in RepTriple, NEW near \in BOOLEAN, NEW legal \in BOOLEAN,
         NEW x \in Seq(Byte), NEW n \in Nat, NEW u,
         u = [st EXCEPT !.rep = r, !.near = @ /\ near, !.legal = @ /\ legal,
                !.out = @ \o x, !.lit_pos = @ + n]
  PROVE  Advanced(st, u, r, near, x, n)
<1>0. /\ st.out \o x \in Seq(Byte) /\ st.lit_pos + n \in Nat
      /\ (st.near /\ near) \in BOOLEAN /\ (st.legal /\ legal) \in BOOLEAN
  BY StateIs, ConcatFacts
<1>1. /\ u \in States /\ u.out = st.out \o x
      /\ u.have_huff = st.have_huff /\ u.have_seq = st.have_seq /\ u.rep = r
      /\ u.lit_pos = st.lit_pos + n /\ u.ok = st.ok
      /\ u.ended = st.ended /\ u.data = st.data
  BY <1>0 DEF States
<1>2. u.near = (st.near /\ near)
  BY Zenon DEF States
<1>3. Begins(st.out, u.out)
  <2>1. st.out \in Seq(Byte)
    BY StateIs
  <2> QED BY ONLY <1>1, <2>1, x \in Seq(Byte), BeginsLonger, Zenon
<1> QED BY <1>1, <1>2, <1>3, Zenon DEF Grows, Lost, Advanced

-----------------------------------------------------------------------------
(* One sequence.                                                           *)

Args(f, d, b) == f \in Frame /\ d \in Dict \cup {None} /\ b \in Block

(* The states inside block b.                                              *)
Fits(st, d) == Len(History(d)) <= Len(st.out)
At(b, d)    == {st \in States : Fits(st, d) /\ st.lit_pos <= Len(b.lits)}

Resolved(st, s) == resolve_offset(st.rep, s.ov, s.ll = 0)
Verdict(st, d, b, cap, s) ==
  SequenceVerdict(Resolved(st, s).offset, s, SatSub(cap, output_len(st, d)),
                  Len(b.lits) - st.lit_pos, Len(st.out))

(* Sequence s of block b was executed on st and gave u.                    *)
Taken(st, u, f, b, s) ==
  /\ u.ok /\ u.rep = Resolved(st, s).rep /\ u.lit_pos = st.lit_pos + s.ll
  /\ u.out = st.out \o SequenceBytes(st.out, b.lits, st.lit_pos, s, Resolved(st, s).offset)
  /\ u.have_huff = st.have_huff /\ u.have_seq = st.have_seq
  /\ u.near => Resolved(st, s).offset <= f.window

(* The fields of the frame, the dictionary and the block.                  *)
LEMMA ArgsAre ==
  ASSUME NEW f, NEW d, NEW b, Args(f, d, b)
  PROVE  /\ History(d) \in Seq(Byte) /\ Len(History(d)) \in Nat
         /\ b.lits \in Seq(Byte) /\ Len(b.lits) \in Nat
         /\ b.seqs \in Seq(Sequence) /\ Len(b.seqs) \in Nat
         /\ f.window \in Nat
<1>1. f.window \in Nat /\ b.lits \in Seq(Byte) /\ b.seqs \in Seq(Sequence)
  BY DEF Args, Frame, Block
<1>2. History(d) \in Seq(Byte)
  <2>1. d = None \/ d.content \in Seq(Byte)
    BY DEF Args, Dict
  <2> QED BY <2>1 DEF History
<1>3. Len(History(d)) \in Nat /\ Len(b.lits) \in Nat /\ Len(b.seqs) \in Nat
  BY <1>1, <1>2
<1> QED BY <1>1, <1>2, <1>3

(* An executed sequence gives ll + ml bytes.                               *)
LEMMA VerdictIs ==
  ASSUME NEW f, NEW d, NEW b, Args(f, d, b), NEW cap \in Nat, NEW st \in At(b, d),
         NEW s \in Sequence, Verdict(st, d, b, cap, s) = "ok"
  PROVE  LET r == Resolved(st, s)
             x == SequenceBytes(st.out, b.lits, st.lit_pos, s, r.offset)
         IN  /\ s.ll \in Nat /\ s.ml \in Nat
             /\ r.offset \in Nat \ {0} /\ r.rep \in RepTriple
             /\ s.ll + s.ml <= SatSub(cap, output_len(st, d))
             /\ st.lit_pos + s.ll <= Len(b.lits) /\ r.offset <= Len(st.out) + s.ll
             /\ x \in Seq(Byte) /\ Len(x) = s.ll + s.ml
<1> DEFINE r == Resolved(st, s)
           o == st.out
<1>1. s.ll \in Nat /\ s.ml \in Nat /\ s.ov \in Nat \ {0}
  BY DEF Sequence
<1>2. st \in States /\ Fits(st, d) /\ st.lit_pos <= Len(b.lits)
  BY DEF At
<1>3. o \in Seq(Byte) /\ Len(o) \in Nat /\ st.rep \in RepTriple /\ st.lit_pos \in Nat
  BY <1>2, StateIs, Zenon
<1>4. b.lits \in Seq(Byte) /\ Len(b.lits) \in Nat /\ Len(History(d)) \in Nat
  BY ArgsAre, Zenon
<1>5. r.offset \in Nat /\ r.rep \in RepTriple
  <2>1. (s.ll = 0) \in BOOLEAN
    OBVIOUS
  <2> QED BY <1>1, <1>3, <2>1, ResolveOffsetType, Zenon DEF Resolved
<1> HIDE DEF r, o
<1>6. /\ r.offset # 0 /\ s.ll + s.ml <= SatSub(cap, output_len(st, d))
      /\ s.ll <= Len(b.lits) - st.lit_pos /\ r.offset <= Len(o) + s.ll
  <2>1. SequenceVerdict(r.offset, s, SatSub(cap, output_len(st, d)),
                        Len(b.lits) - st.lit_pos, Len(o)) = "ok"
    BY Zenon DEF Verdict, r, o
  <2>2. SatSub(cap, output_len(st, d)) \in Nat
    BY <1>2, <1>3, <1>4 DEF SatSub, output_len, Fits, o
  <2> DEFINE h == SatSub(cap, output_len(st, d))
  <2>3. h \in Nat
    BY <2>2
  <2> HIDE DEF h
  <2>4. SequenceVerdict(r.offset, s, h, Len(b.lits) - st.lit_pos, Len(o)) = "ok"
    BY <2>1 DEF h
  <2>5. /\ r.offset # 0 /\ s.ll + s.ml <= h
        /\ s.ll <= Len(b.lits) - st.lit_pos /\ r.offset <= Len(o) + s.ll
    BY SMTT(30), <1>1, <1>3, <1>4, <1>5, <2>3, <2>4 DEF SequenceVerdict
  <2> QED BY <2>5 DEF h
<1>7. st.lit_pos + s.ll <= Len(b.lits) /\ r.offset \in Nat \ {0}
  BY <1>1, <1>3, <1>4, <1>5, <1>6
<1>8. /\ SequenceBytes(o, b.lits, st.lit_pos, s, r.offset) \in Seq(Byte)
      /\ Len(SequenceBytes(o, b.lits, st.lit_pos, s, r.offset)) = s.ll + s.ml
  BY <1>3, <1>4, <1>6, <1>7, SequenceBytesType
<1> QED BY <1>1, <1>5, <1>6, <1>7, <1>8, Zenon DEF r, o

(* One sequence takes a state to a state that grew.                        *)
LEMMA OneSequenceIs ==
  ASSUME NEW f, NEW d, NEW b, Args(f, d, b), NEW cap \in Nat, NEW st \in At(b, d),
         NEW s \in Sequence
  PROVE  LET u == OneSequence(st, f, d, b, cap, s)
         IN  /\ u \in At(b, d) /\ Grows(st, u)
             /\ st.ok /\ Verdict(st, d, b, cap, s) = "ok" => Taken(st, u, f, b, s)
             /\ ~(st.ok /\ Verdict(st, d, b, cap, s) = "ok") => ~u.ok
<1> DEFINE u == OneSequence(st, f, d, b, cap, s)
           r == Resolved(st, s)
           x == SequenceBytes(st.out, b.lits, st.lit_pos, s, r.offset)
           near == r.offset <= f.window
           decoded == output_len(st, d) + s.ll
           legal == near \/ (decoded <= f.window /\ r.offset > decoded)
<1>1. st \in States /\ Fits(st, d) /\ st.lit_pos <= Len(b.lits)
  BY DEF At
<1>2. Len(st.out) \in Nat /\ Len(History(d)) \in Nat
  BY <1>1, StateIs, ArgsAre, Zenon
<1>3. CASE ~(st.ok /\ Verdict(st, d, b, cap, s) = "ok")
  <2>1. u = Refused(st)
    BY <1>3, Zenon DEF OneSequence, Verdict, Resolved
  <2>2. Refused(st) \in States /\ Grows(st, Refused(st)) /\ ~Refused(st).ok
        /\ Refused(st).out = st.out /\ Refused(st).lit_pos = st.lit_pos
    BY <1>1, RefusedIs, Zenon DEF Grows
  <2>3. Refused(st) \in At(b, d)
    BY <1>1, <2>2, Zenon DEF At, Fits
  <2> QED BY <1>3, <2>1, <2>2, <2>3, Zenon
<1>4. CASE st.ok /\ Verdict(st, d, b, cap, s) = "ok"
  <2>1. /\ s.ll \in Nat /\ r.rep \in RepTriple /\ x \in Seq(Byte)
        /\ st.lit_pos + s.ll <= Len(b.lits)
    BY <1>4, VerdictIs, Zenon
  <2>2. near \in BOOLEAN /\ legal \in BOOLEAN
    OBVIOUS
  <2>3. u = [st EXCEPT !.rep = r.rep, !.near = @ /\ near, !.legal = @ /\ legal,
                 !.out = @ \o x, !.lit_pos = @ + s.ll]
    BY <1>4, Zenon DEF OneSequence, Verdict, Resolved
  <2> HIDE DEF x, near, legal, r, u
  <2>4. Advanced(st, u, r.rep, near, x, s.ll)
    BY ONLY <1>1, <2>1, <2>2, <2>3, SequenceIs, Zenon
  <2>5. Taken(st, u, f, b, s)
    BY <1>4, <2>4, Zenon DEF Taken, Advanced, near, x, r
  <2>6. u \in At(b, d)
    <3>1. Fits(u, d)
      <4>1. Len(st.out) <= Len(u.out) /\ Len(u.out) \in Nat
        BY <2>4, StateIs, Zenon DEF Advanced, Grows, Begins
      <4> QED BY <1>1, <1>2, <4>1 DEF Fits
    <3> QED BY <2>1, <2>4, <3>1, Zenon DEF At, Advanced
  <2> QED BY <1>4, <2>4, <2>5, <2>6, Zenon DEF u, Advanced
<1> QED BY <1>3, <1>4, Zenon

-----------------------------------------------------------------------------
(* One block.                                                              *)

(* q runs through the sequences of b from st.                              *)
Loops(q, st, f, d, b, cap) ==
  /\ q \in [0..Len(b.seqs) -> At(b, d)]
  /\ q[0] = [st EXCEPT !.lit_pos = 0]
  /\ \A i \in 1..Len(b.seqs) : q[i] = OneSequence(q[i - 1], f, d, b, cap, b.seqs[i])

(* The state a block starts from.                                          *)
LEMMA ResetIs ==
  ASSUME NEW f, NEW d, NEW b, Args(f, d, b), NEW st \in States, Fits(st, d), NEW u,
         u = [st EXCEPT !.lit_pos = 0]
  PROVE  /\ u \in At(b, d) /\ Grows(st, u) /\ u.lit_pos = 0 /\ u.out = st.out
         /\ u.have_huff = st.have_huff /\ u.have_seq = st.have_seq /\ u.rep = st.rep
         /\ u.ok = st.ok /\ u.near = st.near
<1>1. /\ u \in States /\ u.lit_pos = 0 /\ u.out = st.out
      /\ u.have_huff = st.have_huff /\ u.have_seq = st.have_seq /\ u.rep = st.rep
      /\ u.ok = st.ok /\ u.near = st.near /\ u.ended = st.ended /\ u.data = st.data
  BY DEF States
<1>2. Begins(st.out, u.out)
  BY <1>1, StateIs, BeginsFacts, Zenon
<1>3. Grows(st, u)
  BY <1>1, <1>2, Zenon DEF Grows, Lost
<1>4. 0 <= Len(b.lits)
  BY ArgsAre
<1> QED BY <1>1, <1>3, <1>4, Zenon DEF At, Fits

(* Every round of the loop over the sequences is such a step.              *)
LEMMA SequenceLoopIs ==
  ASSUME NEW f, NEW d, NEW b, Args(f, d, b), NEW cap \in Nat, NEW st \in States, Fits(st, d)
  PROVE  Loops(SequenceLoop(st, f, d, b, cap), st, f, d, b, cap)
<1> DEFINE n == Len(b.seqs)
           D == At(b, d)
           first == [st EXCEPT !.lit_pos = 0]
           step == [p \in (1..n) \X D |-> OneSequence(p[2], f, d, b, cap, b.seqs[p[1]])]
           F(g) == [i \in 0..n |-> IF i = 0 THEN first
                                   ELSE OneSequence(g[i - 1], f, d, b, cap, b.seqs[i])]
           s == CHOOSE g : g = F(g)
<1>1. n \in Nat /\ \A i \in 1..n : b.seqs[i] \in Sequence
  <2>1. b.seqs \in Seq(Sequence) /\ n \in Nat
    BY ArgsAre, Zenon
  <2> QED BY <2>1
<1>2. first \in D
  BY ResetIs, Zenon
<1>3. step \in [(1..n) \X D -> D]
  <2>1. ASSUME NEW p \in (1..n) \X D
        PROVE  OneSequence(p[2], f, d, b, cap, b.seqs[p[1]]) \in D
    <3> HIDE DEF D, n
    <3>1. p[1] \in 1..n /\ p[2] \in D
      OBVIOUS
    <3>2. b.seqs[p[1]] \in Sequence
      BY <1>1, <3>1, Zenon
    <3> QED BY <3>1, <3>2, OneSequenceIs, Zenon DEF D
  <2> QED BY <2>1, Zenon
<1>4. PICK g \in [0..n -> D] : Iterates(g, n, first, step)
  <2> HIDE DEF step, D, first, n
  <2> QED BY <1>1, <1>2, <1>3, Recursion, Zenon
<1>5. ASSUME NEW i \in 1..n
      PROVE  g[i] = OneSequence(g[i - 1], f, d, b, cap, b.seqs[i])
  <2> HIDE DEF n, D, first
  <2>1. i - 1 \in 0..n
    BY <1>1
  <2>2. g[i - 1] \in D
    BY <2>1
  <2>3. <<i, g[i - 1]>> \in (1..n) \X D
    BY <2>2
  <2>4. g[i] = step[<<i, g[i - 1]>>]
    BY <1>4, Zenon DEF Iterates
  <2>5. step[<<i, g[i - 1]>>]
          = OneSequence(<<i, g[i - 1]>>[2], f, d, b, cap, b.seqs[<<i, g[i - 1]>>[1]])
    BY <2>3, Zenon
  <2>6. <<i, g[i - 1]>>[2] = g[i - 1] /\ <<i, g[i - 1]>>[1] = i
    OBVIOUS
  <2> QED BY <2>4, <2>5, <2>6, Zenon
<1>6. g[0] = first
  BY <1>4, Zenon DEF Iterates
<1>7. g = F(g)
  <2> HIDE DEF D, first, n
  <2>1. ASSUME NEW i \in 0..n
        PROVE  g[i] = F(g)[i]
    <3>1. i = 0 \/ i \in 1..n
      BY <1>1
    <3>2. i \in 1..n => i # 0
      BY <1>1
    <3> QED BY <1>5, <1>6, <3>1, <3>2, Zenon
  <2> QED BY <2>1, Zenon
<1>8. s = F(s)
  <2> HIDE DEF F
  <2> QED BY <1>7, Zenon
<1>9. /\ s[0] = first
      /\ \A i \in 1..n : s[i] = OneSequence(s[i - 1], f, d, b, cap, b.seqs[i])
      /\ s = [i \in 0..n |-> s[i]]
  <2> HIDE DEF s, first
  <2>1. 0 \in 0..n /\ \A i \in 1..n : i \in 0..n /\ i # 0
    BY <1>1
  <2> HIDE DEF n
  <2> QED BY <1>8, <2>1, Zenon
<1>10. 0..n \subseteq {i \in 0..n : s[i] \in D}
  <2> DEFINE T == {i \in 0..n : s[i] \in D}
  <2>1. 0 \in T
    <3>1. 0 \in 0..n
      BY <1>1
    <3> HIDE DEF s, first, D, n
    <3> QED BY <1>2, <1>9, <3>1, Zenon
  <2>2. ASSUME NEW i \in 1..n, i - 1 \in T
        PROVE  i \in T
    <3>1. i \in 0..n
      BY <1>1
    <3>2. b.seqs[i] \in Sequence
      BY <1>1, Zenon
    <3> HIDE DEF s, first, n
    <3>3. s[i - 1] \in D
      BY <2>2, Zenon
    <3>4. OneSequence(s[i - 1], f, d, b, cap, b.seqs[i]) \in D
      BY <3>2, <3>3, OneSequenceIs, Zenon
    <3> QED BY <1>9, <3>1, <3>4, Zenon
  <2> HIDE DEF T, n
  <2> QED BY <1>1, <2>1, <2>2, UpTo, Zenon DEF T
<1>11. s \in [0..n -> D]
  <2> HIDE DEF s, D, n
  <2>1. \A i \in 0..n : s[i] \in D
    BY <1>10, Zenon
  <2> QED BY <1>9, <2>1, Zenon
<1>12. SequenceLoop(st, f, d, b, cap) = s
  BY Zenon DEF SequenceLoop
<1> HIDE DEF s
<1> QED BY <1>9, <1>11, <1>12, Zenon DEF Loops

(* Later states of the loop grow from earlier ones.                        *)
LEMMA LoopGrows ==
  ASSUME NEW f, NEW d, NEW b, Args(f, d, b), NEW cap \in Nat, NEW st, NEW q,
         Loops(q, st, f, d, b, cap), NEW i \in 0..Len(b.seqs)
  PROVE  \A j \in i..Len(b.seqs) : Grows(q[i], q[j])
<1> DEFINE n == Len(b.seqs)
           T == {j \in 0..n : j < i \/ Grows(q[i], q[j])}
<1>1. n \in Nat /\ \A j \in 1..n : b.seqs[j] \in Sequence /\ j \in 0..n /\ j - 1 \in 0..n
  <2>1. b.seqs \in Seq(Sequence) /\ n \in Nat
    BY ArgsAre, Zenon
  <2> QED BY <2>1
<1>2. \A j \in 0..n : q[j] \in At(b, d) /\ q[j] \in States
  BY DEF Loops, At
<1>3. Grows(q[i], q[i])
  BY <1>2, GrowsFacts, Zenon
<1>4. 0 \in T
  <2>1. 0 \in 0..n /\ (0 < i \/ i = 0)
    BY <1>1
  <2> QED BY <1>3, <2>1, Zenon
<1>5. ASSUME NEW j \in 1..n, j - 1 \in T
      PROVE  j \in T
  <2>1. j \in 0..n /\ (j < i \/ j = i \/ ~(j - 1 < i))
    BY <1>1
  <2>2. CASE ~(j - 1 < i)
    <3>1. Grows(q[i], q[j - 1])
      BY <1>5, <2>2, Zenon
    <3>2. Grows(q[j - 1], OneSequence(q[j - 1], f, d, b, cap, b.seqs[j]))
      BY <1>1, <1>2, OneSequenceIs, Zenon
    <3>3. q[j] = OneSequence(q[j - 1], f, d, b, cap, b.seqs[j])
      BY Zenon DEF Loops
    <3>4. Grows(q[i], q[j])
      <4>1. Grows(q[j - 1], q[j]) /\ q[i] \in States
        BY <1>2, <3>2, <3>3, Zenon
      <4> QED BY ONLY <3>1, <4>1, GrowsOn, Zenon
    <3> QED BY <2>1, <3>4, Zenon
  <2> QED BY <1>3, <2>1, <2>2, Zenon
<1>6. 0..n \subseteq T
  <2> HIDE DEF T, n
  <2> QED BY <1>1, <1>4, <1>5, UpTo, Zenon
<1>7. \A j \in i..n : j \in 0..n /\ ~(j < i)
  BY <1>1
<1> QED BY <1>6, <1>7, Zenon

(* The trailing literals.                                                  *)
Rest(st, b) == SubSeq(b.lits, st.lit_pos + 1, Len(b.lits))
RestTaken(st, u, b) ==
  /\ u.ok /\ u.out = st.out \o Rest(st, b) /\ u.rep = st.rep /\ u.near = st.near
  /\ u.have_huff = st.have_huff /\ u.have_seq = st.have_seq

(* The literals that are left.                                             *)
LEMMA RestIs ==
  ASSUME NEW f, NEW d, NEW b, Args(f, d, b), NEW st \in At(b, d)
  PROVE  Rest(st, b) \in Seq(Byte) /\ Len(Rest(st, b)) = Len(b.lits) - st.lit_pos
<1>1. b.lits \in Seq(Byte) /\ st.lit_pos \in Nat /\ st.lit_pos <= Len(b.lits) /\ Len(b.lits) \in Nat
  BY StateIs, ArgsAre, Zenon DEF At
<1>2. st.lit_pos \in 0..Len(b.lits)
  BY <1>1
<1> QED BY <1>1, <1>2, CutSeq DEF Rest

(* The trailing literals take a state to a state that grew.                *)
LEMMA LastLiteralsIs ==
  ASSUME NEW f, NEW d, NEW b, Args(f, d, b), NEW cap \in Nat, NEW st \in At(b, d)
  PROVE  LET u == LastLiterals(st, d, b, cap)
         IN  /\ u \in States /\ Grows(st, u)
             /\ st.ok /\ Len(Rest(st, b)) <= SatSub(cap, output_len(st, d)) => RestTaken(st, u, b)
             /\ ~(st.ok /\ Len(Rest(st, b)) <= SatSub(cap, output_len(st, d))) => ~u.ok
<1> DEFINE u == LastLiterals(st, d, b, cap)
           x == Rest(st, b)
           h == SatSub(cap, output_len(st, d))
<1>1. st \in States /\ Fits(st, d) /\ x \in Seq(Byte) /\ Len(x) \in Nat
  <2>1. x \in Seq(Byte)
    BY RestIs
  <2> QED BY <2>1 DEF At
<1>2. h \in Nat
  BY <1>1, StateIs, ArgsAre DEF SatSub, output_len, Fits
<1>3. Len(x) > h <=> ~(Len(x) <= h)
  <2> HIDE DEF x, h
  <2> QED BY <1>1, <1>2
<1>4. CASE st.ok /\ Len(x) <= h
  <2>1. u = [st EXCEPT !.out = @ \o x]
    BY <1>3, <1>4, Zenon DEF LastLiterals, Rest
  <2> HIDE DEF x, h, u
  <2>2. /\ u \in States /\ Grows(st, u) /\ u.out = st.out \o x
        /\ u.have_huff = st.have_huff /\ u.have_seq = st.have_seq
        /\ u.rep = st.rep /\ u.lit_pos = st.lit_pos /\ u.ok = st.ok /\ u.near = st.near
    BY <1>1, <2>1, AppendIs
  <2> QED BY <1>4, <2>2, Zenon DEF RestTaken, u, x, h
<1>5. CASE ~(st.ok /\ Len(x) <= h)
  <2>1. u = Refused(st)
    BY <1>3, <1>5, Zenon DEF LastLiterals, Rest
  <2> QED BY <1>1, <1>5, <2>1, RefusedIs, Zenon DEF Grows
<1> QED BY <1>4, <1>5, Zenon

(* A block whose header was accepted.                                      *)
Coded(st, b) == [st EXCEPT !.have_huff = HuffAfter(b, @), !.have_seq = TablesAfter(b, @)]
CapOf(st, f, d, max_output) == BlockCap(max_output, output_len(st, d), block_max_of(f))
Starts(st, f, d, b, max_output) ==
  BlockAccepted(b, block_max_of(f), st.have_huff, st.have_seq, max_output - output_len(st, d))

(* A compressed block starts from a state that kept its output.            *)
LEMMA CodedIs ==
  ASSUME NEW st \in States, NEW b
  PROVE  LET u == Coded(st, b)
         IN  /\ u \in States /\ Grows(st, u) /\ u.out = st.out /\ u.rep = st.rep /\ u.ok = st.ok
             /\ u.have_huff = HuffAfter(b, st.have_huff) /\ u.have_seq = TablesAfter(b, st.have_seq)
<1> DEFINE u == Coded(st, b)
<1>0. HuffAfter(b, st.have_huff) \in BOOLEAN /\ TablesAfter(b, st.have_seq) \in BOOLEAN
  BY DEF HuffAfter, TablesAfter
<1>1. /\ u \in States /\ u.out = st.out /\ u.rep = st.rep /\ u.ok = st.ok
      /\ u.near = st.near /\ u.ended = st.ended /\ u.data = st.data
      /\ u.have_huff = HuffAfter(b, st.have_huff) /\ u.have_seq = TablesAfter(b, st.have_seq)
  BY <1>0, Zenon DEF Coded, States
<1>2. Begins(st.out, u.out)
  BY <1>1, StateIs, BeginsFacts, Zenon
<1> QED BY <1>1, <1>2, Zenon DEF Grows, Lost

(* The ceiling a block is given is a number.                               *)
LEMMA CapIs ==
  ASSUME NEW f, NEW d, NEW b, Args(f, d, b), NEW st \in States, Fits(st, d), NEW m \in Nat
  PROVE  /\ CapOf(st, f, d, m) \in Nat /\ output_len(st, d) \in Nat /\ block_max_of(f) \in Nat
         /\ block_max_of(f) <= MaxBlockSize /\ block_max_of(f) <= f.window
         /\ CapOf(st, f, d, m) = Minimum(m, output_len(st, d) + block_max_of(f))
<1>1. output_len(st, d) \in Nat
  BY StateIs, ArgsAre DEF output_len, Fits
<1>2. /\ block_max_of(f) \in Nat /\ block_max_of(f) <= MaxBlockSize
      /\ block_max_of(f) <= f.window
  BY ArgsAre, MaxBlockSizeAssumption DEF block_max_of, Minimum
<1> QED BY <1>1, <1>2 DEF CapOf, BlockCap, Minimum

(* A whole block takes a state to a state that grew.                       *)
LEMMA BlockGrows ==
  ASSUME NEW f, NEW d, NEW b, Args(f, d, b), WellFormedBlock(b), NEW m \in Nat,
         NEW st \in States, Fits(st, d)
  PROVE  LET u == decode_block_at(st, f, d, b, m)
         IN  u \in States /\ Grows(st, u) /\ (~Starts(st, f, d, b, m) => ~u.ok)
<1> DEFINE u == decode_block_at(st, f, d, b, m)
<1>1. CASE ~Starts(st, f, d, b, m)
  <2>1. u = Refused(st)
    BY <1>1, Zenon DEF Starts, decode_block_at
  <2> QED BY <2>1, RefusedIs, Zenon DEF Grows
<1>2. CASE Starts(st, f, d, b, m) /\ b.type = "comp"
  <2> DEFINE c == Coded(st, b)
             cap == CapOf(st, f, d, m)
             q == SequenceLoop(c, f, d, b, cap)
             n == Len(b.seqs)
  <2>1. u = LastLiterals(q[n], d, b, cap)
    BY <1>2, Zenon DEF Starts, decode_block_at, decode_capped, Coded, CapOf
  <2>2. c \in States /\ Grows(st, c) /\ c.out = st.out
    BY CodedIs, Zenon
  <2>3. cap \in Nat /\ Fits(c, d)
    BY <2>2, CapIs, Zenon DEF Fits
  <2> HIDE DEF cap, c, u
  <2>4. Loops(q, c, f, d, b, cap)
    BY <2>2, <2>3, SequenceLoopIs, Zenon
  <2> HIDE DEF q
  <2>5. n \in Nat /\ 0 \in 0..n /\ n \in 0..n /\ n \in 0..n
    BY ArgsAre
  <2>6. q[0] = [c EXCEPT !.lit_pos = 0] /\ q[n] \in At(b, d) /\ q[0] \in At(b, d)
    BY <2>4, <2>5, Zenon DEF Loops
  <2>7. Grows(c, q[0])
    BY <2>2, <2>3, <2>6, ResetIs, Zenon
  <2>8. Grows(q[0], q[n])
    BY <2>3, <2>4, <2>5, LoopGrows, Zenon
  <2>9. u \in States /\ Grows(q[n], u)
    BY <2>1, <2>3, <2>6, LastLiteralsIs, Zenon
  <2>10. Grows(st, u)
    <3>1. c \in States /\ q[0] \in States /\ q[n] \in States
      BY <2>2, <2>6, Zenon DEF At
    <3>2. Grows(st, q[0])
      BY <2>2, <2>7, GrowsOn, Zenon
    <3>3. Grows(st, q[n])
      BY ONLY <2>8, <3>2, st \in States, GrowsOn, Zenon
    <3> QED BY ONLY <2>9, <3>3, st \in States, GrowsOn, Zenon
  <2> QED BY <1>2, <2>9, <2>10, Zenon DEF u
<1>3. CASE Starts(st, f, d, b, m) /\ b.type # "comp"
  <2> DEFINE x == PlainBytes(b)
  <2>1. u = [st EXCEPT !.out = @ \o x]
    BY <1>3, Zenon DEF Starts, decode_block_at
  <2>2. x \in Seq(Byte)
    <3>1. b.type \in {"raw", "rle"} /\ b \in Block
      BY <1>3 DEF Args, Block, Starts, BlockAccepted
    <3> QED BY <3>1, PlainBytesType, Zenon
  <2> HIDE DEF x
  <2> QED BY <1>3, <2>1, <2>2, AppendIs
<1> QED BY <1>1, <1>2, <1>3, Zenon

-----------------------------------------------------------------------------
(* One frame.                                                              *)

FrameArgs(f, d) ==
  /\ f \in Frame /\ d \in Dict \cup {None}
  /\ \A i \in 1..Len(f.blocks) : WellFormedBlock(f.blocks[i])

(* Between blocks data is the output, until the last one.                  *)
Held(d) ==
  {st \in States : /\ Fits(st, d) /\ Begins(st.data, OutputOf(st, d))
                   /\ st.ok /\ ~st.ended => st.data = OutputOf(st, d)}

(* u comes after st in the block loop.                                     *)
Later(st, u) ==
  /\ Begins(st.out, u.out) /\ Begins(st.data, u.data)
  /\ u.ok => st.ok
  /\ Lost(st) => Lost(u)
  /\ st.ended \/ ~st.ok => u = st

(* u is the state after block b.                                           *)
Ends(st, u, f, d, b, m) ==
  LET next == decode_block_at(st, f, d, b, m)
  IN  /\ u.out = next.out /\ u.rep = next.rep /\ u.ok = next.ok /\ u.near = next.near
      /\ u.have_huff = next.have_huff /\ u.have_seq = next.have_seq
      /\ u.ended = (next.ok /\ b.last)

(* The output is the history without the dictionary.                       *)
LEMMA OutputIs ==
  ASSUME NEW f, NEW d, NEW b, Args(f, d, b), NEW st \in States, Fits(st, d)
  PROVE  /\ OutputOf(st, d) \in Seq(Byte) /\ Len(OutputOf(st, d)) = output_len(st, d)
         /\ output_len(st, d) \in Nat
         /\ \A i \in 1..output_len(st, d) : OutputOf(st, d)[i] = st.out[Len(History(d)) + i]
<1>1. st.out \in Seq(Byte) /\ Len(st.out) \in Nat /\ Len(History(d)) \in Nat
  BY StateIs, ArgsAre, Zenon
<1> QED BY <1>1, Slice DEF OutputOf, output_len, Fits

(* When the history grows, the output does.                                *)
LEMMA OutputBegins ==
  ASSUME NEW f, NEW d, NEW b, Args(f, d, b), NEW st \in States, Fits(st, d),
         NEW u \in States, Begins(st.out, u.out)
  PROVE  /\ Begins(OutputOf(st, d), OutputOf(u, d)) /\ Fits(u, d)
         /\ output_len(st, d) <= output_len(u, d)
<1> DEFINE h == Len(History(d))
<1>1. /\ st.out \in Seq(Byte) /\ Len(st.out) \in Nat /\ h \in Nat
      /\ u.out \in Seq(Byte) /\ Len(u.out) \in Nat
  BY StateIs, ArgsAre, Zenon
<1>2. h <= Len(st.out) /\ Len(st.out) <= Len(u.out)
  BY DEF Begins, Fits
<1>3. Fits(u, d)
  BY <1>1, <1>2 DEF Fits
<1> DEFINE m == output_len(st, d)
           n == output_len(u, d)
<1>4. /\ m \in Nat /\ n \in Nat /\ m <= n /\ m = Len(st.out) - h
      /\ \A i \in 1..m : i \in 1..n /\ h + i \in 1..Len(st.out)
  BY <1>1, <1>2 DEF output_len
<1>5. /\ Len(OutputOf(st, d)) = m /\ Len(OutputOf(u, d)) = n
      /\ \A i \in 1..m : OutputOf(st, d)[i] = st.out[h + i]
      /\ \A i \in 1..n : OutputOf(u, d)[i] = u.out[h + i]
  BY <1>3, OutputIs, Zenon
<1> HIDE DEF m, n, h
<1>6. \A i \in 1..m : OutputOf(u, d)[i] = OutputOf(st, d)[i]
  BY <1>4, <1>5, Zenon DEF Begins
<1>7. Begins(OutputOf(st, d), OutputOf(u, d))
  BY <1>4, <1>5, <1>6, Zenon DEF Begins
<1> QED BY <1>3, <1>4, <1>7, Zenon DEF m, n

(* Marking the last block keeps a state a state.                           *)
LEMMA EndedIs ==
  ASSUME NEW st \in States
  PROVE  /\ [st EXCEPT !.ended = TRUE] \in States
         /\ [st EXCEPT !.ended = TRUE].out = st.out /\ [st EXCEPT !.ended = TRUE].rep = st.rep
         /\ [st EXCEPT !.ended = TRUE].ok = st.ok /\ [st EXCEPT !.ended = TRUE].near = st.near
         /\ [st EXCEPT !.ended = TRUE].have_huff = st.have_huff
         /\ [st EXCEPT !.ended = TRUE].have_seq = st.have_seq
         /\ [st EXCEPT !.ended = TRUE].data = st.data /\ [st EXCEPT !.ended = TRUE].ended
  BY DEF States

(* So does noting the output of a block.                                   *)
LEMMA DataIs ==
  ASSUME NEW st \in States, NEW x \in Seq(Byte)
  PROVE  /\ [st EXCEPT !.data = x] \in States
         /\ [st EXCEPT !.data = x].out = st.out /\ [st EXCEPT !.data = x].rep = st.rep
         /\ [st EXCEPT !.data = x].ok = st.ok /\ [st EXCEPT !.data = x].near = st.near
         /\ [st EXCEPT !.data = x].have_huff = st.have_huff
         /\ [st EXCEPT !.data = x].have_seq = st.have_seq
         /\ [st EXCEPT !.data = x].data = x /\ [st EXCEPT !.data = x].ended = st.ended
  BY DEF States

(* One round of the block loop: a state that grew.                         *)
LEMMA NextBlockIs ==
  ASSUME NEW f, NEW d, NEW b, Args(f, d, b), WellFormedBlock(b), NEW m \in Nat, NEW st \in Held(d)
  PROVE  LET u == NextBlock(st, f, d, b, m)
         IN  /\ u \in Held(d) /\ Later(st, u)
             /\ st.ok /\ ~st.ended => Ends(st, u, f, d, b, m)
             /\ ~(st.ok /\ ~st.ended) => u = st
<1> DEFINE u == NextBlock(st, f, d, b, m)
           next == decode_block_at(st, f, d, b, m)
<1>1. /\ st \in States /\ Fits(st, d) /\ Begins(st.data, OutputOf(st, d))
      /\ st.ok /\ ~st.ended => st.data = OutputOf(st, d)
  BY DEF Held
<1>2. st.out \in Seq(Byte) /\ st.data \in Seq(Byte) /\ OutputOf(st, d) \in Seq(Byte)
  BY <1>1, StateIs, OutputIs, Zenon
<1>3. CASE ~(st.ok /\ ~st.ended)
  <2>1. u = st
    BY <1>3, Zenon DEF NextBlock
  <2>2. Begins(st.out, st.out) /\ Begins(st.data, st.data)
    BY <1>2, BeginsFacts, Zenon
  <2> QED BY <1>3, <2>1, <2>2, Zenon DEF Later
<1>4. CASE st.ok /\ ~st.ended
  <2>1. next \in States /\ Grows(st, next)
    BY <1>1, BlockGrows, Zenon
  <2>2. /\ Begins(st.out, next.out) /\ next.ended = st.ended /\ next.data = st.data
        /\ Lost(st) => Lost(next)
    BY <2>1, Zenon DEF Grows
  <2>3. Begins(OutputOf(st, d), OutputOf(next, d)) /\ Fits(next, d)
    BY <1>1, <2>1, <2>2, OutputBegins, Zenon
  <2>4. OutputOf(next, d) \in Seq(Byte) /\ next.data \in Seq(Byte)
    BY <2>1, <2>3, OutputIs, StateIs, Zenon
  <2> HIDE DEF next
  <2>5. Begins(next.data, OutputOf(next, d)) /\ Begins(st.data, next.data)
    BY <1>1, <1>2, <1>4, <2>2, <2>3, BeginsFacts, Zenon
  <2>6. CASE ~next.ok
    <3>1. u = next
      BY <1>4, <2>6, Zenon DEF NextBlock, next
    <3>2. Ends(st, u, f, d, b, m)
      <4>1. st.ended = FALSE
        BY <1>1, <1>4, StateIs
      <4>2. (next.ok /\ b.last) = FALSE
        BY <2>6
      <4>3. u.ended = (next.ok /\ b.last)
        BY <2>2, <3>1, <4>1, <4>2, Zenon
      <4> QED BY <3>1, <4>3, Zenon DEF Ends, next
    <3>3. u \in Held(d)
      BY <2>1, <2>3, <2>5, <2>6, <3>1, Zenon DEF Held
    <3>4. Later(st, u)
      BY <1>4, <2>2, <2>5, <3>1, Zenon DEF Later
    <3> QED BY <1>4, <3>2, <3>3, <3>4, Zenon
  <2>7. CASE next.ok /\ b.last
    <3>1. u = [next EXCEPT !.ended = TRUE]
      BY <1>4, <2>7, Zenon DEF NextBlock, next
    <3> HIDE DEF u
    <3>2. /\ u \in States /\ u.out = next.out /\ u.rep = next.rep /\ u.ok = next.ok
          /\ u.near = next.near /\ u.have_huff = next.have_huff /\ u.have_seq = next.have_seq
          /\ u.data = next.data /\ u.ended /\ u.ended \in BOOLEAN
      BY <2>1, <3>1, EndedIs, StateIs, Zenon
    <3>3. OutputOf(u, d) = OutputOf(next, d) /\ Fits(u, d)
      BY <2>3, <3>2, Zenon DEF OutputOf, Fits
    <3>4. Ends(st, u, f, d, b, m)
      BY <2>7, <3>2, Zenon DEF Ends, next
    <3>5. u \in Held(d)
      BY <2>5, <3>2, <3>3, Zenon DEF Held
    <3>6. Later(st, u)
      BY <1>4, <2>2, <2>5, <3>2, Zenon DEF Later, Lost
    <3> QED BY <1>4, <3>4, <3>5, <3>6, Zenon DEF u
  <2>8. CASE next.ok /\ ~b.last
    <3> DEFINE x == OutputOf(next, d)
    <3>1. u = [next EXCEPT !.data = x]
      BY <1>4, <2>8, Zenon DEF NextBlock, next
    <3> HIDE DEF u, x
    <3>2. /\ u \in States /\ u.out = next.out /\ u.rep = next.rep /\ u.ok = next.ok
          /\ u.near = next.near /\ u.have_huff = next.have_huff /\ u.have_seq = next.have_seq
          /\ u.data = x /\ u.ended = st.ended
      BY <2>1, <2>2, <2>4, <3>1, DataIs, Zenon DEF x
    <3>3. OutputOf(u, d) = x /\ Fits(u, d)
      BY <2>3, <3>2, Zenon DEF OutputOf, Fits, x
    <3>4. Begins(x, x) /\ Begins(st.data, x)
      BY <1>1, <1>2, <1>4, <2>3, <2>4, BeginsFacts, Zenon DEF x
    <3>5. Ends(st, u, f, d, b, m)
      <4>1. st.ended = FALSE
        BY <1>1, <1>4, StateIs
      <4>2. (next.ok /\ b.last) = FALSE
        BY <2>8
      <4>3. u.ended = (next.ok /\ b.last)
        BY <3>2, <4>1, <4>2, Zenon
      <4> QED BY <3>2, <4>3, Zenon DEF Ends, next
    <3>6. u \in Held(d)
      BY <3>2, <3>3, <3>4, Zenon DEF Held
    <3>7. Later(st, u)
      BY <1>4, <2>2, <3>2, <3>4, Zenon DEF Later, Lost
    <3> QED BY <1>4, <3>5, <3>6, <3>7, Zenon DEF u
  <2> QED BY <2>6, <2>7, <2>8
<1> QED BY <1>3, <1>4

(* s runs through the blocks of f.                                         *)
Runs(s, f, d, m) ==
  /\ s \in [0..Len(f.blocks) -> Held(d)]
  /\ s[0] = NewState(d)
  /\ \A i \in 1..Len(f.blocks) : s[i] = NextBlock(s[i - 1], f, d, f.blocks[i], m)

(* The fields of a frame.                                                  *)
LEMMA FrameIs ==
  ASSUME NEW f, NEW d, FrameArgs(f, d)
  PROVE  /\ Len(f.blocks) \in Nat /\ f.window \in Nat
         /\ History(d) \in Seq(Byte) /\ Len(History(d)) \in Nat
         /\ \A i \in 1..Len(f.blocks) : /\ Args(f, d, f.blocks[i]) /\ WellFormedBlock(f.blocks[i])
                                        /\ i \in 0..Len(f.blocks) /\ i - 1 \in 0..Len(f.blocks)
<1>1. f.blocks \in Seq(Block) /\ f.window \in Nat
  BY DEF FrameArgs, Frame
<1>2. Len(f.blocks) \in Nat /\ \A i \in 1..Len(f.blocks) : f.blocks[i] \in Block
  BY <1>1
<1>3. \A i \in 1..Len(f.blocks) : i \in 0..Len(f.blocks) /\ i - 1 \in 0..Len(f.blocks)
  BY <1>2
<1>4. History(d) \in Seq(Byte) /\ Len(History(d)) \in Nat
  <2>1. d = None \/ d.content \in Seq(Byte)
    BY DEF FrameArgs, Dict
  <2> QED BY <2>1 DEF History
<1> QED BY <1>1, <1>2, <1>3, <1>4, Zenon DEF Args, FrameArgs

(* The state the block loop starts from.                                   *)
LEMMA NewStateIs ==
  ASSUME NEW f, NEW d, FrameArgs(f, d)
  PROVE  /\ NewState(d) \in Held(d) /\ NewState(d).ok /\ ~NewState(d).ended
         /\ NewState(d).out = History(d) /\ output_len(NewState(d), d) = 0
         /\ OutputOf(NewState(d), d) = <<>>
<1> DEFINE u == NewState(d)
<1>1. /\ u.out = History(d) /\ u.have_huff = Primed(d) /\ u.have_seq = Primed(d)
      /\ u.rep = (IF Primed(d) THEN d.rep ELSE DefaultRep) /\ u.lit_pos = 0
      /\ u.ok = TRUE /\ u.ended = FALSE /\ u.data = <<>> /\ u.near = TRUE /\ u.legal = TRUE
  BY Zenon DEF NewState
<1>2. Primed(d) \in BOOLEAN /\ (IF Primed(d) THEN d.rep ELSE DefaultRep) \in RepTriple
  BY DEF Primed, FrameArgs, Dict, DefaultRep, RepTriple
<1>3. u \in States
  <2>1. History(d) \in Seq(Byte)
    BY FrameIs
  <2> QED BY <1>2, <2>1 DEF NewState, States
<1>4. History(d) \in Seq(Byte) /\ Len(History(d)) \in Nat
  BY FrameIs
<1>5. Fits(u, d) /\ output_len(u, d) = 0
  BY <1>1, <1>4 DEF Fits, output_len
<1>6. OutputOf(u, d) = <<>>
  BY <1>1, <1>4 DEF OutputOf
<1>7. Begins(<<>>, <<>>)
  BY DEF Begins
<1> HIDE DEF u
<1>8. u \in Held(d)
  BY <1>1, <1>3, <1>5, <1>6, <1>7, Zenon DEF Held
<1> QED BY <1>1, <1>5, <1>6, <1>8 DEF u

(* Every round of the block loop: a state, later than the one before.      *)
LEMMA BlockLoopIs ==
  ASSUME NEW f, NEW d, FrameArgs(f, d), NEW m \in Nat
  PROVE  Runs(BlockLoop(f, d, m), f, d, m)
<1> DEFINE n == Len(f.blocks)
           D == Held(d)
           first == NewState(d)
           step == [p \in (1..n) \X D |-> NextBlock(p[2], f, d, f.blocks[p[1]], m)]
           F(g) == [i \in 0..n |-> IF i = 0 THEN first
                                   ELSE NextBlock(g[i - 1], f, d, f.blocks[i], m)]
           s == CHOOSE g : g = F(g)
<1>1. n \in Nat /\ \A i \in 1..n : Args(f, d, f.blocks[i]) /\ WellFormedBlock(f.blocks[i])
  BY FrameIs, Zenon
<1>2. first \in D
  BY NewStateIs, Zenon
<1>3. step \in [(1..n) \X D -> D]
  <2>1. ASSUME NEW p \in (1..n) \X D
        PROVE  NextBlock(p[2], f, d, f.blocks[p[1]], m) \in D
    <3> HIDE DEF D, n
    <3>1. p[1] \in 1..n /\ p[2] \in D
      OBVIOUS
    <3> QED BY <1>1, <3>1, NextBlockIs, Zenon DEF D
  <2> QED BY <2>1, Zenon
<1>4. PICK g \in [0..n -> D] : Iterates(g, n, first, step)
  <2> HIDE DEF step, D, first, n
  <2> QED BY <1>1, <1>2, <1>3, Recursion, Zenon
<1>5. ASSUME NEW i \in 1..n
      PROVE  g[i] = NextBlock(g[i - 1], f, d, f.blocks[i], m)
  <2> HIDE DEF n, D, first
  <2>1. i - 1 \in 0..n
    BY <1>1
  <2>2. g[i - 1] \in D
    BY <2>1
  <2>3. <<i, g[i - 1]>> \in (1..n) \X D
    BY <2>2
  <2>4. g[i] = step[<<i, g[i - 1]>>]
    BY <1>4, Zenon DEF Iterates
  <2>5. step[<<i, g[i - 1]>>]
          = NextBlock(<<i, g[i - 1]>>[2], f, d, f.blocks[<<i, g[i - 1]>>[1]], m)
    BY <2>3, Zenon
  <2>6. <<i, g[i - 1]>>[2] = g[i - 1] /\ <<i, g[i - 1]>>[1] = i
    OBVIOUS
  <2> QED BY <2>4, <2>5, <2>6, Zenon
<1>6. g[0] = first
  BY <1>4, Zenon DEF Iterates
<1>7. g = F(g)
  <2> HIDE DEF D, first, n
  <2>1. ASSUME NEW i \in 0..n
        PROVE  g[i] = F(g)[i]
    <3>1. i = 0 \/ i \in 1..n
      BY <1>1
    <3>2. i \in 1..n => i # 0
      BY <1>1
    <3> QED BY <1>5, <1>6, <3>1, <3>2, Zenon
  <2> QED BY <2>1, Zenon
<1>8. s = F(s)
  <2> HIDE DEF F
  <2> QED BY <1>7, Zenon
<1>9. /\ s[0] = first
      /\ \A i \in 1..n : s[i] = NextBlock(s[i - 1], f, d, f.blocks[i], m)
      /\ s = [i \in 0..n |-> s[i]]
  <2> HIDE DEF s, first
  <2>1. 0 \in 0..n /\ \A i \in 1..n : i \in 0..n /\ i # 0
    BY <1>1
  <2> HIDE DEF n
  <2> QED BY <1>8, <2>1, Zenon
<1>10. 0..n \subseteq {i \in 0..n : s[i] \in D}
  <2> DEFINE T == {i \in 0..n : s[i] \in D}
  <2>1. 0 \in T
    <3>1. 0 \in 0..n
      BY <1>1
    <3> HIDE DEF s, first, D, n
    <3> QED BY <1>2, <1>9, <3>1, Zenon
  <2>2. ASSUME NEW i \in 1..n, i - 1 \in T
        PROVE  i \in T
    <3>1. i \in 0..n
      BY <1>1
    <3> HIDE DEF s, first, n
    <3>2. s[i - 1] \in D
      BY <2>2, Zenon
    <3>3. NextBlock(s[i - 1], f, d, f.blocks[i], m) \in D
      BY <1>1, <3>2, NextBlockIs, Zenon
    <3> QED BY <1>9, <3>1, <3>3, Zenon
  <2> HIDE DEF T, n
  <2> QED BY <1>1, <2>1, <2>2, UpTo, Zenon DEF T
<1>11. s \in [0..n -> D]
  <2> HIDE DEF s, D, n
  <2>1. \A i \in 0..n : s[i] \in D
    BY <1>10, Zenon
  <2> QED BY <1>9, <2>1, Zenon
<1>12. BlockLoop(f, d, m) = s
  BY Zenon DEF BlockLoop
<1> HIDE DEF s
<1> QED BY <1>9, <1>11, <1>12, Zenon DEF Runs

(* Later is transitive.                                                    *)
LEMMA LaterOn ==
  ASSUME NEW d, NEW st \in Held(d), NEW u \in Held(d), NEW v \in Held(d),
         Later(st, u), Later(u, v)
  PROVE  Later(st, v)
<1>1. /\ st.out \in Seq(Byte) /\ u.out \in Seq(Byte) /\ v.out \in Seq(Byte)
      /\ st.data \in Seq(Byte) /\ u.data \in Seq(Byte) /\ v.data \in Seq(Byte)
  BY StateIs, Zenon DEF Held
<1>2. Begins(st.out, v.out)
  BY <1>1, BeginsFacts, Zenon DEF Later
<1>3. Begins(st.data, v.data)
  BY <1>1, BeginsFacts, Zenon DEF Later
<1> QED BY <1>2, <1>3, Zenon DEF Later

(* Any two rounds of the block loop, the later one grew from the earlier.  *)
LEMMA BlocksLater ==
  ASSUME NEW f, NEW d, FrameArgs(f, d), NEW m \in Nat, NEW s, Runs(s, f, d, m),
         NEW i \in 0..Len(f.blocks)
  PROVE  \A j \in i..Len(f.blocks) : Later(s[i], s[j])
<1> DEFINE n == Len(f.blocks)
           T == {j \in 0..n : j < i \/ Later(s[i], s[j])}
<1>1. /\ n \in Nat
      /\ \A j \in 1..n : /\ Args(f, d, f.blocks[j]) /\ WellFormedBlock(f.blocks[j])
                         /\ j \in 0..n /\ j - 1 \in 0..n
  BY FrameIs, Zenon
<1>2. \A j \in 0..n : s[j] \in Held(d)
  BY DEF Runs
<1>3. Later(s[i], s[i])
  <2>1. s[i].out \in Seq(Byte) /\ s[i].data \in Seq(Byte)
    BY <1>2, StateIs, Zenon DEF Held
  <2> QED BY <2>1, BeginsFacts, Zenon DEF Later
<1>4. 0 \in T
  <2>1. 0 \in 0..n /\ (0 < i \/ i = 0)
    BY <1>1
  <2> QED BY <1>3, <2>1, Zenon
<1>5. ASSUME NEW j \in 1..n, j - 1 \in T
      PROVE  j \in T
  <2>1. j \in 0..n /\ (j < i \/ j = i \/ ~(j - 1 < i))
    BY <1>1
  <2>2. CASE ~(j - 1 < i)
    <3>1. Later(s[i], s[j - 1])
      BY <1>5, <2>2, Zenon
    <3>2. Later(s[j - 1], NextBlock(s[j - 1], f, d, f.blocks[j], m))
      BY <1>1, <1>2, NextBlockIs, Zenon
    <3>3. s[j] = NextBlock(s[j - 1], f, d, f.blocks[j], m)
      BY Zenon DEF Runs
    <3>4. Later(s[i], s[j])
      <4>1. /\ Later(s[j - 1], s[j]) /\ s[i] \in Held(d) /\ s[j] \in Held(d)
            /\ s[j - 1] \in Held(d)
        BY <1>1, <1>2, <3>2, <3>3, Zenon
      <4> QED BY ONLY <3>1, <4>1, LaterOn, Zenon
    <3> QED BY <2>1, <3>4, Zenon
  <2> QED BY <1>3, <2>1, <2>2, Zenon
<1>6. 0..n \subseteq T
  <2> HIDE DEF T, n
  <2> QED BY <1>1, <1>4, <1>5, UpTo, Zenon
<1>7. \A j \in i..n : j \in 0..n /\ ~(j < i)
  BY <1>1
<1> QED BY <1>6, <1>7, Zenon

-----------------------------------------------------------------------------
(* The output ceiling.                                                     *)

(* When a sequence is accepted.                                            *)
LEMMA VerdictOk ==
  ASSUME NEW o \in Nat, NEW s \in Sequence, NEW h \in Nat, NEW left \in Int, NEW n \in Nat
  PROVE  SequenceVerdict(o, s, h, left, n) = "ok"
           <=> o # 0 /\ s.ll + s.ml <= h /\ s.ll <= left /\ o <= n + s.ll
<1>1. s.ll \in Nat /\ s.ml \in Nat
  BY DEF Sequence
<1> QED BY <1>1 DEF SequenceVerdict

(* What a sequence may do at st, whatever the ceiling.                     *)
Sound(st, b, s) ==
  LET o == Resolved(st, s).offset
  IN  o # 0 /\ s.ll <= Len(b.lits) - st.lit_pos /\ o <= Len(st.out) + s.ll

(* The same, at a state: the ceiling enters one comparison only.           *)
LEMMA VerdictAt ==
  ASSUME NEW f, NEW d, NEW b, Args(f, d, b), NEW cap \in Nat, NEW st \in At(b, d),
         NEW s \in Sequence
  PROVE  /\ Verdict(st, d, b, cap, s) = "ok"
              <=> Sound(st, b, s) /\ s.ll + s.ml <= SatSub(cap, output_len(st, d))
         /\ SatSub(cap, output_len(st, d)) \in Nat /\ output_len(st, d) \in Nat
         /\ s.ll \in Nat /\ s.ml \in Nat
<1>1. s.ll \in Nat /\ s.ml \in Nat /\ s.ov \in Nat \ {0}
  BY DEF Sequence
<1>2. st \in States /\ Fits(st, d)
  BY DEF At
<1>3. Len(st.out) \in Nat /\ st.rep \in RepTriple /\ st.lit_pos \in Nat
  BY <1>2, StateIs, Zenon
<1>4. Len(b.lits) \in Nat /\ Len(History(d)) \in Nat
  BY ArgsAre, Zenon
<1> DEFINE o == Resolved(st, s).offset
           h == SatSub(cap, output_len(st, d))
           left == Len(b.lits) - st.lit_pos
           n == Len(st.out)
<1>5. o \in Nat
  <2>1. (s.ll = 0) \in BOOLEAN
    OBVIOUS
  <2> QED BY <1>1, <1>3, <2>1, ResolveOffsetType, Zenon DEF Resolved
<1>6. output_len(st, d) \in Nat
  BY <1>2, <1>3, <1>4 DEF output_len, Fits
<1>7. h \in Nat /\ left \in Int /\ n \in Nat
  BY <1>3, <1>4, <1>6 DEF SatSub
<1> HIDE DEF o, h, left, n
<1>8. SequenceVerdict(o, s, h, left, n) = "ok"
        <=> o # 0 /\ s.ll + s.ml <= h /\ s.ll <= left /\ o <= n + s.ll
  BY <1>5, <1>7, VerdictOk
<1>9. Verdict(st, d, b, cap, s) = SequenceVerdict(o, s, h, left, n)
  BY Zenon DEF Verdict, o, h, left, n
<1>10. Sound(st, b, s) <=> o # 0 /\ s.ll <= left /\ o <= n + s.ll
  BY Zenon DEF Sound, o, left, n
<1> QED BY <1>1, <1>6, <1>7, <1>8, <1>9, <1>10, Zenon DEF h

(* saturating_sub, compared.                                               *)
LEMMA SatSubLeq ==
  ASSUME NEW a \in Nat, NEW b \in Nat, NEW x \in Nat
  PROVE  /\ x <= SatSub(a, b) <=> (x = 0 \/ b + x <= a)
         /\ SatSub(a, b) \in Nat
  BY DEF SatSub

(* A lower ceiling m changes nothing as long as the output stays below it. *)
LEMMA SequenceCeiling ==
  ASSUME NEW f, NEW d, NEW b, Args(f, d, b), NEW m \in Nat, NEW cap \in Nat, m <= cap,
         NEW st \in At(b, d), NEW s \in Sequence
  PROVE  LET u == OneSequence(st, f, d, b, m, s)
             v == OneSequence(st, f, d, b, cap, s)
         IN  /\ u.ok => u = v
             /\ v.ok /\ output_len(v, d) <= m => u = v
             /\ output_len(v, d) <= output_len(st, d) \/ output_len(v, d) <= cap
<1> DEFINE u == OneSequence(st, f, d, b, m, s)
           v == OneSequence(st, f, d, b, cap, s)
           l == output_len(st, d)
           k == s.ll + s.ml
           good(c) == st.ok /\ Verdict(st, d, b, c, s) = "ok"
<1>1. good(m) /\ good(cap) => u = v
  BY Zenon DEF OneSequence, Verdict, Resolved
<1>2. /\ u.ok <=> good(m)
      /\ v.ok <=> good(cap)
  <2>1. ASSUME NEW c \in Nat
        PROVE  OneSequence(st, f, d, b, c, s).ok <=> good(c)
    <3>1. ASSUME good(c)
          PROVE  OneSequence(st, f, d, b, c, s).ok
      BY <3>1, OneSequenceIs DEF Taken
    <3>2. ASSUME ~good(c)
          PROVE  ~OneSequence(st, f, d, b, c, s).ok
      BY <3>2, OneSequenceIs
    <3> QED BY <3>1, <3>2
  <2> QED BY <2>1
<1>3. /\ good(m) <=> st.ok /\ Sound(st, b, s) /\ k <= SatSub(m, l)
      /\ good(cap) <=> st.ok /\ Sound(st, b, s) /\ k <= SatSub(cap, l)
      /\ l \in Nat
  BY VerdictAt, Zenon
<1>4. k \in Nat
  BY DEF Sequence
<1>5. good(cap) => output_len(v, d) = l + k /\ l + k \in Nat
  <2> SUFFICES ASSUME good(cap) PROVE output_len(v, d) = l + k /\ l + k \in Nat
    OBVIOUS
  <2> DEFINE x == SequenceBytes(st.out, b.lits, st.lit_pos, s, Resolved(st, s).offset)
  <2>1. x \in Seq(Byte) /\ Len(x) = k
    <3>1. Verdict(st, d, b, cap, s) = "ok"
      OBVIOUS
    <3> QED BY <3>1, VerdictIs
  <2>2. v.out = st.out \o x
    <3>1. Taken(st, OneSequence(st, f, d, b, cap, s), f, b, s)
      BY OneSequenceIs
    <3> QED BY <3>1, Zenon DEF Taken
  <2>3. st.out \in Seq(Byte) /\ Len(st.out) \in Nat /\ Len(History(d)) \in Nat
    BY StateIs, ArgsAre, Zenon DEF At
  <2> HIDE DEF x, v, k, good
  <2>4. Len(v.out) = Len(st.out) + k
    BY ZenonT(30), <2>1, <2>2, <2>3, ConcatFacts
  <2> QED BY <1>3, <1>4, <2>3, <2>4 DEF output_len
<1>6. ~good(cap) => output_len(v, d) = l
  <2> SUFFICES ASSUME ~good(cap) PROVE output_len(v, d) = l
    OBVIOUS
  <2>1. v = Refused(st)
    BY Zenon DEF OneSequence, Verdict, Resolved
  <2>2. Refused(st).out = st.out
    BY RefusedIs, Zenon DEF At
  <2> QED BY <2>1, <2>2, Zenon DEF output_len
<1> HIDE DEF u, v, l, k
<1>7. /\ k <= SatSub(m, l) <=> (k = 0 \/ l + k <= m)
      /\ k <= SatSub(cap, l) <=> (k = 0 \/ l + k <= cap)
  BY <1>3, <1>4, SatSubLeq
<1>8. good(m) => good(cap)
  <2> HIDE DEF good
  <2> QED BY <1>3, <1>4, <1>7
<1>9. good(cap) /\ l + k <= m => good(m)
  <2> HIDE DEF good
  <2> QED BY <1>3, <1>4, <1>7
<1>10. good(cap) => l + k <= l \/ l + k <= cap
  <2> HIDE DEF good
  <2> QED BY <1>3, <1>4, <1>7
<1>11. l <= l
  BY <1>3
<1>12. u.ok => u = v
  BY <1>1, <1>2, <1>8, Zenon
<1>13. v.ok /\ output_len(v, d) <= m => u = v
  <2> HIDE DEF good
  <2> QED BY <1>1, <1>2, <1>5, <1>9, Zenon
<1>14. output_len(v, d) <= l \/ output_len(v, d) <= cap
  <2> HIDE DEF good
  <2> QED BY <1>5, <1>6, <1>10, <1>11, Zenon
<1> QED BY <1>12, <1>13, <1>14, Zenon DEF u, v, l

(* u is decoded under the ceiling m, v under a higher one; v gives at most *)
(* cap bytes unless there already were l.                                  *)
Matches(u, v, d, m)   == (u.ok => u = v) /\ (v.ok /\ output_len(v, d) <= m => u = v)
Stays(v, d, l, cap)   == output_len(v, d) <= l \/ output_len(v, d) <= cap

(* A state that grew has an output no shorter.                             *)
LEMMA GrowsLen ==
  ASSUME NEW f, NEW d, NEW b, Args(f, d, b), NEW st \in States, Fits(st, d), NEW u, Grows(st, u)
  PROVE  /\ output_len(st, d) <= output_len(u, d) /\ Fits(u, d)
         /\ output_len(st, d) \in Nat /\ output_len(u, d) \in Nat
<1>1. u \in States /\ Begins(st.out, u.out)
  BY Zenon DEF Grows
<1>2. output_len(st, d) <= output_len(u, d) /\ Fits(u, d)
  BY <1>1, OutputBegins, Zenon
<1> QED BY <1>1, <1>2, OutputIs, Zenon

(* Leq is transitive.                                                      *)
LEMMA LeqOn ==
  ASSUME NEW a \in Nat, NEW b \in Nat, NEW c \in Nat, a <= b, b <= c
  PROVE  a <= c
  OBVIOUS

(* The loop over the sequences, under two ceilings.                        *)
LEMMA LoopCeiling ==
  ASSUME NEW f, NEW d, NEW b, Args(f, d, b), NEW m \in Nat, NEW cap \in Nat, m <= cap,
         NEW st \in States, Fits(st, d), NEW p, NEW q,
         Loops(p, st, f, d, b, m), Loops(q, st, f, d, b, cap)
  PROVE  /\ Matches(p[Len(b.seqs)], q[Len(b.seqs)], d, m)
         /\ Stays(q[Len(b.seqs)], d, output_len(st, d), cap)
<1> DEFINE n == Len(b.seqs)
           l == output_len(st, d)
           T == {i \in 0..n : Matches(p[i], q[i], d, m) /\ Stays(q[i], d, l, cap)}
<1>1. n \in Nat /\ \A i \in 1..n : b.seqs[i] \in Sequence /\ i \in 0..n /\ i - 1 \in 0..n
  <2>1. b.seqs \in Seq(Sequence) /\ n \in Nat
    BY ArgsAre, Zenon
  <2> QED BY <2>1
<1>2. /\ \A i \in 0..n : p[i] \in At(b, d) /\ q[i] \in At(b, d)
      /\ p[0] = q[0] /\ q[0] = [st EXCEPT !.lit_pos = 0]
  BY Zenon DEF Loops
<1>3. 0 \in T
  <2>1. q[0].out = st.out
    <3>1. q[0] = [st EXCEPT !.lit_pos = 0]
      BY <1>2
    <3> HIDE DEF T, n, l
    <3> DEFINE z == q[0]
    <3> HIDE DEF z
    <3>2. z = [st EXCEPT !.lit_pos = 0]
      BY <3>1 DEF z
    <3>3. z.out = st.out
      BY ONLY <3>2, st \in States DEF States
    <3> QED BY <3>3 DEF z
  <2>2. output_len(q[0], d) = l /\ l \in Nat
    <3>1. l \in Nat
      BY OutputIs, Zenon
    <3> QED BY <2>1, <3>1, Zenon DEF output_len
  <2>3. l <= l
    BY <2>2
  <2>4. 0 \in 0..n
    BY <1>1
  <2> QED BY <1>2, <2>2, <2>3, <2>4, Zenon DEF Matches, Stays
<1>4. ASSUME NEW i \in 1..n, i - 1 \in T
      PROVE  i \in T
  <2> DEFINE p0 == p[i - 1]
             q0 == q[i - 1]
             s == b.seqs[i]
  <2>1. /\ i \in 0..n /\ i - 1 \in 0..n /\ s \in Sequence
        /\ p0 \in At(b, d) /\ q0 \in At(b, d)
        /\ Matches(p0, q0, d, m) /\ Stays(q0, d, l, cap)
    BY <1>1, <1>2, <1>4, Zenon
  <2>2. /\ p[i] = OneSequence(p0, f, d, b, m, s)
        /\ q[i] = OneSequence(q0, f, d, b, cap, s)
    BY Zenon DEF Loops
  <2> HIDE DEF s, p0, q0, n, l
  <2>3. Grows(p0, p[i]) /\ Grows(q0, q[i])
    BY <2>1, <2>2, OneSequenceIs, Zenon
  <2>4. /\ output_len(q0, d) <= output_len(q[i], d)
        /\ output_len(q0, d) \in Nat /\ output_len(q[i], d) \in Nat /\ l \in Nat
    <3>1. q0 \in States /\ Fits(q0, d)
      BY <2>1, Zenon DEF At
    <3>2. l \in Nat
      BY OutputIs, Zenon DEF l
    <3> QED BY <2>3, <3>1, <3>2, GrowsLen, Zenon
  <2> DEFINE w == OneSequence(q0, f, d, b, m, s)
  <2>5. /\ w.ok => w = q[i]
        /\ q[i].ok /\ output_len(q[i], d) <= m => w = q[i]
        /\ output_len(q[i], d) <= output_len(q0, d) \/ output_len(q[i], d) <= cap
    <3> DEFINE v == OneSequence(q0, f, d, b, cap, s)
    <3>1. /\ w.ok => w = v
          /\ v.ok /\ output_len(v, d) <= m => w = v
          /\ output_len(v, d) <= output_len(q0, d) \/ output_len(v, d) <= cap
      BY <2>1, SequenceCeiling
    <3>2. v = q[i]
      BY <2>2
    <3> HIDE DEF v, w
    <3> QED BY <3>1, <3>2, Zenon
  <2> HIDE DEF w
  <2>6. p[i].ok => p[i] = q[i]
    <3> SUFFICES ASSUME p[i].ok PROVE p[i] = q[i]
      OBVIOUS
    <3>1. p0.ok
      BY <2>3, Zenon DEF Grows
    <3>2. p0 = q0
      BY <2>1, <3>1, Zenon DEF Matches
    <3>3. p[i] = w
      BY <2>2, <3>2, Zenon DEF w
    <3> QED BY <2>5, <3>3, Zenon
  <2>7. q[i].ok /\ output_len(q[i], d) <= m => p[i] = q[i]
    <3> SUFFICES ASSUME q[i].ok, output_len(q[i], d) <= m PROVE p[i] = q[i]
      OBVIOUS
    <3>1. q0.ok
      BY <2>3, Zenon DEF Grows
    <3>2. output_len(q0, d) <= m
      BY <2>4, LeqOn, Zenon
    <3>3. p0 = q0
      BY <2>1, <3>1, <3>2, Zenon DEF Matches
    <3>4. p[i] = w
      BY <2>2, <3>3, Zenon DEF w
    <3> QED BY <2>5, <3>4, Zenon
  <2>8. Stays(q[i], d, l, cap)
    <3>1. output_len(q0, d) <= l \/ output_len(q0, d) <= cap
      BY <2>1, Zenon DEF Stays
    <3> QED BY <2>4, <2>5, <3>1, LeqOn, Zenon DEF Stays
  <2> QED BY <2>1, <2>6, <2>7, <2>8, Zenon DEF Matches
<1>5. 0..n \subseteq T
  <2> HIDE DEF T, n
  <2> QED BY <1>1, <1>3, <1>4, UpTo, Zenon
<1>6. n \in 0..n
  BY <1>1
<1> QED BY <1>5, <1>6, Zenon

(* The trailing literals, under two ceilings.                              *)
LEMMA LastCeiling ==
  ASSUME NEW f, NEW d, NEW b, Args(f, d, b), NEW m \in Nat, NEW cap \in Nat, m <= cap,
         NEW st \in At(b, d)
  PROVE  LET u == LastLiterals(st, d, b, m)
             v == LastLiterals(st, d, b, cap)
         IN  Matches(u, v, d, m) /\ Stays(v, d, output_len(st, d), cap)
<1> DEFINE u == LastLiterals(st, d, b, m)
           v == LastLiterals(st, d, b, cap)
           l == output_len(st, d)
           k == Len(Rest(st, b))
           good(c) == st.ok /\ k <= SatSub(c, l)
<1>0. st \in States /\ Fits(st, d) /\ Rest(st, b) \in Seq(Byte)
  BY RestIs, Zenon DEF At
<1>1. l \in Nat /\ k \in Nat
  <2>1. l \in Nat
    BY <1>0, OutputIs, Zenon
  <2> QED BY <1>0, <2>1
<1>2. /\ SatSub(m, l) \in Nat /\ SatSub(cap, l) \in Nat
      /\ k <= SatSub(m, l) <=> (k = 0 \/ l + k <= m)
      /\ k <= SatSub(cap, l) <=> (k = 0 \/ l + k <= cap)
  <2> HIDE DEF l, k
  <2> QED BY <1>1, SatSubLeq
<1>3. /\ u.ok <=> good(m)
      /\ v.ok <=> good(cap)
  <2>1. ASSUME NEW c \in Nat
        PROVE  LastLiterals(st, d, b, c).ok <=> good(c)
    <3>1. ASSUME good(c)
          PROVE  LastLiterals(st, d, b, c).ok
      BY <3>1, LastLiteralsIs DEF RestTaken
    <3>2. ASSUME ~good(c)
          PROVE  ~LastLiterals(st, d, b, c).ok
      BY <3>2, LastLiteralsIs
    <3> QED BY <3>1, <3>2
  <2> QED BY <2>1
<1>4. good(m) /\ good(cap) => u = v
  <2>1. /\ k > SatSub(m, l) <=> ~(k <= SatSub(m, l))
        /\ k > SatSub(cap, l) <=> ~(k <= SatSub(cap, l))
    <3> HIDE DEF k, l
    <3> QED BY <1>1, <1>2
  <2> QED BY <2>1, Zenon DEF LastLiterals, Rest
<1>5. good(cap) => output_len(v, d) = l + k
  <2> SUFFICES ASSUME good(cap) PROVE output_len(v, d) = l + k
    OBVIOUS
  <2>1. RestTaken(st, v, b)
    BY LastLiteralsIs
  <2>2. v.out = st.out \o Rest(st, b)
    BY <2>1, Zenon DEF RestTaken
  <2>3. st.out \in Seq(Byte) /\ Len(st.out) \in Nat /\ Len(History(d)) \in Nat
    BY <1>0, StateIs, ArgsAre, Zenon
  <2> DEFINE x == Rest(st, b)
  <2>4. x \in Seq(Byte) /\ Len(x) = k
    BY <1>0
  <2> HIDE DEF x, v, k, good
  <2>5. Len(v.out) = Len(st.out) + k
    BY ZenonT(30), <2>2, <2>3, <2>4, ConcatFacts DEF x
  <2> QED BY <1>1, <2>3, <2>5 DEF output_len
<1>6. ~good(cap) => output_len(v, d) = l
  <2> SUFFICES ASSUME ~good(cap) PROVE output_len(v, d) = l
    OBVIOUS
  <2>1. v = Refused(st)
    <3>1. k > SatSub(cap, l) <=> ~(k <= SatSub(cap, l))
      <4> HIDE DEF k, l, good
      <4> QED BY <1>1, <1>2
    <3> QED BY <3>1, Zenon DEF LastLiterals, Rest
  <2>2. Refused(st).out = st.out
    BY <1>0, RefusedIs, Zenon
  <2> QED BY <2>1, <2>2, Zenon DEF output_len
<1> HIDE DEF u, v, l, k
<1>8. good(m) => good(cap)
  BY <1>1, <1>2
<1>9. good(cap) /\ l + k <= m => good(m)
  BY <1>1, <1>2
<1>10. good(cap) => l + k <= l \/ l + k <= cap
  BY <1>1, <1>2
<1>11. l <= l
  BY <1>1
<1> HIDE DEF good
<1>12. Matches(u, v, d, m)
  BY <1>3, <1>4, <1>5, <1>8, <1>9, Zenon DEF Matches
<1>13. Stays(v, d, l, cap)
  BY <1>5, <1>6, <1>10, <1>11, Zenon DEF Stays
<1> QED BY <1>12, <1>13, Zenon DEF u, v, l

(* A block, under two ceilings.                                            *)
LEMMA BlockCeiling ==
  ASSUME NEW f, NEW d, NEW b, Args(f, d, b), WellFormedBlock(b), NEW m \in Nat, NEW cap \in Nat,
         m <= cap, NEW st \in States, Fits(st, d)
  PROVE  LET u == decode_block_at(st, f, d, b, m)
             v == decode_block_at(st, f, d, b, cap)
         IN  /\ Matches(u, v, d, m)
             /\ output_len(v, d) <= output_len(st, d) + block_max_of(f)
<1> DEFINE u == decode_block_at(st, f, d, b, m)
           v == decode_block_at(st, f, d, b, cap)
           l == output_len(st, d)
           bm == block_max_of(f)
           A(r) == BlockAccepted(b, bm, st.have_huff, st.have_seq, r)
           k == Len(PlainBytes(b))
<1>1. l \in Nat /\ bm \in Nat /\ b.size \in Nat /\ b.type \in {"raw", "rle", "comp", "reserved"}
  <2>1. b.size \in Nat /\ b.type \in {"raw", "rle", "comp", "reserved"}
    BY DEF Args, Block
  <2> QED BY <2>1, CapIs, Zenon
<1>2. /\ CapOf(st, f, d, m) \in Nat /\ CapOf(st, f, d, cap) \in Nat
      /\ CapOf(st, f, d, m) = Minimum(m, l + bm) /\ CapOf(st, f, d, cap) = Minimum(cap, l + bm)
  BY CapIs
<1>3. /\ CapOf(st, f, d, m) <= CapOf(st, f, d, cap) /\ CapOf(st, f, d, cap) <= l + bm
      /\ l <= l + bm
      /\ \A x \in Nat : x <= m /\ x <= l + bm => x <= CapOf(st, f, d, m)
  <2> HIDE DEF l, bm
  <2> QED BY <1>1, <1>2 DEF Minimum
<1>4. /\ ~A(m - l) => u = Refused(st)
      /\ ~A(cap - l) => v = Refused(st)
  BY Zenon DEF decode_block_at
<1>5. Refused(st).out = st.out /\ ~Refused(st).ok /\ output_len(Refused(st), d) = l
  BY RefusedIs, Zenon DEF output_len
<1>6. CASE b.type # "comp"
  <2>1. A(m - l) => A(cap - l)
    <3> HIDE DEF l, bm
    <3> QED BY <1>1 DEF BlockAccepted
  <2>2. A(cap - l) /\ l + b.size <= m => A(m - l)
    <3> HIDE DEF l, bm
    <3> QED BY <1>1 DEF BlockAccepted
  <2>3. /\ A(m - l) => u = [st EXCEPT !.out = @ \o PlainBytes(b)]
        /\ A(cap - l) => v = [st EXCEPT !.out = @ \o PlainBytes(b)]
    BY <1>6, Zenon DEF decode_block_at
  <2>4. A(cap - l) => output_len(v, d) = l + b.size /\ b.size <= bm
    <3> SUFFICES ASSUME A(cap - l) PROVE output_len(v, d) = l + b.size /\ b.size <= bm
      OBVIOUS
    <3>1. b.type \in {"raw", "rle"} /\ b.size <= bm
      BY <1>1, <1>6 DEF BlockAccepted
    <3>2. b \in Block
      BY DEF Args
    <3> DEFINE x == PlainBytes(b)
    <3>3. x \in Seq(Byte) /\ Len(x) = b.size
      BY <3>1, <3>2, PlainBytesType
    <3> HIDE DEF A
    <3>4. v = [st EXCEPT !.out = @ \o x]
      BY <2>3
    <3>5. st.out \in Seq(Byte) /\ Len(st.out) \in Nat /\ Len(History(d)) \in Nat
      BY StateIs, ArgsAre, Zenon
    <3> HIDE DEF x, v
    <3>6. v.out = st.out \o x
      BY ONLY <3>4, st \in States DEF States
    <3>7. Len(v.out) = Len(st.out) + b.size
      <4>1. Len(st.out \o x) = Len(st.out) + Len(x)
        BY ONLY <3>3, <3>5, ConcatFacts
      <4> QED BY ONLY <3>3, <3>6, <4>1
    <3> QED BY <1>1, <3>1, <3>5, <3>7 DEF output_len
  <2> HIDE DEF A, u, v
  <2>5. u.ok => u = v
    BY <1>4, <1>5, <2>1, <2>3, Zenon
  <2>6. v.ok /\ output_len(v, d) <= m => u = v
    BY <1>4, <1>5, <2>2, <2>3, <2>4, Zenon
  <2>7. output_len(v, d) <= l + bm
    <3>1. CASE A(cap - l)
      <4> HIDE DEF l, bm
      <4> QED BY <1>1, <2>4, <3>1
    <3>2. CASE ~A(cap - l)
      BY <1>3, <1>4, <1>5, <3>2, Zenon
    <3> QED BY <3>1, <3>2
  <2> QED BY <2>5, <2>6, <2>7, Zenon DEF Matches, u, v
<1>7. CASE b.type = "comp"
  <2> DEFINE c == Coded(st, b)
             c1 == CapOf(st, f, d, m)
             c2 == CapOf(st, f, d, cap)
             p == SequenceLoop(c, f, d, b, c1)
             q == SequenceLoop(c, f, d, b, c2)
             n == Len(b.seqs)
  <2>1. A(m - l) <=> A(cap - l)
    <3> HIDE DEF l, bm
    <3> QED BY <1>7 DEF BlockAccepted
  <2>2. A(cap - l) => /\ u = LastLiterals(p[n], d, b, c1)
                      /\ v = LastLiterals(q[n], d, b, c2)
    BY <1>7, <2>1, Zenon DEF decode_block_at, decode_capped, Coded, CapOf
  <2>3. c \in States /\ c.out = st.out
    BY CodedIs, Zenon
  <2>4. Fits(c, d) /\ output_len(c, d) = l
    BY <2>3, Zenon DEF Fits, output_len
  <2> HIDE DEF c, A
  <2>5. Loops(p, c, f, d, b, c1) /\ Loops(q, c, f, d, b, c2)
    <3>1. Loops(p, c, f, d, b, c1)
      BY <1>2, <2>3, <2>4, SequenceLoopIs, Zenon
    <3>2. Loops(q, c, f, d, b, c2)
      BY <1>2, <2>3, <2>4, SequenceLoopIs, Zenon
    <3> QED BY <3>1, <3>2
  <2> HIDE DEF p, q, c1, c2
  <2>6. Matches(p[n], q[n], d, c1) /\ Stays(q[n], d, l, c2)
    <3>1. c1 \in Nat /\ c2 \in Nat /\ c1 <= c2
      BY <1>2, <1>3 DEF c1, c2
    <3> HIDE DEF l
    <3>2. Stays(q[n], d, output_len(c, d), c2) /\ Matches(p[n], q[n], d, c1)
      BY <2>3, <2>4, <2>5, <3>1, LoopCeiling
    <3> QED BY <2>4, <3>2
  <2>7. n \in 0..n
    BY ArgsAre
  <2>8. p[n] \in At(b, d) /\ q[n] \in At(b, d)
    BY <2>5, <2>7, Zenon DEF Loops
  <2>9. /\ c1 \in Nat /\ c2 \in Nat /\ c1 <= c2 /\ c2 <= l + bm
        /\ \A x \in Nat : x <= m /\ x <= l + bm => x <= c1
    BY <1>2, <1>3, Zenon DEF c1, c2
  <2> DEFINE w == LastLiterals(q[n], d, b, c1)
             z == LastLiterals(q[n], d, b, c2)
             y == LastLiterals(p[n], d, b, c1)
  <2>10. Matches(w, z, d, c1) /\ Stays(z, d, output_len(q[n], d), c2)
    BY <2>8, <2>9, LastCeiling
  <2>11. Grows(q[n], z) /\ Grows(p[n], y)
    BY <2>8, <2>9, LastLiteralsIs, Zenon
  <2>12. output_len(q[n], d) <= output_len(z, d) /\ output_len(q[n], d) \in Nat
         /\ output_len(z, d) \in Nat
    <3> HIDE DEF z
    <3>1. q[n] \in States /\ Fits(q[n], d)
      BY <2>8, Zenon DEF At
    <3> QED BY <2>11, <3>1, GrowsLen, Zenon
  <2>13. p[n] = q[n] => y = w
    OBVIOUS
  <2> HIDE DEF w, z, y, n
  <2>14. output_len(q[n], d) <= l + bm /\ output_len(z, d) <= l + bm
    <3> HIDE DEF l, bm
    <3>1. /\ output_len(q[n], d) <= l \/ output_len(q[n], d) <= c2
          /\ output_len(z, d) <= output_len(q[n], d) \/ output_len(z, d) <= c2
      BY <2>6, <2>10, Zenon DEF Stays
    <3> QED BY <1>1, <2>9, <2>12, <3>1
  <2>15. y.ok => y = z
    <3> SUFFICES ASSUME y.ok PROVE y = z
      OBVIOUS
    <3>1. p[n].ok
      BY <2>11, Zenon DEF Grows
    <3> QED BY <2>6, <2>10, <2>13, <3>1, Zenon DEF Matches
  <2>16. z.ok /\ output_len(z, d) <= m => y = z
    <3> SUFFICES ASSUME z.ok, output_len(z, d) <= m PROVE y = z
      OBVIOUS
    <3>1. q[n].ok
      BY <2>11, Zenon DEF Grows
    <3>2. output_len(q[n], d) <= c1 /\ output_len(z, d) <= c1
      <4>1. output_len(q[n], d) <= m
        BY <2>12, LeqOn, Zenon
      <4> QED BY <2>9, <2>12, <2>14, <4>1, Zenon
    <3> QED BY <2>6, <2>10, <2>13, <3>1, <3>2, Zenon DEF Matches
  <2>17. CASE A(cap - l)
    <3>1. u = y /\ v = z
      BY <2>2, <2>17, Zenon DEF y, z
    <3> QED BY <2>14, <2>15, <2>16, <3>1, Zenon DEF Matches
  <2>18. CASE ~A(cap - l)
    <3>1. u = Refused(st) /\ v = Refused(st)
      BY <1>4, <2>1, <2>18, Zenon DEF A
    <3>2. output_len(v, d) <= l + bm
      BY <1>3, <1>5, <3>1, Zenon
    <3> QED BY <3>1, <3>2, Zenon DEF Matches
  <2> QED BY <2>17, <2>18, Zenon
<1> QED BY <1>6, <1>7

(* A round of the block loop, under two ceilings.                          *)
LEMMA NextCeiling ==
  ASSUME NEW f, NEW d, NEW b, Args(f, d, b), WellFormedBlock(b), NEW m \in Nat, NEW cap \in Nat,
         m <= cap, NEW st \in Held(d)
  PROVE  LET u == NextBlock(st, f, d, b, m)
             v == NextBlock(st, f, d, b, cap)
         IN  /\ Matches(u, v, d, m)
             /\ output_len(v, d) <= output_len(st, d) + MaxBlockSize
<1> DEFINE u == NextBlock(st, f, d, b, m)
           v == NextBlock(st, f, d, b, cap)
           x == decode_block_at(st, f, d, b, m)
           y == decode_block_at(st, f, d, b, cap)
<1>1. st \in States /\ Fits(st, d)
  BY Zenon DEF Held
<1>2. output_len(st, d) \in Nat /\ block_max_of(f) \in Nat /\ block_max_of(f) <= MaxBlockSize
  BY <1>1, CapIs, Zenon
<1>3. MaxBlockSize \in Nat
  BY MaxBlockSizeAssumption
<1>4. CASE ~(st.ok /\ ~st.ended)
  <2>1. u = st /\ v = st
    BY <1>4, Zenon DEF NextBlock
  <2>2. output_len(st, d) <= output_len(st, d) + MaxBlockSize
    BY <1>2, <1>3
  <2> QED BY <2>1, <2>2, Zenon DEF Matches
<1>5. CASE st.ok /\ ~st.ended
  <2>1. Matches(x, y, d, m) /\ output_len(y, d) <= output_len(st, d) + block_max_of(f)
    BY <1>1, BlockCeiling
  <2>2. Ends(st, u, f, d, b, m)
    BY <1>5, NextBlockIs
  <2>3. Ends(st, v, f, d, b, cap)
    BY <1>5, NextBlockIs
  <2>4. u.ok = x.ok /\ v.ok = y.ok /\ v.out = y.out
    BY <2>2, <2>3, Zenon DEF Ends
  <2>5. output_len(v, d) = output_len(y, d)
    BY <2>4, Zenon DEF output_len
  <2>6. x = y => u = v
    BY Zenon DEF NextBlock
  <2>7. y \in States /\ Grows(st, y)
    BY <1>1, BlockGrows
  <2> HIDE DEF u, v, x, y
  <2>8. output_len(y, d) \in Nat
    BY <1>1, <2>7, GrowsLen, Zenon
  <2>9. output_len(y, d) <= output_len(st, d) + MaxBlockSize
    BY <1>2, <1>3, <2>1, <2>8
  <2>10. u.ok => u = v
    BY <2>1, <2>4, <2>6, Zenon DEF Matches
  <2>11. v.ok /\ output_len(v, d) <= m => u = v
    BY <2>1, <2>4, <2>5, <2>6, Zenon DEF Matches
  <2> QED BY <2>5, <2>9, <2>10, <2>11, Zenon DEF Matches, u, v
<1> QED BY <1>4, <1>5

(* The output of a state between blocks.                                   *)
LEMMA HeldLen ==
  ASSUME NEW f, NEW d, FrameArgs(f, d), NEW st \in Held(d)
  PROVE  /\ st \in States /\ Fits(st, d) /\ output_len(st, d) \in Nat
         /\ OutputOf(st, d) \in Seq(Byte) /\ Len(OutputOf(st, d)) = output_len(st, d)
<1>1. st \in States /\ Fits(st, d)
  BY Zenon DEF Held
<1>2. st.out \in Seq(Byte) /\ Len(st.out) \in Nat /\ Len(History(d)) \in Nat
  BY <1>1, StateIs, FrameIs, Zenon
<1>3. /\ output_len(st, d) \in Nat
      /\ OutputOf(st, d) \in Seq(Byte) /\ Len(OutputOf(st, d)) = output_len(st, d)
  BY <1>1, <1>2, Slice DEF OutputOf, output_len, Fits
<1> QED BY <1>1, <1>3

(* The blocks of a frame give at most a block each.                        *)
LEMMA RunsBound ==
  ASSUME NEW f, NEW d, FrameArgs(f, d), NEW m \in Nat, NEW s, Runs(s, f, d, m)
  PROVE  \A i \in 0..Len(f.blocks) : output_len(s[i], d) <= i * MaxBlockSize
<1> DEFINE n == Len(f.blocks)
           M == MaxBlockSize
           T == {i \in 0..n : output_len(s[i], d) <= i * M}
<1>1. /\ n \in Nat
      /\ \A i \in 1..n : /\ Args(f, d, f.blocks[i]) /\ WellFormedBlock(f.blocks[i])
                         /\ i \in 0..n /\ i - 1 \in 0..n
  BY FrameIs, Zenon
<1>2. M \in Nat
  BY MaxBlockSizeAssumption
<1>3. 0 \in T
  <2>1. output_len(s[0], d) = 0
    BY NewStateIs, Zenon DEF Runs
  <2>2. 0 \in 0..n /\ 0 <= 0 * M
    BY <1>1, <1>2
  <2> QED BY <2>1, <2>2, Zenon
<1>4. ASSUME NEW i \in 1..n, i - 1 \in T
      PROVE  i \in T
  <2>1. i \in 0..n /\ i - 1 \in 0..n /\ output_len(s[i - 1], d) <= (i - 1) * M
    BY <1>1, <1>4, Zenon
  <2>2. s[i - 1] \in Held(d) /\ s[i] \in Held(d)
    BY <2>1, Zenon DEF Runs
  <2>3. s[i] = NextBlock(s[i - 1], f, d, f.blocks[i], m)
    BY Zenon DEF Runs
  <2>4. output_len(NextBlock(s[i - 1], f, d, f.blocks[i], m), d)
          <= output_len(s[i - 1], d) + MaxBlockSize
    <3>1. m <= m
      OBVIOUS
    <3>2. Args(f, d, f.blocks[i]) /\ WellFormedBlock(f.blocks[i])
      BY <1>1
    <3> QED BY <2>2, <3>1, <3>2, NextCeiling
  <2>5. output_len(s[i - 1], d) \in Nat /\ output_len(s[i], d) \in Nat
    BY <2>2, HeldLen, Zenon
  <2>6. (i - 1) * M + M = i * M /\ (i - 1) * M \in Int /\ i * M \in Int
    <3>1. i \in Int /\ -1 \in Int /\ i + (-1) = i - 1
      BY <1>1
    <3> HIDE DEF M, n
    <3>2. /\ M * (i + (-1)) = M * i + M * (-1) /\ M * i \in Int
      BY <1>2, <3>1, TimesSum
    <3>3. M * (-1) = -M /\ M * i = i * M /\ M * (i - 1) = (i - 1) * M
      BY <1>2, <3>1, Z3
    <3> QED BY <1>2, <3>1, <3>2, <3>3
  <2> DEFINE a == (i - 1) * M
             c == i * M
             g == output_len(s[i - 1], d)
             h == output_len(s[i], d)
  <2>7. a + M = c /\ a \in Int /\ c \in Int /\ g <= a /\ h <= g + M /\ g \in Nat /\ h \in Nat
    BY <2>1, <2>3, <2>4, <2>5, <2>6, Zenon
  <2> HIDE DEF a, c, g, h, M
  <2>8. h <= c
    BY <1>2, <2>7
  <2> QED BY <2>1, <2>8, Zenon DEF h, c
<1>5. 0..n \subseteq T
  <2> HIDE DEF T, n
  <2> QED BY <1>1, <1>3, <1>4, UpTo, Zenon
<1> QED BY <1>5, Zenon

(* The block loop, under two ceilings.                                     *)
LEMMA RunsCeiling ==
  ASSUME NEW f, NEW d, FrameArgs(f, d), NEW m \in Nat, NEW cap \in Nat, m <= cap,
         NEW s, NEW t, Runs(s, f, d, m), Runs(t, f, d, cap)
  PROVE  Matches(s[Len(f.blocks)], t[Len(f.blocks)], d, m)
<1> DEFINE n == Len(f.blocks)
           T == {i \in 0..n : Matches(s[i], t[i], d, m)}
<1>1. /\ n \in Nat
      /\ \A i \in 1..n : /\ Args(f, d, f.blocks[i]) /\ WellFormedBlock(f.blocks[i])
                         /\ i \in 0..n /\ i - 1 \in 0..n
  BY FrameIs, Zenon
<1>2. 0 \in T
  <2>1. s[0] = t[0]
    BY Zenon DEF Runs
  <2>2. 0 \in 0..n
    BY <1>1
  <2> QED BY <2>1, <2>2, Zenon DEF Matches
<1>3. ASSUME NEW i \in 1..n, i - 1 \in T
      PROVE  i \in T
  <2> DEFINE s0 == s[i - 1]
             t0 == t[i - 1]
             b == f.blocks[i]
             w == NextBlock(t0, f, d, b, m)
             z == NextBlock(t0, f, d, b, cap)
  <2>1. /\ i \in 0..n /\ i - 1 \in 0..n /\ Matches(s0, t0, d, m)
        /\ Args(f, d, b) /\ WellFormedBlock(b)
    BY <1>1, <1>3, Zenon
  <2>2. s0 \in Held(d) /\ t0 \in Held(d) /\ t[i] \in Held(d)
    BY <2>1, Zenon DEF Runs
  <2>3. s[i] = NextBlock(s0, f, d, b, m) /\ t[i] = z
    BY Zenon DEF Runs
  <2>4. Matches(w, z, d, m)
    <3> HIDE DEF b, t0
    <3> QED BY <2>1, <2>2, NextCeiling
  <2> HIDE DEF b, s0, t0, w, z
  <2>5. s[i].ok => s0.ok
    <3>1. Later(s0, s[i])
      <4>1. Later(s0, NextBlock(s0, f, d, b, m))
        BY <2>1, <2>2, NextBlockIs
      <4> QED BY <2>3, <4>1, Zenon
    <3> QED BY <3>1, Zenon DEF Later
  <2>6. /\ t[i].ok => t0.ok
        /\ output_len(t0, d) <= output_len(t[i], d)
        /\ output_len(t0, d) \in Nat /\ output_len(t[i], d) \in Nat
    <3>1. Later(t0, t[i])
      <4>1. Later(t0, NextBlock(t0, f, d, b, cap))
        BY <2>1, <2>2, NextBlockIs
      <4> QED BY <2>3, <4>1, Zenon DEF z
    <3>2. t0 \in States /\ Fits(t0, d) /\ t[i] \in States
      BY <2>2, Zenon DEF Held
    <3>3. output_len(t0, d) <= output_len(t[i], d)
      BY <2>1, <3>1, <3>2, OutputBegins, Zenon DEF Later
    <3> QED BY <2>2, <3>1, <3>3, HeldLen, Zenon DEF Later
  <2>7. s0 = t0 => s[i] = w
    BY <2>3 DEF w
  <2>8. s[i].ok => s[i] = t[i]
    BY <2>1, <2>3, <2>4, <2>5, <2>7, Zenon DEF Matches
  <2>9. t[i].ok /\ output_len(t[i], d) <= m => s[i] = t[i]
    <3> SUFFICES ASSUME t[i].ok, output_len(t[i], d) <= m PROVE s[i] = t[i]
      OBVIOUS
    <3>1. output_len(t0, d) <= m
      BY <2>6, LeqOn, Zenon
    <3>2. s0 = t0
      BY <2>1, <2>6, <3>1, Zenon DEF Matches
    <3> QED BY <2>3, <2>4, <2>7, <3>2, Zenon DEF Matches
  <2> QED BY <2>1, <2>8, <2>9, Zenon DEF Matches
<1>4. 0..n \subseteq T
  <2> HIDE DEF T, n
  <2> QED BY <1>1, <1>2, <1>3, UpTo, Zenon
<1>5. n \in 0..n
  BY <1>1
<1> QED BY <1>4, <1>5, Zenon

-----------------------------------------------------------------------------
(* decode_frame, from the blocks decoded without a ceiling.                *)
LEMMA FrameAccepted ==
  ASSUME NEW f, NEW d, FrameArgs(f, d)
  PROVE  LET u == BlockLoop(f, d, Unlimited)[Len(f.blocks)]
             r == decode_frame(f, d, Unlimited)
         IN  /\ r.ok => /\ u.ok /\ u.ended /\ Verified(f, OutputOf(u, d))
                        /\ r.near = u.near
             /\ /\ u.ok /\ u.ended /\ Verified(f, OutputOf(u, d)) /\ DictAccepted(f, d)
                /\ output_len(u, d) <= Unlimited
                => r.ok
<1> DEFINE n == Len(f.blocks)
           t == BlockLoop(f, d, Unlimited)
           u == t[n]
           r == decode_frame(f, d, Unlimited)
           m == IF f.content_size = None THEN Unlimited ELSE f.content_size
           s == BlockLoop(f, d, m)
           c == s[n]
           fits == f.content_size # None => f.content_size <= Unlimited
           good == fits /\ DictAccepted(f, d) /\ c.ok /\ c.ended /\ Verified(f, OutputOf(c, d))
<1>1. Unlimited \in Nat /\ n \in 0..n
  BY UnlimitedAssumption, FrameIs
<1>2. m \in Nat
  BY <1>1 DEF FrameArgs, Frame
<1>3. r.ok = good /\ r.near = c.near
  <2> HIDE DEF m
  <2>1. decode_frame(f, d, Unlimited)
          = [ok |-> good,
             data |-> OutputOf(c, d), near |-> c.near, legal |-> c.legal]
    BY Zenon DEF decode_frame, decode_blocks, m
  <2> HIDE DEF c, good
  <2> QED BY <2>1
<1>4. Runs(t, f, d, Unlimited) /\ Runs(s, f, d, m)
  <2>1. Runs(t, f, d, Unlimited)
    BY <1>1, BlockLoopIs, Zenon
  <2> HIDE DEF m
  <2>2. Runs(s, f, d, m)
    BY <1>2, BlockLoopIs, Zenon
  <2> QED BY <2>1, <2>2
<1>5. u \in Held(d) /\ c \in Held(d)
  <2> HIDE DEF t, s
  <2> QED BY <1>1, <1>4, Zenon DEF Runs
<1>6. fits => Matches(c, u, d, m)
  <2> SUFFICES ASSUME fits PROVE Matches(c, u, d, m)
    OBVIOUS
  <2>1. m <= Unlimited
    BY <1>1
  <2> HIDE DEF m, s, t
  <2> QED BY <1>1, <1>2, <1>4, <2>1, RunsCeiling, Zenon
<1>7. Verified(f, OutputOf(u, d)) /\ output_len(u, d) <= Unlimited => fits /\ output_len(u, d) <= m
  <2> HIDE DEF u
  <2>1. Len(OutputOf(u, d)) = output_len(u, d) /\ output_len(u, d) \in Nat
    BY <1>5, HeldLen, Zenon
  <2> QED BY <1>1, <1>2, <2>1 DEF Verified
<1>8. r.ok => /\ u.ok /\ u.ended /\ Verified(f, OutputOf(u, d)) /\ r.near = u.near
  <2> HIDE DEF u, c, m, fits, r
  <2> QED BY <1>3, <1>6, Zenon DEF Matches
<1>9. /\ u.ok /\ u.ended /\ Verified(f, OutputOf(u, d)) /\ DictAccepted(f, d)
      /\ output_len(u, d) <= Unlimited
      => r.ok
  <2> HIDE DEF u, c, m, fits, r
  <2> QED BY <1>3, <1>6, <1>7, Zenon DEF Matches
<1> QED BY <1>8, <1>9, Zenon

(* What a round that succeeded has put out begins the content; the last    *)
(* one, if it is verified, is the content.                                 *)
LEMMA ContentIs ==
  ASSUME NEW f, NEW d, FrameArgs(f, d), NEW i \in 0..Len(f.blocks)
  PROVE  LET u == BlockLoop(f, d, Unlimited)[i]
         IN  /\ Content(f, d) \in Seq(Byte)
             /\ u.ok /\ ~u.ended => Begins(OutputOf(u, d), Content(f, d))
             /\ u.ended /\ Verified(f, OutputOf(u, d)) => Content(f, d) = OutputOf(u, d)
<1> DEFINE n == Len(f.blocks)
           t == BlockLoop(f, d, Unlimited)
           u == t[i]
           v == t[n]
<1>1. Unlimited \in Nat /\ n \in 0..n /\ n \in i..n
  BY UnlimitedAssumption, FrameIs
<1>2. Runs(t, f, d, Unlimited)
  BY <1>1, BlockLoopIs, Zenon
<1>3. Content(f, d) = IF v.ended /\ Verified(f, OutputOf(v, d)) THEN OutputOf(v, d) ELSE v.data
  BY Zenon DEF Content, decode_blocks
<1> HIDE DEF t
<1>4. Later(u, v)
  BY <1>1, <1>2, BlocksLater, Zenon
<1>5. u \in Held(d) /\ v \in Held(d)
  BY <1>1, <1>2, Zenon DEF Runs
<1> HIDE DEF u, v
<1>6. /\ OutputOf(u, d) \in Seq(Byte) /\ OutputOf(v, d) \in Seq(Byte)
      /\ u.data \in Seq(Byte) /\ v.data \in Seq(Byte)
  BY <1>5, HeldLen, StateIs, Zenon
<1>7. Begins(v.data, OutputOf(v, d)) /\ Begins(u.data, v.data)
      /\ (u.ok /\ ~u.ended => u.data = OutputOf(u, d))
  BY <1>4, <1>5, Zenon DEF Later, Held
<1>8. u.ok /\ ~u.ended => Begins(OutputOf(u, d), Content(f, d))
  <2> SUFFICES ASSUME u.ok, ~u.ended PROVE Begins(OutputOf(u, d), Content(f, d))
    OBVIOUS
  <2>1. Begins(OutputOf(u, d), v.data)
    BY <1>7, Zenon
  <2>2. Begins(OutputOf(u, d), OutputOf(v, d))
    BY <1>6, <1>7, <2>1, BeginsFacts, Zenon
  <2> QED BY <1>3, <2>1, <2>2, Zenon
<1>9. u.ended => v = u
  BY <1>4, Zenon DEF Later
<1>10. Content(f, d) \in Seq(Byte)
  BY <1>3, <1>6, Zenon
<1>11. u.ended /\ Verified(f, OutputOf(u, d)) => Content(f, d) = OutputOf(u, d)
  BY <1>3, <1>9, Zenon
<1> QED BY <1>8, <1>10, <1>11, Zenon DEF u, t

-----------------------------------------------------------------------------
(* The same block, decoded from the sliding buffer.                        *)

(* A match that the buffer o reaches reads the same bytes there as in the  *)
(* whole history h.                                                        *)
LEMMA SuffixBytes ==
  ASSUME NEW h \in Seq(Byte), NEW o \in Seq(Byte), EndOf(h, o, Len(o)),
         NEW lits \in Seq(Byte), NEW lp \in Nat, NEW s \in Sequence, NEW off \in Nat \ {0},
         lp + s.ll <= Len(lits), off <= Len(o) + s.ll
  PROVE  SequenceBytes(o, lits, lp, s, off) = SequenceBytes(h, lits, lp, s, off)
<1> DEFINE run == SubSeq(lits, lp + 1, lp + s.ll)
           O == o \o run
           H == h \o run
<1>0. s.ll \in Nat /\ s.ml \in Nat /\ Len(o) \in Nat /\ Len(h) \in Nat
  BY DEF Sequence
<1>1. run \in Seq(Byte) /\ Len(run) = s.ll
  <2> DEFINE hi == lp + s.ll
  <2>1. hi \in Nat /\ lp <= hi /\ hi <= Len(lits) /\ hi - lp = s.ll
    BY <1>0
  <2> HIDE DEF hi
  <2>2. SubSeq(lits, lp + 1, hi) \in Seq(Byte) /\ Len(SubSeq(lits, lp + 1, hi)) = hi - lp
    BY <2>1, Slice
  <2> QED BY <2>1, <2>2 DEF hi
<1>2. SubSeq(O, Len(o) + 1, Len(O)) = run
  <2> HIDE DEF run
  <2> QED BY <1>1, CutConcat
<1>3. O \in Seq(Byte) /\ H \in Seq(Byte) /\ Len(O) = Len(o) + s.ll /\ Len(H) = Len(h) + s.ll
  <2> HIDE DEF run
  <2>1. O \in Seq(Byte) /\ Len(O) = Len(o) + Len(run)
    BY <1>1, ConcatFacts
  <2>2. H \in Seq(Byte) /\ Len(H) = Len(h) + Len(run)
    BY <1>1, ConcatFacts
  <2> QED BY <1>1, <2>1, <2>2
<1>4. EndOf(H, O, Len(O))
  <2>1. EndOf(h, O, Len(o)) /\ Len(o) <= Len(O)
    <3>1. EndOf(h, O, Len(o))
      <4> HIDE DEF run
      <4> QED BY <1>0, <1>1, EndOfAppended
    <3> QED BY <1>0, <1>3, <3>1
  <2> HIDE DEF O
  <2> QED BY <1>0, <1>2, <1>3, <2>1, EndOfExtended
<1> HIDE DEF run, O, H
<1>5. \A k \in 1..s.ml : O[Len(O) - off + 1 + ((k - 1) % off)]
                            = H[Len(H) - off + 1 + ((k - 1) % off)]
  <2> SUFFICES ASSUME NEW k \in 1..s.ml
               PROVE  O[Len(O) - off + 1 + ((k - 1) % off)] = H[Len(H) - off + 1 + ((k - 1) % off)]
    OBVIOUS
  <2> DEFINE j == (k - 1) % off
  <2>1. j \in 0..(off - 1)
    BY <1>0
  <2> HIDE DEF j
  <2> DEFINE i == Len(O) - off + 1 + j
  <2>3. i \in 1..Len(O) /\ Len(H) - Len(O) + i = Len(H) - off + 1 + j
    <3> DEFINE a == Len(O)
               c == Len(H)
               l == s.ll
               g == Len(o)
    <3>1. a \in Nat /\ c \in Nat /\ l \in Nat /\ g \in Nat /\ a = g + l /\ off <= g + l
      BY <1>0, <1>3
    <3> HIDE DEF a, c, l, g
    <3>2. a - off + 1 + j \in 1..a /\ c - a + (a - off + 1 + j) = c - off + 1 + j
      BY <2>1, <3>1
    <3> QED BY <3>2 DEF a, c
  <2> HIDE DEF i
  <2>4. O[i] = H[Len(H) - Len(O) + i]
    BY <1>4, <2>3, Zenon DEF EndOf
  <2>5. O[i] = H[Len(H) - off + 1 + j]
    BY <2>3, <2>4
  <2> QED BY <2>5 DEF i, j
<1>6. CopyMatch(O, off, s.ml) = CopyMatch(H, off, s.ml)
  BY <1>5, Zenon DEF CopyMatch
<1>7. /\ SequenceBytes(o, lits, lp, s, off) = run \o CopyMatch(O, off, s.ml)
      /\ SequenceBytes(h, lits, lp, s, off) = run \o CopyMatch(H, off, s.ml)
  BY Zenon DEF SequenceBytes, run, O, H
<1> QED BY <1>6, <1>7, Zenon

-----------------------------------------------------------------------------
(* The streaming decoder follows the one-shot decoder run without ceiling. *)
Rounds == BlockLoop(Input, dict, Unlimited)
Prior  == Rounds[pos - 1]
Next1  == decode_block_at(Prior, Input, dict, block, Unlimited)
Inner  == SequenceLoop(Coded(Prior, block), Input, dict, block,
                       CapOf(Prior, Input, dict, Unlimited))

(* The input of the comparison is a frame with its dictionary.             *)
LEMMA InputFacts ==
  ASSUME TypeOK, Inputs
  PROVE  /\ FrameArgs(Input, dict) /\ Input.blocks = frame.blocks
         /\ Input.window = window /\ Input.content_size = frame.content_size
         /\ Input.has_checksum = frame.has_checksum /\ Input.stored = frame.stored
         /\ History(dict) = content /\ block_max_of(Input) = block_max
         /\ Unlimited \in Nat /\ Len(frame.blocks) * MaxBlockSize <= Unlimited
         /\ Runs(Rounds, Input, dict, Unlimited)
         /\ Acceptable => DictAccepted(Input, dict)
<1>1. frame \in Frame /\ frame \in Frames /\ dict \in Dict \cup {None}
  BY DEF TypeOK, Inputs
<1>2. /\ Input \in Frame /\ Input.blocks = frame.blocks
      /\ Input.window = frame.window /\ Input.content_size = frame.content_size
      /\ Input.has_checksum = frame.has_checksum /\ Input.stored = frame.stored
      /\ Input.dictionary_id = IF dict = None THEN 0 ELSE frame.dictionary_id
  <2>1. CASE dict = None
    <3>1. Input = [frame EXCEPT !.dictionary_id = 0]
      BY <2>1 DEF Input
    <3> QED BY <1>1, <2>1, <3>1 DEF Frame
  <2>2. CASE dict # None
    <3>1. Input = frame
      BY <2>2 DEF Input
    <3> QED BY <1>1, <2>2, <3>1
  <2> QED BY <2>1, <2>2
<1>3. \A i \in 1..Len(frame.blocks) : WellFormedBlock(frame.blocks[i])
  BY <1>1, ConstantsAssumption
<1>4. FrameArgs(Input, dict)
  BY <1>1, <1>2, <1>3, Zenon DEF FrameArgs
<1>5. Input.window = window /\ History(dict) = content /\ block_max_of(Input) = block_max
  <2>1. Input.window = window
    BY <1>2, Zenon DEF window
  <2> QED BY <2>1, Zenon DEF History, content, block_max_of, block_max
<1>6. Unlimited \in Nat /\ Len(frame.blocks) * MaxBlockSize <= Unlimited
  BY <1>1, UnlimitedAssumption
<1>7. Runs(Rounds, Input, dict, Unlimited)
  BY <1>4, <1>6, BlockLoopIs, Zenon DEF Rounds
<1>8. Acceptable => DictAccepted(Input, dict)
  BY <1>2 DEF Acceptable, DictAccepted
<1> QED BY <1>2, <1>4, <1>5, <1>6, <1>7, <1>8, Zenon

(* st is what the decoder holds, if o were the output.                     *)
Mirrors(st, o) ==
  /\ st.ok /\ st.out = o /\ st.rep = rep
  /\ st.have_huff = have_huff /\ st.have_seq = have_seq

SimNew ==
  pc = "new" => /\ have_huff = FALSE /\ have_seq = FALSE /\ rep = DefaultRep
                /\ last_done = FALSE /\ ~poisoned
SimBetween ==
  Opened /\ pc \in {"idle", "loop"} /\ ~poisoned =>
    /\ pos - 1 <= Len(frame.blocks) /\ Mirrors(Prior, whole) /\ Prior.ended = last_done
    /\ last_done => Verified(Input, hashed)
SimBlock ==
  pc \in {"seqs", "check"} =>
    /\ Prior.ok /\ ~Prior.ended /\ Prior.out = whole
    /\ Starts(Prior, Input, dict, block, Unlimited)
SimSeqs ==
  pc = "seqs" =>
    block.type = "comp" /\ Mirrors(Inner[nseq], whole \o produced) /\ Inner[nseq].lit_pos = lit_pos
SimCheck == pc = "check" => Mirrors(Next1, whole \o produced)
SimEnd ==
  ret = "eof" => pc \in {"idle", "loop"} /\ ~poisoned /\ last_done /\ read_off = Len(out)

Sim ==
  /\ SimNew /\ SimBetween /\ SimBlock /\ SimSeqs /\ SimCheck /\ SimEnd
  /\ total_out = Len(hashed) /\ (Opened => Acceptable)
  /\ oneshot = OneShot /\ Begins(delivered, oneshot.bytes)

(* The decoder may give up.                                                *)
MayFail == ~oneshot.ok \/ ~oneshot.near

(* Where the one-shot decoder is when the streaming one is between blocks. *)
LEMMA PriorIs ==
  ASSUME TypeOK, Inputs, pos - 1 <= Len(frame.blocks)
  PROVE  /\ pos - 1 \in 0..Len(frame.blocks)
         /\ Prior \in Held(dict) /\ Prior \in States /\ Fits(Prior, dict)
         /\ output_len(Prior, dict) \in Nat /\ output_len(Prior, dict) <= Unlimited
         /\ Prior.out = whole => OutputOf(Prior, dict) = hashed
<1> DEFINE i == pos - 1
           n == Len(frame.blocks)
           f == Input
<1>1. /\ FrameArgs(f, dict) /\ Len(f.blocks) = n /\ Unlimited \in Nat
      /\ n * MaxBlockSize <= Unlimited /\ Runs(Rounds, f, dict, Unlimited)
  BY InputFacts
<1>2. i \in 0..n /\ n \in Nat
  BY StateFacts DEF TypeOK
<1> HIDE DEF i, f
<1>3. Rounds[i] \in Held(dict)
  BY <1>1, <1>2, Zenon DEF Runs
<1>4. Rounds[i] \in States /\ Fits(Rounds[i], dict) /\ output_len(Rounds[i], dict) \in Nat
  BY <1>1, <1>3, HeldLen, Zenon
<1>5. output_len(Rounds[i], dict) <= i * MaxBlockSize
  BY <1>1, <1>2, RunsBound, Zenon
<1>6. i * MaxBlockSize <= n * MaxBlockSize /\ i * MaxBlockSize \in Nat /\ n * MaxBlockSize \in Nat
  <2> DEFINE M == MaxBlockSize
  <2>1. M \in Nat /\ i \in Nat /\ n \in Nat /\ i <= n
    BY <1>2, MaxBlockSizeAssumption
  <2> HIDE DEF M, n
  <2>2. M * i <= M * n /\ M * i \in Nat /\ M * n \in Nat
    BY <2>1, TimesMono
  <2>3. M * i = i * M /\ M * n = n * M
    BY <2>1, Z3
  <2> QED BY <2>2, <2>3 DEF M
<1>7. output_len(Rounds[i], dict) <= Unlimited
  <2> DEFINE a == i * MaxBlockSize
             c == n * MaxBlockSize
             o == output_len(Rounds[i], dict)
  <2>1. /\ a \in Nat /\ c \in Nat /\ o \in Nat /\ Unlimited \in Nat
        /\ o <= a /\ a <= c /\ c <= Unlimited
    BY <1>1, <1>4, <1>5, <1>6, Zenon
  <2> HIDE DEF a, c, o
  <2>2. o <= Unlimited
    BY <2>1
  <2> QED BY <2>2 DEF o
<1>8. Rounds[i].out = whole => OutputOf(Rounds[i], dict) = hashed
  <2> SUFFICES ASSUME Rounds[i].out = whole PROVE OutputOf(Rounds[i], dict) = hashed
    OBVIOUS
  <2>1. content \in Seq(Byte) /\ hashed \in Seq(Byte) /\ History(dict) = content
    BY StateFacts, InputFacts DEF TypeOK
  <2>2. SubSeq(content \o hashed, Len(content) + 1, Len(content \o hashed)) = hashed
    BY ONLY <2>1, CutConcat
  <2> QED BY <2>1, <2>2, Zenon DEF OutputOf, whole
<1> QED BY <1>2, <1>3, <1>4, <1>7, <1>8, Zenon DEF i, Prior

(* The ceiling of a block is the one of the streaming decoder.             *)
LEMMA BlockIs ==
  ASSUME TypeOK, Inputs, pos <= Len(frame.blocks)
  PROVE  /\ pos - 1 <= Len(frame.blocks) /\ pos \in 0..Len(frame.blocks)
         /\ Args(Input, dict, block) /\ WellFormedBlock(block)
         /\ Rounds[pos] = NextBlock(Prior, Input, dict, block, Unlimited)
         /\ Rounds[pos] \in Held(dict)
         /\ CapOf(Prior, Input, dict, Unlimited) = output_len(Prior, dict) + block_max
         /\ CapOf(Prior, Input, dict, Unlimited) \in Nat
         /\ output_len(Prior, dict) + block_max <= Unlimited
<1> DEFINE i == pos - 1
           n == Len(frame.blocks)
           f == Input
<1>1. /\ FrameArgs(f, dict) /\ f.blocks = frame.blocks /\ Unlimited \in Nat
      /\ n * MaxBlockSize <= Unlimited /\ Runs(Rounds, f, dict, Unlimited)
      /\ block_max_of(f) = block_max
  BY InputFacts
<1>2. n \in Nat /\ pos \in 1..n /\ pos \in 0..n /\ i \in 0..n /\ i <= n /\ pos = i + 1
  BY StateFacts DEF TypeOK
<1>3. Args(f, dict, block) /\ WellFormedBlock(block)
  <2>1. Args(f, dict, f.blocks[pos]) /\ WellFormedBlock(f.blocks[pos])
    BY <1>1, <1>2, FrameIs, Zenon
  <2> QED BY <1>1, <2>1, Zenon DEF block
<1>4. Rounds[pos] = NextBlock(Prior, f, dict, block, Unlimited) /\ Rounds[pos] \in Held(dict)
  BY <1>1, <1>2, Zenon DEF Runs, Prior, block
<1>5. Prior \in Held(dict) /\ Prior \in States /\ Fits(Prior, dict)
  BY <1>2, PriorIs, Zenon
<1> HIDE DEF f
<1>6. output_len(Prior, dict) <= i * MaxBlockSize
  <2> HIDE DEF i
  <2>1. output_len(Rounds[i], dict) <= i * MaxBlockSize
    BY <1>1, <1>2, RunsBound, Zenon
  <2> QED BY <2>1, Zenon DEF Prior, i
<1>7. /\ CapOf(Prior, f, dict, Unlimited) = Minimum(Unlimited, output_len(Prior, dict) + block_max)
      /\ CapOf(Prior, f, dict, Unlimited) \in Nat
      /\ output_len(Prior, dict) \in Nat /\ block_max \in Nat /\ block_max <= MaxBlockSize
  <2>1. /\ CapOf(Prior, f, dict, Unlimited)
             = Minimum(Unlimited, output_len(Prior, dict) + block_max_of(f))
        /\ CapOf(Prior, f, dict, Unlimited) \in Nat
        /\ output_len(Prior, dict) \in Nat /\ block_max_of(f) \in Nat
        /\ block_max_of(f) <= MaxBlockSize
    BY <1>1, <1>3, <1>5, CapIs
  <2> QED BY <1>1, <2>1
<1>8. output_len(Prior, dict) + block_max <= Unlimited
  <2> DEFINE M == MaxBlockSize
             o == output_len(Prior, dict)
             bm == block_max
             a == i * M
             c == n * M
  <2>1. M \in Nat /\ i \in Nat /\ n \in Nat /\ pos \in Nat /\ pos <= n /\ pos = i + 1
    BY <1>2, MaxBlockSizeAssumption
  <2>2. c <= Unlimited /\ o <= a /\ o \in Nat /\ bm \in Nat /\ bm <= M /\ Unlimited \in Nat
    BY <1>1, <1>6, <1>7, Zenon
  <2>3. a + M <= c /\ a \in Nat /\ c \in Nat
    <3> HIDE DEF M, i, n
    <3>1. M * pos <= M * n /\ M * n \in Nat /\ M * pos \in Nat
      BY <2>1, TimesMono
    <3>2. M * (i + 1) = M * i + M * 1 /\ M * i \in Int
      BY <2>1, TimesSum
    <3>3. M * i = i * M /\ M * n = n * M /\ M * 1 = M /\ i * M \in Nat
      BY <2>1, Z3
    <3> QED BY <2>1, <3>1, <3>2, <3>3
  <2> HIDE DEF M, o, bm, a, c
  <2>4. o + bm <= Unlimited
    BY <2>1, <2>2, <2>3
  <2> QED BY <2>4 DEF o, bm
<1>9. CapOf(Prior, f, dict, Unlimited) = output_len(Prior, dict) + block_max
  BY <1>1, <1>7, <1>8 DEF Minimum
<1> QED BY <1>2, <1>3, <1>4, <1>7, <1>8, <1>9, Zenon DEF f, i

(* When the decoder may give up.                                           *)
LEMMA FailsIf ==
  ASSUME TypeOK, Inputs, oneshot = OneShot, NEW i \in 0..Len(frame.blocks)
  PROVE  /\ Lost(Rounds[i]) => MayFail
         /\ i = Len(frame.blocks) /\ ~Rounds[i].ended => MayFail
         /\ Rounds[i].ended /\ ~Verified(Input, OutputOf(Rounds[i], dict)) => MayFail
<1> DEFINE f == Input
           n == Len(frame.blocks)
           u == BlockLoop(f, dict, Unlimited)[Len(f.blocks)]
           r == decode_frame(f, dict, Unlimited)
<1>1. /\ FrameArgs(f, dict) /\ Len(f.blocks) = n
      /\ Runs(Rounds, f, dict, Unlimited) /\ Unlimited \in Nat
  BY InputFacts
<1>2. n \in i..n
  BY StateFacts
<1>3. oneshot.ok = r.ok /\ oneshot.near = r.near
  <2>1. oneshot = [ok |-> r.ok, near |-> r.near, legal |-> r.legal, bytes |-> Content(f, dict)]
    BY Zenon DEF OneShot
  <2> HIDE DEF r
  <2> QED BY <2>1
<1>4. r.ok => u.ok /\ u.ended /\ Verified(f, OutputOf(u, dict)) /\ r.near = u.near
  BY <1>1, FrameAccepted
<1>5. u = Rounds[n]
  BY <1>1, Zenon DEF Rounds
<1> HIDE DEF f, r, u
<1>6. Later(Rounds[i], Rounds[n])
  BY <1>1, <1>2, BlocksLater, Zenon
<1>7. Lost(Rounds[i]) => MayFail
  BY <1>3, <1>4, <1>5, <1>6, Zenon DEF Later, Lost, MayFail
<1>8. i = n /\ ~Rounds[i].ended => MayFail
  BY <1>3, <1>4, <1>5, Zenon DEF MayFail
<1>9. Rounds[i].ended /\ ~Verified(f, OutputOf(Rounds[i], dict)) => MayFail
  BY <1>3, <1>4, <1>5, <1>6, Zenon DEF Later, MayFail
<1> QED BY <1>7, <1>8, <1>9, Zenon DEF f

-----------------------------------------------------------------------------
(* Every step of the decoder keeps to it.                                  *)

(* What leaves the position alone leaves the one-shot state alone.         *)
LEMMA SameRounds ==
  ASSUME UNCHANGED input
  PROVE  /\ frame' = frame /\ dict' = dict /\ Input' = Input /\ Rounds' = Rounds
         /\ OneShot' = OneShot /\ Acceptable' = Acceptable /\ content' = content
<1>1. frame' = frame /\ dict' = dict /\ content' = content
  BY SameInput
<1>2. Input' = Input
  BY <1>1 DEF Input
<1>3. Rounds' = Rounds
  BY <1>1, <1>2 DEF Rounds
<1>4. OneShot' = OneShot
  BY <1>1, <1>2 DEF OneShot
<1>5. Acceptable' = Acceptable
  BY <1>1 DEF Acceptable, window
<1> QED BY <1>1, <1>2, <1>3, <1>4, <1>5

(* And so for the state inside a block.                                    *)
LEMMA SameBlock ==
  ASSUME UNCHANGED <<input, pos>>
  PROVE  Prior' = Prior /\ block' = block /\ Inner' = Inner /\ Next1' = Next1
<1>1. pos' = pos /\ frame' = frame /\ dict' = dict /\ Input' = Input /\ Rounds' = Rounds
  BY SameRounds
<1>2. Prior' = Prior /\ block' = block
  BY <1>1 DEF Prior, block
<1> QED BY <1>1, <1>2 DEF Inner, Next1

(* Poisoning keeps Sim when the one-shot decoder loses too.                *)
LEMMA PoisonSim ==
  ASSUME Sim, Opened, Poison, UNCHANGED oneshot, total_out' = Len(hashed')
  PROVE  Sim'
<1>1. /\ poisoned' = TRUE /\ pc' = "idle" /\ ret' = "err" /\ delivered' = delivered
      /\ UNCHANGED input
  BY DEF Poison
<1>2. SimNew' /\ SimBetween' /\ SimBlock' /\ SimSeqs' /\ SimCheck' /\ SimEnd'
  BY <1>1 DEF SimNew, SimBetween, SimBlock, SimSeqs, SimCheck, SimEnd
<1>3. Acceptable
  BY DEF Sim
<1> QED BY <1>1, <1>2, <1>3, SameRounds DEF Sim

(* The start of read keeps Sim.                                            *)
LEMMA ReadSim ==
  ASSUME Sim, NEW n \in BufSizes, Read(n), UNCHANGED oneshot
  PROVE  Sim'
<1>1. /\ pc = "idle" /\ pc' \in {"idle", "loop"} /\ (ret' = ret \/ (poisoned /\ ret' = "err"))
      /\ UNCHANGED <<input, pos, out, tables, rep, read_off, last_done,
                     hashed, total_out, poisoned, delivered>>
  BY DEF Read
<1>2. Opened /\ Acceptable
  BY <1>1 DEF Sim, Opened
<1>3. /\ Prior' = Prior /\ Input' = Input /\ OneShot' = OneShot /\ Acceptable' = Acceptable
      /\ content' = content /\ frame' = frame
  BY <1>1, SameRounds, SameBlock
<1>4. whole' = whole
  BY <1>1, <1>3 DEF whole
<1>5. SimBetween'
  BY <1>1, <1>2, <1>3, <1>4 DEF Sim, SimBetween, Mirrors, tables
<1>6. SimNew' /\ SimBlock' /\ SimSeqs' /\ SimCheck'
  BY <1>1 DEF SimNew, SimBlock, SimSeqs, SimCheck
<1>7. SimEnd'
  BY <1>1 DEF Sim, SimEnd
<1> QED BY <1>1, <1>2, <1>3, <1>5, <1>6, <1>7 DEF Sim

(* with_options establishes Sim.                                           *)
LEMMA WithOptionsSim ==
  ASSUME IInv, Sim, with_options, UNCHANGED oneshot
  PROVE  Sim'
<1>1. /\ pc = "new" /\ (pc' = "rejected" \/ pc' = "idle")
      /\ UNCHANGED <<input, pos, last_done, hashed, total_out, poisoned, delivered, ret>>
      /\ pc' = "idle" => Acceptable /\ out' = content /\ read_off' = Len(content)
      /\ pc' = "idle" => IF dict # None /\ dict.entropy
                         THEN have_huff' = TRUE /\ have_seq' = TRUE /\ rep' = dict.rep
                         ELSE UNCHANGED <<tables, rep>>
  BY DEF with_options
<1>2. /\ Input' = Input /\ OneShot' = OneShot /\ Acceptable' = Acceptable
      /\ content' = content /\ frame' = frame /\ Prior' = Prior
  BY <1>1, SameRounds, SameBlock
<1>3. ret' # "eof"
  BY <1>1 DEF Sim, SimEnd
<1>4. hashed = <<>> /\ pos = 1
  BY <1>1 DEF IInv, Fresh, Opened
<1>5. ASSUME pc' = "idle"
      PROVE  SimBetween'
  <2>1. /\ Rounds[0] = NewState(dict) /\ History(dict) = content /\ content \in Seq(Byte)
        /\ FrameArgs(Input, dict) /\ Len(frame.blocks) \in Nat
    BY InputFacts, StateFacts DEF IInv, Runs
  <2>2. Prior = NewState(dict)
    BY <1>4, <2>1 DEF Prior
  <2>3. whole' = content
    BY <1>1, <1>2, <1>4, <2>1, ConcatEmptySeq DEF whole
  <2>4. NewState(dict).ok /\ ~NewState(dict).ended /\ NewState(dict).out = content
    BY <2>1, NewStateIs, Zenon
  <2>5. /\ NewState(dict).have_huff = Primed(dict) /\ NewState(dict).have_seq = Primed(dict)
        /\ NewState(dict).rep = IF Primed(dict) THEN dict.rep ELSE DefaultRep
        /\ NewState(dict).ended = FALSE
    BY Zenon DEF NewState
  <2>6. /\ have_huff = FALSE /\ have_seq = FALSE /\ rep = DefaultRep /\ last_done = FALSE
        /\ ~poisoned
    BY <1>1 DEF Sim, SimNew
  <2>7. last_done' = FALSE /\ pos' - 1 <= Len(frame'.blocks)
    BY <1>1, <1>2, <1>4, <2>1, <2>6
  <2>8. Primed(dict) \in BOOLEAN /\ (Primed(dict) <=> dict # None /\ dict.entropy)
    BY DEF Primed, IInv, TypeOK, Dict
  <2>9. have_huff' = Primed(dict) /\ have_seq' = Primed(dict)
        /\ rep' = IF Primed(dict) THEN dict.rep ELSE DefaultRep
    <3>1. CASE Primed(dict)
      BY <1>1, <1>5, <2>8, <3>1
    <3>2. CASE ~Primed(dict)
      BY <1>1, <1>5, <2>6, <2>8, <3>2 DEF tables
    <3> QED BY <3>1, <3>2
  <2>10. Mirrors(Prior, whole)'
    BY <1>2, <2>2, <2>3, <2>4, <2>5, <2>9, Zenon DEF Mirrors
  <2> QED BY <1>2, <2>2, <2>5, <2>7, <2>10, Zenon DEF SimBetween
<1>6. SimBetween'
  BY <1>1, <1>5 DEF SimBetween, Opened
<1>7. SimNew' /\ SimBlock' /\ SimSeqs' /\ SimCheck' /\ SimEnd'
  BY <1>1, <1>3 DEF SimNew, SimBlock, SimSeqs, SimCheck, SimEnd
<1>8. Opened' => Acceptable'
  BY <1>1, <1>2 DEF Opened
<1> QED BY <1>1, <1>2, <1>6, <1>7, <1>8 DEF Sim

(* A block that the one-shot decoder refuses, or only decodes with a match *)
(* beyond the window.                                                      *)
LEMMA BlockLost ==
  ASSUME TypeOK, Inputs, oneshot = OneShot, pos <= Len(frame.blocks),
         Prior.ok, ~Prior.ended, Lost(Next1)
  PROVE  MayFail
<1>1. /\ pos \in 0..Len(frame.blocks) /\ Args(Input, dict, block) /\ WellFormedBlock(block)
      /\ Rounds[pos] = NextBlock(Prior, Input, dict, block, Unlimited)
      /\ Prior \in Held(dict) /\ Unlimited \in Nat
  BY BlockIs, PriorIs, InputFacts
<1>2. Ends(Prior, Rounds[pos], Input, dict, block, Unlimited)
  BY <1>1, NextBlockIs
<1>3. Lost(Rounds[pos])
  BY <1>2, Zenon DEF Ends, Lost, Next1
<1> QED BY <1>1, <1>3, FailsIf, Zenon

(* Where the one-shot decoder is inside a block.                           *)
LEMMA InnerIs ==
  ASSUME TypeOK, Inputs, pos <= Len(frame.blocks)
  PROVE  LET cap == CapOf(Prior, Input, dict, Unlimited)
             c == Coded(Prior, block)
         IN  /\ cap \in Nat /\ Args(Input, dict, block)
             /\ c \in States /\ Fits(c, dict) /\ c.out = Prior.out /\ c.rep = Prior.rep
             /\ c.ok = Prior.ok /\ c.have_huff = HuffAfter(block, Prior.have_huff)
             /\ c.have_seq = TablesAfter(block, Prior.have_seq)
             /\ Loops(Inner, c, Input, dict, block, cap)
<1>1. /\ Args(Input, dict, block) /\ CapOf(Prior, Input, dict, Unlimited) \in Nat
      /\ Prior \in States /\ Fits(Prior, dict)
  BY BlockIs, PriorIs
<1> DEFINE c == Coded(Prior, block)
<1>2. /\ c \in States /\ c.out = Prior.out /\ c.rep = Prior.rep /\ c.ok = Prior.ok
      /\ c.have_huff = HuffAfter(block, Prior.have_huff)
      /\ c.have_seq = TablesAfter(block, Prior.have_seq)
  BY <1>1, CodedIs
<1>3. Fits(c, dict)
  BY <1>1, <1>2, Zenon DEF Fits
<1> HIDE DEF c
<1>4. Loops(SequenceLoop(c, Input, dict, block, CapOf(Prior, Input, dict, Unlimited)),
            c, Input, dict, block, CapOf(Prior, Input, dict, Unlimited))
  BY <1>1, <1>2, <1>3, SequenceLoopIs, Zenon
<1> QED BY <1>1, <1>2, <1>3, <1>4, Zenon DEF Inner, c

(* The head of decode_one_block keeps Sim.                                 *)
LEMMA StartBlockSim ==
  ASSUME IInv, Sim, StartBlock, UNCHANGED oneshot
  PROVE  Sim' /\ (poisoned' => MayFail)
<1> DEFINE n == Len(frame.blocks)
<1>0. TypeOK /\ Inputs /\ oneshot = OneShot /\ total_out = Len(hashed)
  BY DEF IInv, Sim
<1>1. pc = "loop" /\ ~poisoned /\ ~last_done /\ Opened /\ last_done = FALSE
  BY <1>0 DEF StartBlock, NeedBlock, IInv, AfterError, TypeOK, Opened
<1>2. /\ pos - 1 <= n /\ Mirrors(Prior, whole) /\ Prior.ended = last_done
  BY <1>1 DEF Sim, SimBetween
<1>3. Prior.ok /\ ~Prior.ended /\ Prior.out = whole /\ Prior.rep = rep
      /\ Prior.have_huff = have_huff /\ Prior.have_seq = have_seq
  BY <1>1, <1>2, Zenon DEF Mirrors
<1>4. pos \in Nat \ {0} /\ n \in Nat /\ whole \in Seq(Byte) /\ out \in Seq(Byte) /\ Len(out) \in Nat
  BY <1>0, StateFacts DEF TypeOK
<1>5. ASSUME pos <= n
      PROVE  Starts(Prior, Input, dict, block, Unlimited)
               <=> BlockAccepted(block, block_max, have_huff, have_seq, block.size)
  <2>1. /\ output_len(Prior, dict) + block_max <= Unlimited
        /\ output_len(Prior, dict) \in Nat /\ Unlimited \in Nat
        /\ block_max_of(Input) = block_max /\ block \in Block /\ block_max \in Nat
    BY <1>0, <1>2, <1>5, BlockIs, PriorIs, InputFacts, StateFacts
  <2>2. block.size \in Nat
    BY <2>1 DEF Block
  <2>3. block.size <= block_max => block.size <= Unlimited - output_len(Prior, dict)
    BY <2>1, <2>2
  <2>4. block.size <= block.size
    BY <2>2
  <2> QED BY <1>3, <2>1, <2>3, <2>4, Zenon DEF Starts, BlockAccepted
<1>6. CASE ~accepted
  <2>1. Poison /\ UNCHANGED <<total_out, hashed>>
    BY <1>6 DEF StartBlock
  <2>2. Sim'
    BY <1>0, <1>1, <2>1, PoisonSim
  <2>3. MayFail
    <3>1. CASE pos <= n
      <4>1. ~Starts(Prior, Input, dict, block, Unlimited)
        BY <1>5, <1>6, <3>1, Zenon DEF accepted
      <4>2. /\ Args(Input, dict, block) /\ WellFormedBlock(block) /\ Unlimited \in Nat
            /\ Prior \in States /\ Fits(Prior, dict)
        BY <1>0, <1>2, <3>1, BlockIs, PriorIs, InputFacts
      <4>3. ~Next1.ok
        BY <4>1, <4>2, BlockGrows, Zenon DEF Next1
      <4> QED BY <1>0, <1>3, <3>1, <4>3, BlockLost, Zenon DEF Lost
    <3>2. CASE ~(pos <= n)
      <4>1. pos - 1 = n /\ n \in 0..n
        BY <1>2, <1>4, <3>2
      <4> QED BY <1>0, <1>3, <4>1, FailsIf, Zenon DEF Prior
    <3> QED BY <3>1, <3>2
  <2> QED BY <2>2, <2>3
<1>7. CASE accepted
  <2>1. /\ pos <= n /\ Starts(Prior, Input, dict, block, Unlimited)
    BY <1>5, <1>7 DEF accepted
  <2>2. /\ before' = Len(out) /\ lit_pos' = 0 /\ nseq' = 0
        /\ UNCHANGED <<input, pos, dict_len, rep, read_off, last_done,
                       hashed, total_out, poisoned, buf_len, delivered, ret>>
    BY <1>7 DEF StartBlock
  <2>3. /\ Prior' = Prior /\ block' = block /\ Inner' = Inner /\ Next1' = Next1
        /\ Input' = Input /\ OneShot' = OneShot /\ Acceptable' = Acceptable /\ dict' = dict
        /\ content' = content /\ whole' = whole
    BY <2>2, SameRounds, SameBlock DEF whole
  <2>4. /\ pc' \in {"seqs", "check"} /\ ret' # "eof"
    BY <1>1, <1>7, <2>2 DEF StartBlock, Sim, SimEnd
  <2>5. SimNew' /\ SimBetween' /\ SimBlock' /\ SimEnd'
    BY <1>3, <2>1, <2>3, <2>4 DEF SimNew, SimBetween, SimBlock, SimEnd
  <2>6. SimSeqs'
    <3> SUFFICES ASSUME pc' = "seqs" PROVE SimSeqs'
      BY DEF SimSeqs
    <3>1. /\ block.type = "comp" /\ have_huff' = HuffAfter(block, have_huff)
          /\ have_seq' = TablesAfter(block, have_seq) /\ out' = out
      BY <1>7 DEF StartBlock
    <3>2. produced' = <<>>
      BY <1>4, <2>2, <3>1 DEF produced
    <3>3. (whole \o produced)' = whole
      BY <1>4, <2>3, <3>2, ConcatEmptySeq
    <3> DEFINE c == Coded(Prior, block)
    <3>4. /\ c \in States /\ Fits(c, dict) /\ c.out = whole /\ c.rep = rep /\ c.ok
          /\ c.have_huff = have_huff' /\ c.have_seq = have_seq'
          /\ Inner[0] = [c EXCEPT !.lit_pos = 0] /\ Args(Input, dict, block)
      BY <1>0, <1>3, <2>1, <3>1, InnerIs, Zenon DEF Loops
    <3> HIDE DEF c
    <3> DEFINE q == Inner[0]
    <3>5. q = [c EXCEPT !.lit_pos = 0]
      BY <3>4
    <3> HIDE DEF q
    <3>6. /\ q.lit_pos = 0 /\ q.out = c.out /\ q.have_huff = c.have_huff
          /\ q.have_seq = c.have_seq /\ q.rep = c.rep /\ q.ok = c.ok
      BY ONLY <3>4, <3>5 DEF States
    <3>7. Mirrors(Inner[nseq], whole \o produced)' /\ (Inner[nseq].lit_pos = lit_pos)'
      BY <2>2, <2>3, <3>3, <3>4, <3>6, Zenon DEF Mirrors, q
    <3> QED BY <2>3, <3>1, <3>7 DEF SimSeqs
  <2>7. SimCheck'
    <3> SUFFICES ASSUME pc' = "check" PROVE SimCheck'
      BY DEF SimCheck
    <3> DEFINE x == PlainBytes(block)
    <3>1. /\ block.type # "comp" /\ out' = out \o x /\ UNCHANGED tables
      BY <1>7 DEF StartBlock
    <3>2. x \in Seq(Byte)
      <4>1. block.type \in {"raw", "rle"} /\ block \in Block /\ WellFormedBlock(block)
        BY <1>0, <2>1, <3>1, BlockIs DEF Args, Block, Starts, BlockAccepted
      <4> QED BY <4>1, PlainBytesType, Zenon
    <3>3. Next1 = [Prior EXCEPT !.out = @ \o x]
      BY <2>1, <3>1, Zenon DEF Next1, Starts, decode_block_at
    <3> HIDE DEF x
    <3>4. produced' = x
      BY <1>4, <2>2, <3>1, <3>2, CutConcat DEF produced
    <3>5. Prior \in States
      BY <1>0, <1>2, PriorIs
    <3>6. /\ Next1.ok = Prior.ok /\ Next1.out = Prior.out \o x /\ Next1.rep = Prior.rep
          /\ Next1.have_huff = Prior.have_huff /\ Next1.have_seq = Prior.have_seq
      BY ONLY <3>2, <3>3, <3>5, AppendIs
    <3>7. have_huff' = have_huff /\ have_seq' = have_seq /\ rep' = rep
      BY <2>2, <3>1 DEF tables
    <3>8. Mirrors(Next1, whole \o produced)'
      BY <1>3, <2>3, <3>4, <3>6, <3>7, Zenon DEF Mirrors
    <3> QED BY <3>8 DEF SimCheck
  <2>8. Sim'
    BY <1>0, <1>1, <2>2, <2>3, <2>5, <2>6, <2>7 DEF Sim
  <2> QED BY <1>1, <2>2, <2>8
<1> QED BY <1>6, <1>7

(* The last bytes of a history, after appending to it.                     *)
LEMMA TailAppended ==
  ASSUME NEW S, NEW o \in Seq(S), NEW x \in Seq(S), NEW n \in Nat, n <= Len(o)
  PROVE  SubSeq(o \o x, n + 1, Len(o \o x)) = SubSeq(o, n + 1, Len(o)) \o x
<1> DEFINE t == o \o x
           a == SubSeq(o, n + 1, Len(o))
           c == SubSeq(t, n + 1, Len(t))
<1>1. /\ t \in Seq(S) /\ Len(t) = Len(o) + Len(x)
      /\ \A i \in 1..Len(o) : t[i] = o[i]
      /\ \A i \in 1..Len(x) : t[Len(o) + i] = x[i]
  BY ConcatAt
<1>2. Len(o) \in Nat /\ Len(x) \in Nat /\ n <= Len(t)
  BY <1>1
<1>3. /\ a \in Seq(S) /\ Len(a) = Len(o) - n /\ \A k \in 1..(Len(o) - n) : a[k] = o[n + k]
  BY <1>2, Slice
<1> HIDE DEF t
<1>4. /\ c \in Seq(S) /\ Len(c) = Len(t) - n /\ \A k \in 1..(Len(t) - n) : c[k] = t[n + k]
  BY <1>1, <1>2, Slice
<1> HIDE DEF a, c
<1>5. Len(c) = Len(a) + Len(x)
  BY <1>1, <1>2, <1>3, <1>4
<1>6. \A i \in 1..Len(a) : c[i] = a[i]
  <2> SUFFICES ASSUME NEW i \in 1..Len(a) PROVE c[i] = a[i]
    OBVIOUS
  <2>1. i \in 1..(Len(o) - n) /\ i \in 1..(Len(t) - n) /\ n + i \in 1..Len(o)
    BY <1>1, <1>2, <1>3
  <2> QED BY <1>1, <1>3, <1>4, <2>1, Zenon
<1>7. \A i \in 1..Len(x) : c[Len(a) + i] = x[i]
  <2> SUFFICES ASSUME NEW i \in 1..Len(x) PROVE c[Len(a) + i] = x[i]
    OBVIOUS
  <2>1. Len(a) + i \in 1..(Len(t) - n) /\ n + (Len(a) + i) = Len(o) + i
    BY <1>1, <1>2, <1>3
  <2>2. c[Len(a) + i] = t[n + (Len(a) + i)]
    BY <1>4, <2>1
  <2> QED BY <1>1, <2>1, <2>2
<1>8. c = a \o x
  BY <1>3, <1>4, <1>5, <1>6, <1>7, ConcatIs
<1> QED BY <1>8 DEF a, c, t

(* A block whose sequences have lost has lost.                             *)
LEMMA InnerLost ==
  ASSUME TypeOK, Inputs, pos <= Len(frame.blocks), block.type = "comp",
         Starts(Prior, Input, dict, block, Unlimited)
  PROVE  /\ \A i \in 0..Len(block.seqs) : Lost(Inner[i]) => Lost(Next1)
         /\ Next1 = LastLiterals(Inner[Len(block.seqs)], dict, block,
                                 CapOf(Prior, Input, dict, Unlimited))
         /\ \A i \in 0..Len(block.seqs) : Inner[i] \in At(block, dict)
         /\ Len(block.seqs) \in Nat
<1> DEFINE n == Len(block.seqs)
           cap == CapOf(Prior, Input, dict, Unlimited)
           c == Coded(Prior, block)
<1>1. cap \in Nat /\ Args(Input, dict, block) /\ Loops(Inner, c, Input, dict, block, cap)
  BY InnerIs, Zenon
<1>2. Next1 = LastLiterals(Inner[n], dict, block, cap)
  BY Zenon DEF Next1, Starts, decode_block_at, decode_capped, Coded, CapOf, Inner
<1> HIDE DEF cap, c
<1>3. n \in Nat /\ n \in 0..n /\ \A i \in 0..n : n \in i..n
  BY <1>1, ArgsAre
<1>4. \A i \in 0..n : Inner[i] \in At(block, dict)
  BY <1>1, Zenon DEF Loops
<1>5. Grows(Inner[n], Next1)
  BY <1>1, <1>2, <1>3, <1>4, LastLiteralsIs, Zenon
<1>6. ASSUME NEW i \in 0..n, Lost(Inner[i])
      PROVE  Lost(Next1)
  <2>1. Grows(Inner[i], Inner[n])
    BY <1>1, <1>3, LoopGrows, Zenon
  <2> QED BY <1>5, <1>6, <2>1, Zenon DEF Grows
<1> QED BY <1>2, <1>3, <1>4, <1>6, Zenon DEF cap

(* The buffer and the history inside a block.                              *)
LEMMA InsideBlock ==
  ASSUME IInv, pc \in {"seqs", "check"}
  PROVE  /\ produced \in Seq(Byte) /\ Len(produced) = Len(out) - before
         /\ whole \o produced \in Seq(Byte)
         /\ Len(whole \o produced) = Len(whole) + (Len(out) - before)
         /\ EndOf(whole \o produced, out, Len(out)) /\ Len(out) <= Len(whole \o produced)
         /\ Len(out) < Len(whole \o produced) => window <= Len(out)
         /\ Len(out) \in Nat /\ before \in Nat /\ before <= Len(out)
         /\ pos <= Len(frame.blocks)
<1>1. /\ before \in Nat /\ out \in Seq(Byte) /\ whole \in Seq(Byte)
      /\ Len(out) \in Nat /\ Len(whole) \in Nat /\ window \in Nat
  BY StateFacts DEF IInv, TypeOK
<1>2. /\ before <= Len(out) /\ EndOf(whole, out, before) /\ before >= Minimum(window, Len(whole))
      /\ pos <= Len(frame.blocks)
  BY DEF IInv, InBlock
<1>3. produced \in Seq(Byte) /\ Len(produced) = Len(out) - before
  BY <1>1, <1>2, Slice DEF produced
<1>4. EndOf(whole \o produced, out, Len(out))
  BY <1>1, <1>2, EndOfExtended DEF produced
<1> DEFINE p == produced
<1> HIDE DEF p
<1>5. whole \o p \in Seq(Byte) /\ Len(whole \o p) = Len(whole) + Len(p)
  BY <1>1, <1>3, ConcatFacts DEF p
<1>6. before <= Len(whole)
  BY <1>2 DEF EndOf
<1>7. Len(out) <= Len(whole \o p) /\ (Len(out) < Len(whole \o p) => window <= Len(out))
  BY <1>1, <1>2, <1>3, <1>5, <1>6 DEF p, Minimum
<1> QED BY <1>1, <1>2, <1>3, <1>4, <1>5, <1>7 DEF p

(* What the ceiling of the block leaves.                                   *)
LEMMA SameHeadroom ==
  ASSUME IInv, Sim, pc \in {"seqs", "check"}, NEW st \in At(block, dict),
         st.out = whole \o produced
  PROVE  SatSub(CapOf(Prior, Input, dict, Unlimited), output_len(st, dict)) = headroom
         /\ headroom \in Nat
<1>1. /\ Len(produced) = Len(out) - before /\ pos <= Len(frame.blocks)
      /\ Len(whole \o produced) = Len(whole) + (Len(out) - before)
      /\ Len(out) \in Nat /\ before \in Nat /\ before <= Len(out)
  BY InsideBlock
<1>2. headroom = before + block_max - Len(out) /\ Len(out) <= before + block_max
  BY HeadroomFacts DEF IInv, InBlock
<1>3. /\ Len(content) \in Nat /\ Len(whole) = Len(content) + Len(hashed) /\ block_max \in Nat
      /\ hashed \in Seq(Byte) /\ Len(hashed) \in Nat
  BY StateFacts DEF IInv, TypeOK
<1>4. Prior.out = whole /\ History(dict) = content
  BY InputFacts DEF IInv, Sim, SimBlock
<1>5. CapOf(Prior, Input, dict, Unlimited) = output_len(Prior, dict) + block_max
  BY <1>1, BlockIs DEF IInv
<1>6. output_len(Prior, dict) = Len(hashed)
  BY <1>3, <1>4 DEF output_len
<1>7. output_len(st, dict) = Len(hashed) + (Len(out) - before)
  BY <1>1, <1>3, <1>4 DEF output_len
<1> QED BY <1>1, <1>2, <1>3, <1>5, <1>6, <1>7 DEF SatSub

(* Bytes appended to the buffer inside a block are the same ones appended  *)
(* to what the block has produced.                                         *)
LEMMA ProducedAppended ==
  ASSUME IInv, pc \in {"seqs", "check"}, NEW x \in Seq(Byte), out' = out \o x, before' = before,
         UNCHANGED <<input, hashed>>
  PROVE  (whole \o produced)' = (whole \o produced) \o x
<1>1. /\ out \in Seq(Byte) /\ before \in Nat /\ before <= Len(out) /\ whole \in Seq(Byte)
      /\ produced \in Seq(Byte)
  BY StateFacts, InsideBlock DEF IInv, TypeOK
<1>2. whole' = whole
  BY SameInput DEF whole
<1>3. SubSeq(out \o x, before + 1, Len(out \o x)) = SubSeq(out, before + 1, Len(out)) \o x
  BY <1>1, TailAppended
<1>4. produced' = produced \o x
  BY <1>3 DEF produced
<1> DEFINE p == produced
<1>5. p \in Seq(Byte)
  BY <1>1
<1> HIDE DEF p
<1>6. (whole \o p) \o x = whole \o (p \o x)
  BY ZenonT(30), <1>1, <1>5, ConcatBytes
<1> QED BY <1>2, <1>4, <1>6 DEF p

(* One sequence keeps Sim.                                                 *)
LEMMA DecodeSequenceSim ==
  ASSUME IInv, Sim, DecodeSequence, UNCHANGED oneshot
  PROVE  Sim' /\ (poisoned' => MayFail)
<1> DEFINE s == block.seqs[nseq + 1]
           r == resolve_offset(rep, s.ov, s.ll = 0)
           left == Len(block.lits) - lit_pos
           v == SequenceVerdict(r.offset, s, headroom, left, Len(out))
           q == Inner[nseq]
           u == Inner[nseq + 1]
           w == whole \o produced
           cap == CapOf(Prior, Input, dict, Unlimited)
<1>0. TypeOK /\ Inputs /\ oneshot = OneShot /\ total_out = Len(hashed)
  BY DEF IInv, Sim
<1>1. pc = "seqs" /\ nseq < Len(block.seqs) /\ ~poisoned /\ Opened
  BY DEF DecodeSequence, IInv, InBlock, Opened
<1>2. /\ Prior.ok /\ ~Prior.ended /\ Prior.out = whole /\ block.type = "comp"
      /\ Starts(Prior, Input, dict, block, Unlimited)
      /\ Mirrors(q, w) /\ q.lit_pos = lit_pos
  BY <1>1, Zenon DEF Sim, SimBlock, SimSeqs
<1>3. /\ q.ok /\ q.out = w /\ q.rep = rep /\ q.have_huff = have_huff /\ q.have_seq = have_seq
  BY <1>2, Zenon DEF Mirrors
<1>4. /\ Len(w) = Len(whole) + (Len(out) - before)
      /\ w \in Seq(Byte) /\ EndOf(w, out, Len(out)) /\ Len(out) <= Len(w)
      /\ Len(out) < Len(w) => window <= Len(out)
      /\ Len(out) \in Nat /\ before \in Nat /\ before <= Len(out) /\ pos <= Len(frame.blocks)
  BY <1>1, InsideBlock
<1>5. Args(Input, dict, block) /\ cap \in Nat
  BY <1>0, <1>4, InnerIs
<1>6. /\ block.lits \in Seq(Byte) /\ block.seqs \in Seq(Sequence) /\ Len(block.lits) \in Nat
      /\ Len(block.seqs) \in Nat /\ nseq \in Nat /\ lit_pos \in Nat /\ lit_pos <= Len(block.lits)
      /\ out \in Seq(Byte) /\ rep \in RepTriple /\ window \in Nat
  <2>1. block.lits \in Seq(Byte) /\ block.seqs \in Seq(Sequence)
    BY <1>5, ArgsAre, Zenon
  <2>2. Len(block.lits) \in Nat /\ Len(block.seqs) \in Nat
    BY <1>5, ArgsAre, Zenon
  <2>3. /\ nseq \in Nat /\ lit_pos \in Nat /\ lit_pos <= Len(block.lits)
        /\ out \in Seq(Byte) /\ rep \in RepTriple
    BY <1>0, <1>1 DEF TypeOK, IInv, InBlock
  <2>4. window \in Nat
    BY <1>0, StateFacts
  <2> QED BY <2>1, <2>2, <2>3, <2>4
<1>7. nseq + 1 \in 1..Len(block.seqs) /\ nseq \in 0..Len(block.seqs)
      /\ nseq + 1 \in 0..Len(block.seqs) /\ (nseq + 1) - 1 = nseq
  BY <1>1, <1>6
<1>8. s \in Sequence /\ s.ll \in Nat /\ s.ml \in Nat /\ s.ov \in Nat \ {0}
  <2>1. s \in Sequence
    BY <1>6, <1>7
  <2> QED BY <2>1 DEF Sequence
<1>9. r.offset \in Nat /\ r.rep \in RepTriple
  <2>1. (s.ll = 0) \in BOOLEAN
    OBVIOUS
  <2> QED BY <1>6, <1>8, <2>1, ResolveOffsetType, Zenon
<1>10. q \in At(block, dict) /\ u \in At(block, dict)
  BY <1>0, <1>2, <1>4, <1>7, InnerLost, Zenon
<1>11. SatSub(cap, output_len(q, dict)) = headroom /\ headroom \in Nat
  BY <1>1, <1>3, <1>10, SameHeadroom
<1>12. u = OneSequence(q, Input, dict, block, cap, s)
  <2>1. Loops(Inner, Coded(Prior, block), Input, dict, block, cap)
    BY <1>0, <1>4, InnerIs
  <2>2. Inner[nseq + 1]
          = OneSequence(Inner[(nseq + 1) - 1], Input, dict, block, cap, block.seqs[nseq + 1])
    BY <1>7, <2>1, Zenon DEF Loops
  <2> QED BY <1>7, <2>2
<1>13. Resolved(q, s) = r
  BY <1>3, Zenon DEF Resolved
<1>14. left \in Int /\ Len(w) \in Nat
  BY <1>4, <1>6
<1>15. v = "ok"
         <=> /\ r.offset # 0 /\ s.ll + s.ml <= headroom
             /\ s.ll <= left /\ r.offset <= Len(out) + s.ll
  <2> HIDE DEF r, s, left
  <2> QED BY SMTT(30), <1>4, <1>8, <1>9, <1>11, <1>14, VerdictOk
<1>16. Verdict(q, dict, block, cap, s) = "ok"
         <=> r.offset # 0 /\ s.ll + s.ml <= headroom /\ s.ll <= left /\ r.offset <= Len(w) + s.ll
  <2>1. Verdict(q, dict, block, cap, s) = SequenceVerdict(r.offset, s, headroom, left, Len(w))
    <3> HIDE DEF r, s
    <3> QED BY <1>2, <1>3, <1>11, <1>13, Zenon DEF Verdict
  <2> HIDE DEF r, s, left, w
  <2> QED BY <1>8, <1>9, <1>11, <1>14, <2>1, VerdictOk
<1>17. /\ q.ok /\ Verdict(q, dict, block, cap, s) = "ok" => Taken(q, u, Input, block, s)
       /\ ~(q.ok /\ Verdict(q, dict, block, cap, s) = "ok") => ~u.ok
  <2> HIDE DEF q, u, s, cap
  <2> QED BY <1>5, <1>8, <1>10, <1>12, OneSequenceIs, Zenon
<1>18. /\ rep' = r.rep /\ UNCHANGED <<pos, tables, last_done, hashed, total_out>>
       /\ v = "ok" => /\ out' = out \o SequenceBytes(out, block.lits, lit_pos, s, r.offset)
                      /\ lit_pos' = lit_pos + s.ll /\ nseq' = nseq + 1
                      /\ UNCHANGED <<input, pc, dict_len, read_off, poisoned,
                                     buf_len, before, delivered, ret>>
       /\ v # "ok" => Poison
  BY DEF DecodeSequence
<1> HIDE DEF v, u, q, cap
<1>19. CASE v # "ok"
  <2>1. Sim'
    BY <1>0, <1>1, <1>18, <1>19, PoisonSim
  <2>2. Lost(u)
    <3>1. CASE Verdict(q, dict, block, cap, s) = "ok"
      <4>1. Taken(q, u, Input, block, s)
        BY <1>3, <1>17, <3>1, Zenon
      <4>2. u.near => r.offset <= window
        <5>1. Input.window = window
          BY <1>0, InputFacts
        <5> QED BY <1>13, <4>1, <5>1, Zenon DEF Taken
      <4> HIDE DEF r, s, left, w
      <4>3. Len(out) + s.ll < r.offset /\ r.offset <= Len(w) + s.ll
        BY <1>4, <1>8, <1>9, <1>14, <1>15, <1>16, <1>19, <3>1
      <4>4. ~(r.offset <= window)
        <5> DEFINE a == Len(out)
                   c == Len(w)
                   l == s.ll
                   o == r.offset
        <5>1. /\ a \in Nat /\ c \in Nat /\ l \in Nat /\ o \in Nat /\ window \in Nat
              /\ a <= c /\ (a < c => window <= a) /\ a + l < o /\ o <= c + l
          BY <1>4, <1>6, <1>8, <1>9, <1>14, <4>3, Zenon
        <5> HIDE DEF a, c, l, o
        <5>2. ~(o <= window)
          BY <5>1
        <5> QED BY <5>2 DEF o
      <4> QED BY <4>2, <4>4, Zenon DEF Lost
    <3>2. CASE ~(Verdict(q, dict, block, cap, s) = "ok")
      BY <1>17, <3>2, Zenon DEF Lost
    <3> QED BY <3>1, <3>2
  <2>3. MayFail
    <3>1. Lost(Next1)
      BY <1>0, <1>2, <1>4, <1>7, <2>2, InnerLost, Zenon DEF u
    <3> QED BY <1>0, <1>2, <1>4, <3>1, BlockLost, Zenon
  <2> QED BY <2>1, <2>3
<1>20. CASE v = "ok"
  <2> DEFINE x == SequenceBytes(out, block.lits, lit_pos, s, r.offset)
  <2>1. /\ r.offset # 0 /\ s.ll <= left /\ r.offset <= Len(out) + s.ll
    BY <1>15, <1>20, Zenon
  <2>2. Verdict(q, dict, block, cap, s) = "ok"
    <3>1. r.offset <= Len(w) + s.ll
      <4> HIDE DEF r, s, w
      <4> QED BY <1>4, <1>8, <1>9, <1>14, <2>1
    <3> QED BY <1>15, <1>16, <1>20, <3>1, Zenon
  <2>3. lit_pos + s.ll <= Len(block.lits) /\ r.offset \in Nat \ {0}
    BY SMTT(30), <1>6, <1>8, <1>9, <2>1
  <2>4. x \in Seq(Byte)
    <3> HIDE DEF s, r
    <3> QED BY <1>6, <1>8, <2>1, <2>3, SequenceBytesType
  <2>5. x = SequenceBytes(w, block.lits, lit_pos, s, r.offset)
    <3> HIDE DEF s, r, w
    <3> QED BY <1>4, <1>6, <1>8, <2>1, <2>3, SuffixBytes
  <2>6. Taken(q, u, Input, block, s)
    BY <1>3, <1>17, <2>2, Zenon
  <2> HIDE DEF x
  <2>7. /\ u.ok /\ u.rep = r.rep /\ u.lit_pos = lit_pos + s.ll /\ u.out = w \o x
        /\ u.have_huff = have_huff /\ u.have_seq = have_seq
    BY <1>2, <1>3, <1>13, <2>5, <2>6, Zenon DEF Taken
  <2>8. /\ out' = out \o x /\ lit_pos' = lit_pos + s.ll /\ nseq' = nseq + 1
        /\ UNCHANGED <<input, pc, dict_len, read_off, poisoned, buf_len, before, delivered, ret>>
    BY <1>18, <1>20 DEF x
  <2>9. /\ Prior' = Prior /\ block' = block /\ Inner' = Inner
        /\ Input' = Input /\ OneShot' = OneShot /\ Acceptable' = Acceptable /\ dict' = dict
        /\ content' = content /\ whole' = whole
    BY <1>18, <2>8, SameRounds, SameBlock DEF whole
  <2>10. (whole \o produced)' = w \o x
    BY <1>1, <1>18, <2>4, <2>8, ProducedAppended
  <2>11. SimNew' /\ SimBetween' /\ SimBlock' /\ SimEnd' /\ SimCheck'
    BY <1>1, <1>2, <2>8, <2>9 DEF Sim, SimNew, SimBetween, SimBlock, SimEnd, SimCheck
  <2>12. SimSeqs'
    <3>2. have_huff' = have_huff /\ have_seq' = have_seq /\ rep' = r.rep /\ nseq' = nseq + 1
      BY <1>18, <2>8 DEF tables
    <3>3. Inner'[nseq'] = u
      BY <2>9, <3>2 DEF u
    <3> HIDE DEF w, r, s
    <3>4. Mirrors(Inner[nseq], whole \o produced)' /\ (Inner[nseq].lit_pos = lit_pos)'
      BY <2>7, <2>8, <2>10, <3>2, <3>3, Zenon DEF Mirrors
    <3> QED BY <1>2, <2>9, <3>4, Zenon DEF SimSeqs
  <2>13. ~poisoned'
    BY <1>1, <2>8
  <2> QED BY <1>0, <1>1, <1>18, <2>8, <2>9, <2>11, <2>12, <2>13 DEF Sim
<1> QED BY <1>19, <1>20

(* The trailing literals keep Sim.                                         *)
LEMMA TrailingLiteralsSim ==
  ASSUME IInv, Sim, TrailingLiterals, UNCHANGED oneshot
  PROVE  Sim' /\ (poisoned' => MayFail)
<1> DEFINE n == Len(block.seqs)
           rest == SubSeq(block.lits, lit_pos + 1, Len(block.lits))
           q == Inner[n]
           w == whole \o produced
           cap == CapOf(Prior, Input, dict, Unlimited)
<1>0. TypeOK /\ Inputs /\ oneshot = OneShot /\ total_out = Len(hashed)
  BY DEF IInv, Sim
<1>1. pc = "seqs" /\ nseq = n /\ ~poisoned /\ Opened
  BY DEF TrailingLiterals, IInv, InBlock, Opened
<1>2. /\ Prior.ok /\ ~Prior.ended /\ Prior.out = whole /\ block.type = "comp"
      /\ Starts(Prior, Input, dict, block, Unlimited)
      /\ Mirrors(q, w) /\ q.lit_pos = lit_pos
  BY <1>1, Zenon DEF Sim, SimBlock, SimSeqs
<1>3. /\ q.ok /\ q.out = w /\ q.rep = rep /\ q.have_huff = have_huff /\ q.have_seq = have_seq
  BY <1>2, Zenon DEF Mirrors
<1>4. w \in Seq(Byte) /\ pos <= Len(frame.blocks)
  BY <1>1, InsideBlock
<1>5. Args(Input, dict, block) /\ cap \in Nat
  BY <1>0, <1>4, InnerIs
<1>6. n \in Nat /\ n \in 0..n
  BY <1>5, ArgsAre
<1>7. q \in At(block, dict) /\ Next1 = LastLiterals(q, dict, block, cap)
  BY <1>0, <1>2, <1>4, <1>6, InnerLost, Zenon
<1>8. rest = Rest(q, block)
  BY <1>2, Zenon DEF Rest
<1>9. rest \in Seq(Byte) /\ Len(rest) \in Nat
  <2>1. Rest(q, block) \in Seq(Byte)
    <3> HIDE DEF q
    <3> QED BY <1>5, <1>7, RestIs, Zenon
  <2> HIDE DEF rest
  <2> QED BY <1>8, <2>1
<1>10. SatSub(cap, output_len(q, dict)) = headroom /\ headroom \in Nat
  <2> HIDE DEF q
  <2> QED BY <1>1, <1>3, <1>7, SameHeadroom
<1>11. /\ UNCHANGED <<pos, tables, rep, last_done, hashed, total_out, locals>>
       /\ Len(rest) > headroom => Poison
       /\ ~(Len(rest) > headroom) =>
            /\ out' = out \o rest /\ pc' = "check"
            /\ UNCHANGED <<input, dict_len, read_off, poisoned, buf_len, delivered, ret>>
  BY DEF TrailingLiterals
<1> HIDE DEF q, cap, rest
<1>12. /\ Len(rest) <= headroom => RestTaken(q, Next1, block)
       /\ ~(Len(rest) <= headroom) => ~Next1.ok
  BY <1>3, <1>5, <1>7, <1>8, <1>10, LastLiteralsIs, Zenon
<1>13. Len(rest) > headroom <=> ~(Len(rest) <= headroom)
  BY <1>9, <1>10
<1>14. CASE Len(rest) > headroom
  <2>1. Sim'
    BY <1>0, <1>1, <1>11, <1>14, PoisonSim
  <2>2. MayFail
    BY <1>0, <1>2, <1>4, <1>12, <1>13, <1>14, BlockLost, Zenon DEF Lost
  <2> QED BY <2>1, <2>2
<1>15. CASE ~(Len(rest) > headroom)
  <2>1. RestTaken(q, Next1, block)
    BY <1>12, <1>13, <1>15
  <2>2. /\ out' = out \o rest /\ pc' = "check"
        /\ UNCHANGED <<input, dict_len, read_off, poisoned, buf_len, delivered, ret>>
    BY <1>11, <1>15
  <2>3. /\ Prior' = Prior /\ block' = block /\ Next1' = Next1
        /\ Input' = Input /\ OneShot' = OneShot /\ Acceptable' = Acceptable /\ dict' = dict
        /\ content' = content /\ whole' = whole
    BY <1>11, <2>2, SameRounds, SameBlock DEF whole
  <2>4. (whole \o produced)' = w \o rest
    BY <1>1, <1>9, <1>11, <2>2, ProducedAppended DEF locals
  <2>5. /\ Next1.ok /\ Next1.out = w \o rest /\ Next1.rep = rep
        /\ Next1.have_huff = have_huff /\ Next1.have_seq = have_seq
    BY <1>3, <1>8, <2>1, Zenon DEF RestTaken
  <2>6. have_huff' = have_huff /\ have_seq' = have_seq /\ rep' = rep
    BY <1>11 DEF tables
  <2> HIDE DEF w
  <2>7. SimCheck'
    BY <2>3, <2>4, <2>5, <2>6, Zenon DEF SimCheck, Mirrors
  <2>8. SimNew' /\ SimBetween' /\ SimBlock' /\ SimEnd' /\ SimSeqs'
    BY <1>1, <1>2, <2>2, <2>3 DEF Sim, SimNew, SimBetween, SimBlock, SimEnd, SimSeqs
  <2>9. ~poisoned'
    BY <1>1, <2>2
  <2> QED BY <1>0, <1>1, <1>11, <2>2, <2>3, <2>7, <2>8, <2>9 DEF Sim
<1> QED BY <1>14, <1>15

(* The checksum, the final checks and compact keep Sim.                    *)
LEMMA FinishBlockSim ==
  ASSUME IInv, Sim, FinishBlock, UNCHANGED oneshot
  PROVE  Sim' /\ (poisoned' => MayFail)
<1> DEFINE u == Rounds[pos]
           w == whole \o produced
<1>0. TypeOK /\ Inputs /\ oneshot = OneShot /\ total_out = Len(hashed)
  BY DEF IInv, Sim
<1>1. pc = "check" /\ ~poisoned /\ Opened /\ pos <= Len(frame.blocks)
  BY DEF FinishBlock, IInv, InBlock, Opened
<1>2. Prior.ok /\ ~Prior.ended /\ Mirrors(Next1, w)
  BY <1>1, Zenon DEF Sim, SimBlock, SimCheck
<1>3. /\ Args(Input, dict, block) /\ WellFormedBlock(block) /\ pos \in 0..Len(frame.blocks)
      /\ u = NextBlock(Prior, Input, dict, block, Unlimited) /\ u \in Held(dict)
      /\ Prior \in Held(dict) /\ Unlimited \in Nat
  BY <1>0, <1>1, BlockIs, PriorIs, InputFacts
<1>4. Ends(Prior, u, Input, dict, block, Unlimited)
  <2>1. Ends(Prior, NextBlock(Prior, Input, dict, block, Unlimited), Input, dict, block, Unlimited)
    BY <1>2, <1>3, NextBlockIs
  <2> QED BY <1>3, <2>1, Zenon
<1>5. /\ u.ok /\ u.out = w /\ u.rep = rep /\ u.have_huff = have_huff /\ u.have_seq = have_seq
      /\ u.ended = (Next1.ok /\ block.last)
  BY <1>2, <1>4, Zenon DEF Ends, Mirrors, Next1
<1>6. u.ended = block.last
  <2>1. block.last \in BOOLEAN /\ Next1.ok
    BY <1>2, <1>3, Zenon DEF Args, Mirrors, Block
  <2>2. u.ended \in BOOLEAN
    BY <1>3, StateIs, Zenon DEF Held
  <2>3. u.ended <=> Next1.ok /\ block.last
    BY <1>5
  <2> QED BY <2>1, <2>2, <2>3
<1>7. /\ pos' = pos + 1 /\ hashed' = hashed \o produced
      /\ total_out' = total_out + Len(produced) /\ last_done' = block.last
      /\ UNCHANGED <<tables, rep, locals>>
      /\ block.last /\ ~FinalOk(hashed', total_out') => Poison
      /\ ~(block.last /\ ~FinalOk(hashed', total_out')) =>
           pc' = "loop" /\ UNCHANGED <<input, poisoned, buf_len, delivered, ret>>
  BY DEF FinishBlock
<1>8. /\ content \in Seq(Byte) /\ hashed \in Seq(Byte) /\ produced \in Seq(Byte) /\ pos \in Nat
      /\ pos \in Nat \ {0}
  BY <1>0, <1>1, StateFacts, InsideBlock DEF TypeOK
<1> DEFINE p == produced
<1>9. p \in Seq(Byte)
  BY <1>8
<1>10. content \o hashed' = w /\ total_out' = Len(hashed')
  <2>0. hashed' = hashed \o p /\ total_out' = Len(hashed) + Len(p)
    BY <1>0, <1>7
  <2> HIDE DEF p
  <2>1. (content \o hashed) \o p = content \o (hashed \o p)
    BY SMTT(30), <1>8, <1>9, ConcatBytes
  <2>2. Len(hashed \o p) = Len(hashed) + Len(p)
    BY <1>8, <1>9, ConcatFacts
  <2> QED BY <2>0, <2>1, <2>2 DEF whole, p
<1>11. OutputOf(u, dict) = hashed'
  <2>1. hashed' \in Seq(Byte) /\ History(dict) = content
    <3> HIDE DEF p
    <3>1. hashed \o p \in Seq(Byte)
      BY <1>8, <1>9, ConcatFacts
    <3> QED BY <1>0, <1>7, <3>1, InputFacts DEF p
  <2> DEFINE h == hashed'
  <2>2. h \in Seq(Byte) /\ w = content \o h
    BY <1>10, <2>1
  <2> HIDE DEF h, w
  <2>3. SubSeq(content \o h, Len(content) + 1, Len(content \o h)) = h
    BY <1>8, <2>2, CutConcat
  <2> QED BY <1>5, <2>1, <2>2, <2>3, Zenon DEF OutputOf, h
<1>12. FinalOk(hashed', total_out') <=> Verified(Input, hashed')
  <2>1. /\ Input.content_size = frame.content_size /\ Input.has_checksum = frame.has_checksum
        /\ Input.stored = frame.stored
    BY <1>0, InputFacts
  <2> QED BY <1>10, <2>1, Zenon DEF FinalOk, Verified
<1> HIDE DEF u, w, p
<1>13. CASE block.last /\ ~FinalOk(hashed', total_out')
  <2>1. Sim'
    BY <1>1, <1>7, <1>10, <1>13, PoisonSim
  <2>2. MayFail
    <3>1. u.ended /\ ~Verified(Input, OutputOf(u, dict))
      BY <1>6, <1>11, <1>12, <1>13
    <3> QED BY <1>0, <1>3, <3>1, FailsIf, Zenon DEF u
  <2> QED BY <2>1, <2>2
<1>14. CASE ~(block.last /\ ~FinalOk(hashed', total_out'))
  <2>1. pc' = "loop" /\ UNCHANGED <<input, poisoned, buf_len, delivered, ret>>
    BY <1>7, <1>14
  <2>2. /\ Rounds' = Rounds /\ Input' = Input /\ OneShot' = OneShot /\ Acceptable' = Acceptable
        /\ content' = content /\ frame' = frame
    BY <2>1, SameRounds
  <2>3. Prior' = u
    <3>1. pos' - 1 = pos
      BY <1>7, <1>8
    <3> QED BY <2>2, <3>1 DEF Prior, u
  <2>4. whole' = w
    BY <1>10, <2>2 DEF whole
  <2>5. have_huff' = have_huff /\ have_seq' = have_seq /\ rep' = rep
    BY <1>7 DEF tables
  <2>6. Mirrors(Prior, whole)' /\ (Prior.ended = last_done)'
    BY <1>5, <1>6, <1>7, <2>3, <2>4, <2>5, Zenon DEF Mirrors
  <2>7. last_done' => Verified(Input', hashed')
    BY <1>7, <1>12, <1>14, <2>2
  <2>8. pos' - 1 <= Len(frame'.blocks)
    BY <1>1, <1>7, <1>8, <2>2
  <2>9. SimBetween'
    BY <2>6, <2>7, <2>8, Zenon DEF SimBetween
  <2>10. SimNew' /\ SimBlock' /\ SimSeqs' /\ SimCheck' /\ SimEnd'
    BY <1>1, <2>1 DEF Sim, SimNew, SimBlock, SimSeqs, SimCheck, SimEnd
  <2> QED BY <1>0, <1>1, <1>10, <2>1, <2>2, <2>9, <2>10 DEF Sim
<1> QED BY <1>13, <1>14

(* Between blocks the checksummed bytes begin the content, and are all of  *)
(* an acceptable frame after the last block.                               *)
LEMMA HashedIs ==
  ASSUME IInv, Sim, Opened, pc \in {"idle", "loop"}, ~poisoned
  PROVE  /\ oneshot.bytes \in Seq(Byte) /\ Begins(hashed, oneshot.bytes)
         /\ last_done => hashed = oneshot.bytes /\ oneshot.ok
<1> DEFINE n == Len(frame.blocks)
           f == Input
           r == decode_frame(f, dict, Unlimited)
           e == BlockLoop(f, dict, Unlimited)[Len(f.blocks)]
<1>0. TypeOK /\ Inputs /\ oneshot = OneShot /\ Acceptable
  BY DEF IInv, Sim
<1>1. /\ pos - 1 <= n /\ Mirrors(Prior, whole) /\ Prior.ended = last_done
      /\ last_done => Verified(f, hashed)
  BY DEF Sim, SimBetween
<1>2. /\ pos - 1 \in 0..n /\ Prior \in Held(dict) /\ OutputOf(Prior, dict) = hashed /\ Prior.ok
      /\ output_len(Prior, dict) <= Unlimited
  BY <1>0, <1>1, PriorIs DEF Mirrors
<1>3. /\ FrameArgs(f, dict) /\ Len(f.blocks) = n /\ Unlimited \in Nat /\ DictAccepted(f, dict)
      /\ Runs(Rounds, f, dict, Unlimited)
  BY <1>0, InputFacts
<1>4. Prior = BlockLoop(f, dict, Unlimited)[pos - 1]
  BY Zenon DEF Prior, Rounds
<1>5. oneshot.ok = r.ok /\ oneshot.bytes = Content(f, dict)
  <2>1. oneshot = [ok |-> r.ok, near |-> r.near, legal |-> r.legal, bytes |-> Content(f, dict)]
    BY <1>0, Zenon DEF OneShot
  <2> HIDE DEF r
  <2> QED BY <2>1
<1>6. /\ Content(f, dict) \in Seq(Byte)
      /\ Prior.ok /\ ~Prior.ended => Begins(OutputOf(Prior, dict), Content(f, dict))
      /\ Prior.ended /\ Verified(f, OutputOf(Prior, dict))
           => Content(f, dict) = OutputOf(Prior, dict)
  <2> DEFINE i == pos - 1
  <2>1. i \in 0..Len(f.blocks)
    BY <1>2, <1>3
  <2> HIDE DEF i, f
  <2>2. LET u == BlockLoop(f, dict, Unlimited)[i]
        IN  /\ Content(f, dict) \in Seq(Byte)
            /\ u.ok /\ ~u.ended => Begins(OutputOf(u, dict), Content(f, dict))
            /\ u.ended /\ Verified(f, OutputOf(u, dict)) => Content(f, dict) = OutputOf(u, dict)
    BY <1>3, <2>1, ContentIs
  <2> QED BY <1>4, <2>2, Zenon DEF i
<1>7. CASE ~last_done
  BY <1>1, <1>2, <1>5, <1>6, <1>7, Zenon
<1>8. CASE last_done
  <2>1. Prior.ended /\ Verified(f, OutputOf(Prior, dict))
    BY <1>1, <1>2, <1>8
  <2>2. hashed = oneshot.bytes
    BY <1>2, <1>5, <1>6, <2>1, Zenon
  <2>3. Begins(hashed, oneshot.bytes)
    BY <1>5, <1>6, <2>2, BeginsFacts, Zenon
  <2>4. n \in (pos - 1)..n
    BY <1>0, <1>2, StateFacts
  <2>5. e = Prior
    <3>1. Later(Rounds[pos - 1], Rounds[n])
      <4> DEFINE i == pos - 1
      <4>1. i \in 0..Len(f.blocks) /\ n \in i..Len(f.blocks)
        BY <1>2, <1>3, <2>4
      <4> HIDE DEF i
      <4>2. Later(Rounds[i], Rounds[n])
        BY <1>3, <4>1, BlocksLater, Zenon
      <4> QED BY <4>2 DEF i
    <3>2. Rounds[n] = Rounds[pos - 1]
      BY <2>1, <3>1, Zenon DEF Later, Prior
    <3> QED BY <1>3, <3>2, Zenon DEF Rounds, Prior
  <2>6. r.ok
    <3> HIDE DEF f
    <3>1. /\ e.ok /\ e.ended /\ Verified(f, OutputOf(e, dict)) /\ DictAccepted(f, dict)
          /\ output_len(e, dict) <= Unlimited
          => r.ok
      BY <1>3, FrameAccepted
    <3> QED BY <1>2, <1>3, <2>1, <2>5, <3>1, Zenon
  <2> QED BY <1>5, <1>6, <2>2, <2>3, <2>6
<1> QED BY <1>7, <1>8

(* The end of read keeps Sim.                                              *)
LEMMA DeliverSim ==
  ASSUME IInv, IInv', Sim, Deliver, UNCHANGED oneshot
  PROVE  Sim'
<1>0. TypeOK /\ Inputs /\ oneshot = OneShot /\ total_out = Len(hashed)
  BY DEF IInv, Sim
<1>1. /\ pc = "loop" /\ pc' = "idle" /\ ~poisoned /\ Opened
      /\ read_off < Len(out) \/ last_done
      /\ UNCHANGED <<input, pos, tables, rep, last_done, hashed, total_out, poisoned>>
  <2>1. /\ LoopExit /\ pc' = "idle"
        /\ UNCHANGED <<input, pos, tables, rep, last_done, hashed, total_out, poisoned>>
    BY DEF Deliver
  <2>2. pc = "loop" /\ (read_off < Len(out) \/ last_done)
    <3>1. read_off \in Nat /\ Len(out) \in Nat
      BY <1>0 DEF TypeOK
    <3> QED BY <2>1, <3>1 DEF LoopExit, NeedBlock
  <2> QED BY <2>1, <2>2 DEF IInv, AfterError, Opened
<1>2. /\ Prior' = Prior /\ Input' = Input /\ OneShot' = OneShot /\ Acceptable' = Acceptable
      /\ content' = content /\ frame' = frame /\ whole' = whole
  BY <1>1, SameRounds, SameBlock DEF whole
<1>3. /\ pos - 1 <= Len(frame.blocks) /\ Mirrors(Prior, whole) /\ Prior.ended = last_done
      /\ last_done => Verified(Input, hashed)
  BY <1>1 DEF Sim, SimBetween
<1>4. Mirrors(Prior, whole)'
  BY <1>1, <1>2, <1>3 DEF Mirrors, tables
<1>5. SimBetween'
  BY <1>1, <1>2, <1>3, <1>4 DEF SimBetween
<1>6. SimNew' /\ SimBlock' /\ SimSeqs' /\ SimCheck'
  BY <1>1 DEF SimNew, SimBlock, SimSeqs, SimCheck
<1>7. SimEnd'
  <2>1. read_off \in Nat /\ Len(out) \in Nat /\ read_off <= Len(out)
    BY <1>0 DEF TypeOK, IInv, NoUnderflow
  <2>2. CASE Len(out) - read_off = 0
    <3>1. UNCHANGED <<out, read_off>>
      BY <2>2 DEF Deliver
    <3>2. last_done /\ read_off = Len(out)
      BY <1>1, <2>1, <2>2
    <3> QED BY <1>1, <3>1, <3>2 DEF SimEnd
  <2>3. CASE Len(out) - read_off # 0
    <3>1. ret' = "data"
      BY <2>3 DEF Deliver
    <3> QED BY <3>1 DEF SimEnd
  <2> QED BY <2>2, <2>3
<1>8. Begins(delivered', oneshot.bytes)
  <2>1. oneshot.bytes \in Seq(Byte) /\ Begins(hashed, oneshot.bytes)
    BY <1>1, HashedIs
  <2>2. hashed' = delivered' \o SubSeq(out', read_off' + 1, Len(out'))
    BY <1>1 DEF IInv, Between
  <2> DEFINE t == SubSeq(out', read_off' + 1, Len(out'))
             e == delivered'
             h == hashed
  <2>3. t \in Seq(Byte) /\ e \in Seq(Byte) /\ h \in Seq(Byte)
    <3>1. out' \in Seq(Byte) /\ read_off' \in Nat /\ read_off' <= Len(out') /\ Len(out') \in Nat
      BY DEF IInv, TypeOK, NoUnderflow
    <3>2. t \in Seq(Byte)
      <4> DEFINE o == out'
                 k == read_off'
                 m == Len(o)
      <4>1. o \in Seq(Byte) /\ k \in Nat /\ k <= m /\ m \in Nat /\ m <= Len(o)
        BY <3>1
      <4> HIDE DEF o, k, m
      <4>2. SubSeq(o, k + 1, m) \in Seq(Byte)
        BY <4>1, Slice
      <4> QED BY <4>2 DEF o, k, m
    <3> QED BY <1>0, <3>2 DEF IInv, TypeOK
  <2>4. h = e \o t
    BY <1>1, <2>2
  <2> HIDE DEF t, e, h
  <2>5. Begins(e, h)
    BY <2>3, <2>4, BeginsLonger, Zenon
  <2>6. Begins(e, oneshot.bytes)
    BY <2>1, <2>3, <2>5, BeginsFacts, Zenon DEF h
  <2> QED BY <2>6 DEF e
<1> QED BY <1>0, <1>1, <1>2, <1>5, <1>6, <1>7, <1>8 DEF Sim

(* The initial states satisfy Sim.                                         *)
LEMMA InitSim == Init /\ oneshot = OneShot => Sim
<1> SUFFICES ASSUME Init, oneshot = OneShot PROVE Sim
  OBVIOUS
<1>1. IInv
  BY InitIInv
<1>2. pc = "new" /\ ret = "none" /\ hashed = <<>> /\ total_out = 0 /\ delivered = <<>>
      /\ have_huff = FALSE /\ have_seq = FALSE /\ rep = DefaultRep /\ last_done = FALSE /\ ~poisoned
  BY DEF Init
<1>3. SimNew /\ SimBetween /\ SimBlock /\ SimSeqs /\ SimCheck /\ SimEnd
  BY <1>2 DEF SimNew, SimBetween, SimBlock, SimSeqs, SimCheck, SimEnd, Opened
<1>4. Begins(delivered, oneshot.bytes)
  <2>1. Content(Input, dict) \in Seq(Byte)
    <3>1. FrameArgs(Input, dict) /\ Len(Input.blocks) \in Nat
      BY <1>1, InputFacts, FrameIs DEF IInv
    <3> DEFINE i == 0
    <3>2. i \in 0..Len(Input.blocks)
      BY <3>1
    <3> HIDE DEF i
    <3> QED BY <3>1, <3>2, ContentIs
  <2> DEFINE c == Content(Input, dict)
  <2>2. oneshot.bytes = c
    BY Zenon DEF OneShot
  <2> HIDE DEF c
  <2>3. c \in Seq(Byte)
    BY <2>1 DEF c
  <2>4. Begins(<<>>, c)
    BY <2>3 DEF Begins
  <2> QED BY <1>2, <2>2, <2>4
<1>5. total_out = Len(hashed) /\ (Opened => Acceptable)
  BY <1>2 DEF Opened
<1> QED BY <1>3, <1>4, <1>5 DEF Sim

(* The whole step.                                                         *)
LEMMA StepSim ==
  ASSUME IInv, IInv', Sim, [ContractNext]_<<vars, oneshot>>
  PROVE  Sim' /\ (poisoned' /\ ~poisoned => MayFail)
<1>1. CASE UNCHANGED <<vars, oneshot>>
  <2>1. UNCHANGED <<input, pos, pc, out, tables, rep, read_off, last_done, hashed, total_out,
                    poisoned, before, lit_pos, nseq, delivered, ret, oneshot>>
    BY <1>1 DEF vars, input, tables
  <2>2. /\ Prior' = Prior /\ block' = block /\ Inner' = Inner /\ Next1' = Next1
        /\ Input' = Input /\ OneShot' = OneShot /\ Acceptable' = Acceptable /\ dict' = dict
        /\ content' = content /\ frame' = frame /\ whole' = whole /\ produced' = produced
    BY <2>1, SameRounds, SameBlock DEF whole, produced
  <2>3. SimNew' /\ SimBetween' /\ SimBlock' /\ SimEnd'
    BY <2>1, <2>2 DEF Sim, SimNew, SimBetween, SimBlock, SimEnd, Mirrors, tables, Opened
  <2>4. SimSeqs' /\ SimCheck'
    BY <2>1, <2>2 DEF Sim, SimSeqs, SimCheck, Mirrors, tables
  <2> QED BY <2>1, <2>2, <2>3, <2>4 DEF Sim, Opened
<1>2. CASE ContractNext
  <2>1. Next /\ UNCHANGED oneshot
    BY <1>2 DEF ContractNext
  <2>2. CASE with_options
    BY <2>1, <2>2, WithOptionsSim DEF with_options
  <2>3. CASE \E n \in BufSizes : Read(n)
    BY <2>1, <2>3, ReadSim DEF Read
  <2>4. CASE StartBlock
    BY <2>1, <2>4, StartBlockSim
  <2>5. CASE DecodeSequence
    BY <2>1, <2>5, DecodeSequenceSim
  <2>6. CASE TrailingLiterals
    BY <2>1, <2>6, TrailingLiteralsSim
  <2>7. CASE FinishBlock
    BY <2>1, <2>7, FinishBlockSim
  <2>8. CASE Deliver
    BY <2>1, <2>8, DeliverSim DEF Deliver
  <2> QED BY <2>1, <2>2, <2>3, <2>4, <2>5, <2>6, <2>7, <2>8 DEF Next
<1> QED BY <1>1, <1>2

(* The whole behaviour: the invariant the refinement rests on.             *)
THEOREM FollowsOneShot == ContractSpec => [](IInv /\ Sim)
<1>1. ContractInit => IInv /\ Sim
  BY InitIInv, InitSim DEF ContractInit
<1>2. IInv /\ Sim /\ [ContractNext]_<<vars, oneshot>> => (IInv /\ Sim)'
  <2> SUFFICES ASSUME IInv, Sim, [ContractNext]_<<vars, oneshot>> PROVE (IInv /\ Sim)'
    OBVIOUS
  <2>1. [Next]_vars
    BY DEF ContractNext
  <2>2. IInv'
    BY <2>1, StepIInv
  <2>3. Sim'
    BY <2>2, StepSim
  <2> QED BY <2>2, <2>3
<1> QED BY <1>1, <1>2, PTL DEF ContractSpec

-----------------------------------------------------------------------------
(* The refinement.                                                         *)

ContractVars == <<Contract!input, delivered, Status>>

(* A decoder that gives up faces an input that may fail.                   *)
LEMMA PoisonFails ==
  ASSUME Poison, ~poisoned, ret # "eof", MayFail, UNCHANGED oneshot
  PROVE  Contract!Fail
<1>1. poisoned' = TRUE /\ ret' = "err" /\ delivered' = delivered
  BY DEF Poison
<1>2. Status = "open" /\ Status' = "failed"
  BY <1>1 DEF Status
<1> QED BY <1>1, <1>2 DEF Contract!Fail, Contract!input, MayFail

(* What the caller cannot see.                                             *)
LEMMA SameStatus ==
  ASSUME UNCHANGED <<delivered, ret, poisoned, oneshot>>
  PROVE  UNCHANGED ContractVars
  BY DEF ContractVars, Status, Contract!input

(* Begins, as a subsequence.                                               *)
LEMMA BeginsCut ==
  ASSUME NEW S, NEW s \in Seq(S), NEW t \in Seq(S), Begins(s, t)
  PROVE  s = SubSeq(t, 1, Len(s)) /\ Len(s) \in 0..Len(t)
<1> DEFINE n == Len(s)
           c == SubSeq(t, 1, n)
<1>1. n \in Nat /\ Len(t) \in Nat /\ n <= Len(t)
  BY DEF Begins
<1>2. n \in 0..Len(t)
  BY <1>1
<1>3. c \in Seq(S) /\ Len(c) = n
  <2> HIDE DEF n
  <2> QED BY <1>2, CutSeq
<1>4. \A i \in 1..n : c[i] = t[i]
  <2>1. \A i \in 1..Len(t) : t[i] \in S
    OBVIOUS
  <2>2. \A i \in 1..n : t[i] \in S
    BY <1>1, <2>1
  <2> HIDE DEF n
  <2> QED BY <1>1, <2>2, SubSeqProperties
<1>5. \A i \in 1..n : s[i] = c[i]
  BY <1>4, Zenon DEF Begins
<1> HIDE DEF c
<1>6. s = c
  BY <1>3, <1>5, SeqEqual
<1> QED BY <1>2, <1>6 DEF c

(* The end of read is a step of ByteStream.                                *)
LEMMA DeliverRefines ==
  ASSUME IInv, IInv', Sim, Sim', Deliver, UNCHANGED oneshot
  PROVE  [Contract!Next]_ContractVars
<1>1. pc = "loop" /\ ~poisoned /\ Opened /\ poisoned' = poisoned
  BY DEF Deliver, LoopExit, IInv, AfterError, Opened
<1>2. /\ read_off \in Nat /\ Len(out) \in Nat /\ read_off <= Len(out) /\ out \in Seq(Byte)
      /\ delivered \in Seq(Byte) /\ delivered' \in Seq(Byte)
      /\ buf_len \in Nat /\ hashed \in Seq(Byte)
  BY DEF IInv, TypeOK, NoUnderflow
<1>3. oneshot.bytes \in Seq(Byte) /\ (last_done => hashed = oneshot.bytes /\ oneshot.ok)
  BY <1>1, HashedIs
<1>4. CASE Len(out) - read_off = 0
  <2>1. ret' = "eof" /\ delivered' = delivered /\ last_done
    BY <1>2, <1>4 DEF Deliver, LoopExit, NeedBlock
  <2>2. Status' = "eof" /\ (Status = "open" \/ Status = "eof")
    BY <1>1, <2>1 DEF Status
  <2>3. delivered = oneshot.bytes
    <3>1. hashed = delivered \o SubSeq(out, read_off + 1, Len(out))
      BY <1>1 DEF IInv, Between
    <3>2. SubSeq(out, read_off + 1, Len(out)) = <<>>
      BY <1>2, <1>4
    <3>3. delivered \o <<>> = delivered
      BY <1>2, ConcatEmptySeq
    <3> QED BY <1>3, <2>1, <3>1, <3>2, <3>3
  <2>4. CASE Status = "open"
    <3>1. Contract!EndOfStream
      BY <1>3, <2>1, <2>2, <2>3, <2>4 DEF Contract!EndOfStream, Contract!input
    <3> QED BY <3>1 DEF Contract!Next
  <2>5. CASE Status = "eof"
    <3>1. UNCHANGED ContractVars
      BY <2>1, <2>2, <2>5 DEF ContractVars, Contract!input
    <3> QED BY <3>1
  <2> QED BY <2>2, <2>4, <2>5
<1>5. CASE Len(out) - read_off # 0
  <2> DEFINE n == Minimum(Len(out) - read_off, buf_len)
             x == SubSeq(out, read_off + 1, read_off + n)
  <2>1. ret' = "data" /\ delivered' = delivered \o x
    BY <1>5 DEF Deliver
  <2>2. ret # "eof"
    BY <1>2, <1>5 DEF Sim, SimEnd
  <2>3. Status = "open" /\ Status' = "open"
    BY <1>1, <2>1, <2>2 DEF Status
  <2>4. x \in Seq(Byte)
    <3> DEFINE hi == read_off + n
    <3>1. hi \in Nat /\ read_off <= hi /\ hi <= Len(out)
      BY <1>2 DEF Minimum
    <3> HIDE DEF hi
    <3>2. SubSeq(out, read_off + 1, hi) \in Seq(Byte)
      BY <1>2, <3>1, Slice
    <3> QED BY <3>2 DEF hi
  <2>5. Len(delivered) <= Len(delivered') /\ Len(delivered) \in Nat /\ Len(delivered') \in Nat
    <3> HIDE DEF x
    <3>1. Len(delivered \o x) = Len(delivered) + Len(x)
      BY <1>2, <2>4, ConcatFacts
    <3> QED BY <1>2, <2>1, <2>4, <3>1
  <2>6. Begins(delivered', oneshot.bytes)
    BY DEF Sim
  <2> DEFINE e == delivered'
  <2>7. e = SubSeq(oneshot.bytes, 1, Len(e)) /\ Len(e) \in 0..Len(oneshot.bytes)
    <3>1. e \in Seq(Byte) /\ Begins(e, oneshot.bytes)
      BY <1>2, <2>6
    <3> HIDE DEF e
    <3> QED BY <1>3, <3>1, BeginsCut, Zenon
  <2>8. Len(e) >= Len(delivered)
    BY <2>5
  <2>9. Contract!Piece
    BY <2>3, <2>7, <2>8 DEF Contract!Piece, Contract!input
  <2> QED BY <2>9 DEF Contract!Next
<1> QED BY <1>4, <1>5

(* Every step of the decoder is a step of ByteStream, or stutters.         *)
LEMMA StepRefines ==
  ASSUME IInv, IInv', Sim, Sim', (poisoned' /\ ~poisoned => MayFail),
         [ContractNext]_<<vars, oneshot>>
  PROVE  [Contract!Next]_ContractVars
<1>1. CASE UNCHANGED <<vars, oneshot>>
  <2>1. UNCHANGED <<delivered, ret, poisoned, oneshot>>
    BY <1>1 DEF vars
  <2> QED BY <2>1, SameStatus
<1>2. CASE ContractNext
  <2>0. Next /\ UNCHANGED oneshot
    BY <1>2 DEF ContractNext
  <2>1. pc \in {"idle", "loop"} /\ ~last_done => ret # "eof"
    BY DEF Sim, SimEnd
  <2>2. pc \in {"seqs", "check"} => ret # "eof" /\ ~poisoned
    BY DEF Sim, SimEnd, IInv, InBlock
  <2>3. CASE with_options
    <3>1. UNCHANGED <<delivered, ret, poisoned, oneshot>>
      BY <2>0, <2>3 DEF with_options
    <3> QED BY <3>1, SameStatus
  <2>4. CASE \E n \in BufSizes : Read(n)
    <3>1. UNCHANGED <<delivered, poisoned, oneshot>> /\ (ret' = ret \/ (poisoned /\ ret' = "err"))
      BY <2>0, <2>4 DEF Read
    <3>2. Status' = Status
      BY <3>1 DEF Status, Sim, SimEnd
    <3> QED BY <3>1, <3>2 DEF ContractVars, Contract!input
  <2>5. CASE StartBlock
    <3>1. pc = "loop" /\ ~last_done /\ ~poisoned
      BY <2>5 DEF StartBlock, NeedBlock, IInv, AfterError
    <3>2. Poison \/ UNCHANGED <<delivered, ret, poisoned>>
      BY <2>5 DEF StartBlock
    <3>3. CASE Poison
      <4>1. Contract!Fail
        BY <2>0, <2>1, <3>1, <3>3, PoisonFails DEF Poison
      <4> QED BY <4>1 DEF Contract!Next
    <3> QED BY <2>0, <3>2, <3>3, SameStatus
  <2>6. CASE DecodeSequence
    <3>1. pc = "seqs"
      BY <2>6 DEF DecodeSequence
    <3>2. Poison \/ UNCHANGED <<delivered, ret, poisoned>>
      BY <2>6 DEF DecodeSequence
    <3>3. CASE Poison
      <4>1. Contract!Fail
        BY <2>0, <2>2, <3>1, <3>3, PoisonFails DEF Poison
      <4> QED BY <4>1 DEF Contract!Next
    <3> QED BY <2>0, <3>2, <3>3, SameStatus
  <2>7. CASE TrailingLiterals
    <3>1. pc = "seqs"
      BY <2>7 DEF TrailingLiterals
    <3>2. Poison \/ UNCHANGED <<delivered, ret, poisoned>>
      BY <2>7 DEF TrailingLiterals
    <3>3. CASE Poison
      <4>1. Contract!Fail
        BY <2>0, <2>2, <3>1, <3>3, PoisonFails DEF Poison
      <4> QED BY <4>1 DEF Contract!Next
    <3> QED BY <2>0, <3>2, <3>3, SameStatus
  <2>8. CASE FinishBlock
    <3>1. pc = "check"
      BY <2>8 DEF FinishBlock
    <3>2. Poison \/ UNCHANGED <<delivered, ret, poisoned>>
      BY <2>8 DEF FinishBlock
    <3>3. CASE Poison
      <4>1. Contract!Fail
        BY <2>0, <2>2, <3>1, <3>3, PoisonFails DEF Poison
      <4> QED BY <4>1 DEF Contract!Next
    <3> QED BY <2>0, <3>2, <3>3, SameStatus
  <2>9. CASE Deliver
    BY <2>0, <2>9, DeliverRefines
  <2> QED BY <2>0, <2>3, <2>4, <2>5, <2>6, <2>7, <2>8, <2>9 DEF Next
<1> QED BY <1>1, <1>2

(* The initial states are initial states of ByteStream.                    *)
LEMMA InitRefines == ContractInit => Contract!Init
<1> SUFFICES ASSUME ContractInit PROVE Contract!Init
  OBVIOUS
<1>1. IInv /\ Sim /\ Init /\ oneshot = OneShot
  BY InitIInv, InitSim DEF ContractInit
<1>2. delivered = <<>> /\ Status = "open"
  BY <1>1 DEF Init, Status
<1> DEFINE r == decode_frame(Input, dict, Unlimited)
<1>3. oneshot.ok = r.ok /\ oneshot.bytes = Content(Input, dict)
  <2>1. oneshot = [ok |-> r.ok, near |-> r.near, legal |-> r.legal, bytes |-> Content(Input, dict)]
    BY <1>1, Zenon DEF OneShot
  <2> HIDE DEF r
  <2> QED BY <2>1
<1>4. r.ok \in BOOLEAN
  BY DEF decode_frame
<1>5. Content(Input, dict) \in Seq(Byte)
  <2>1. FrameArgs(Input, dict) /\ Len(Input.blocks) \in Nat
    BY <1>1, InputFacts, FrameIs DEF IInv
  <2> DEFINE i == 0
  <2>2. i \in 0..Len(Input.blocks)
    BY <2>1
  <2> HIDE DEF i
  <2> QED BY <2>1, <2>2, ContentIs
<1>6. (~oneshot.ok \/ ~oneshot.near) \in BOOLEAN
  OBVIOUS
<1> HIDE DEF r
<1> QED BY <1>2, <1>3, <1>4, <1>5, <1>6 DEF Contract!Init

(* For every set of frames and dictionaries, every window limit and every  *)
(* sequence of buffer sizes, StreamingDecoder is a ByteStream over what    *)
(* the one-shot decoder makes of the same frame.                           *)
THEOREM RefinesOneShot == ContractSpec => ReadContract
<1>1. ContractInit => Contract!Init
  BY InitRefines
<1>2. /\ IInv /\ Sim /\ IInv' /\ Sim' /\ [ContractNext]_<<vars, oneshot>>
      => [Contract!Next]_<<Contract!input, delivered, Status>>
  <2> SUFFICES ASSUME IInv, Sim, IInv', Sim', [ContractNext]_<<vars, oneshot>>
               PROVE  [Contract!Next]_<<Contract!input, delivered, Status>>
    OBVIOUS
  <2>1. poisoned' /\ ~poisoned => MayFail
    BY StepSim
  <2>2. [Contract!Next]_ContractVars
    BY <2>1, StepRefines
  <2> QED BY <2>2 DEF ContractVars
<1> QED BY <1>1, <1>2, FollowsOneShot, PTL DEF ContractSpec, ReadContract, Contract!Spec
=============================================================================

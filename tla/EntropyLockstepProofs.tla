----------------------- MODULE EntropyLockstepProofs -----------------------
(***************************************************************************)
(* Encoder and decoder stay in lockstep, for every set of offsets, tables, *)
(* channels and starting states and for any number of chunks, blocks and   *)
(* sequences.                                                              *)
(*                                                                         *)
(* After a seam the encoder's repeat offsets are only partly known, so the *)
(* two triples are not equal; the invariant is that they Agree: entry k is *)
(* equal, or the encoder's is 0 (which no repeat code of a real match can  *)
(* name) and fewer than k offsets were coded in full since the seam.       *)
(*                                                                         *)
(* The last part is about the tables that the two sides hold in lockstep   *)
(* (CodingTables): that a decoder's and an encoder's table of the same     *)
(* description undo each other, for every description.                     *)
(***************************************************************************)
EXTENDS EntropyLockstep, DataLemmas, FiniteSetTheorems, TLAPS

INSTANCE CodingTables

Agree(e, d, n) == \A k \in 1..3 : e[k] = d[k] \/ (e[k] = 0 /\ n < k)

(* What the encoder's parse knew before sequence i (after the last one for *)
(* i = Len(seqs) + 1), and the tables its emission held before block i.    *)
RepAt(i)  == IF i <= Len(seqs) THEN seqs[i].rep ELSE rep
RealAt(i) == IF i <= Len(seqs) THEN seqs[i].real ELSE real
PreAt(i)  == IF i <= Len(blocks) THEN blocks[i].pre ELSE cur

(* Control: what is empty when, and no block reaches past the parse.       *)
Shape ==
  /\ pc = "parse" => blocks = <<>>
  /\ pc # "decode" => decoded = <<>> /\ nblock = 0
  /\ \A i \in 1..Len(blocks) : blocks[i].upto <= Len(seqs)
  /\ Len(decoded) <= Len(seqs)

(* Each sequence was coded against the triple the one before it left.      *)
SeqChain ==
  \A i \in 1..Len(seqs) :
    LET s == seqs[i]
    IN  /\ s.ov = encode_offset(s.rep, s.offset, s.ll0)
        /\ RepAt(i + 1) = resolve_offset(s.rep, s.ov, s.ll0).rep
        /\ RealAt(i + 1) = IF s.ov > 3 THEN s.real + 1 ELSE s.real

RepInv ==
  /\ SeqChain
  /\ IF pc = "decode" THEN enc.rep = rep /\ kept = real
                      ELSE enc.rep = RepAt(1) /\ kept = RealAt(1)
  /\ Agree(RepAt(Len(decoded) + 1), dec.rep, RealAt(Len(decoded) + 1))

(* Each block was coded with the tables the one before it left.            *)
After(b) == [seq |-> IF b.empty THEN b.pre.seq ELSE [c \in Channels |-> b.plan[c].table],
             lit |-> b.lit.table]
BlockChain ==
  \A i \in 1..Len(blocks) :
    LET b == blocks[i]
    IN  /\ b.lit.mode # "huff" => b.lit.table = b.pre.lit
        /\ \A c \in Channels :
             b.plan[c].mode = "repeat" => b.plan[c].table = b.pre.seq[c]
        /\ PreAt(i + 1) = After(b)

TabInv ==
  /\ BlockChain
  /\ [seq |-> enc.seq, lit |-> enc.lit] = IF pc = "decode" THEN cur ELSE PreAt(1)
  /\ TableCompat(PreAt(nblock + 1), dec)

IInv == TypeOK /\ Shape /\ RepInv /\ TabInv /\ Faithful /\ SameTables

-----------------------------------------------------------------------------
(* resolve_offset of a repeat code, with the four codes spelled out.       *)
LEMMA ResolveRepeat ==
  ASSUME NEW r \in Triple, NEW ov \in 1..3, NEW ll0 \in BOOLEAN
  PROVE  LET q == resolve_offset(r, ov, ll0)
             code == ov - 1 + (IF ll0 THEN 1 ELSE 0)
         IN  /\ code = 0 => q = [offset |-> r[1], rep |-> r]
             /\ code = 1 => q = [offset |-> r[2], rep |-> <<r[2], r[1], r[3]>>]
             /\ code = 2 => q = [offset |-> r[3], rep |-> <<r[3], r[1], r[2]>>]
             /\ code = 3 => q = [offset |-> SatSub(r[1], 1),
                                 rep |-> <<SatSub(r[1], 1), r[1], r[2]>>]
             /\ code \in 0..3
  BY DEF resolve_offset

(* resolve_offset of an offset coded in full.                              *)
LEMMA ResolveFull ==
  ASSUME NEW r \in Triple, NEW ov \in Nat, ov > 3, NEW ll0 \in BOOLEAN
  PROVE  resolve_offset(r, ov, ll0) =
           [offset |-> ov - 3, rep |-> <<ov - 3, r[1], r[2]>>]
  BY DEF resolve_offset

(* It keeps the type.                                                      *)
LEMMA ResolveType ==
  ASSUME NEW r \in Triple, NEW ov \in Nat \ {0}, NEW ll0 \in BOOLEAN
  PROVE  /\ resolve_offset(r, ov, ll0).offset \in Nat
         /\ resolve_offset(r, ov, ll0).rep \in Triple
<1>1. CASE ov > 3
  BY <1>1, ResolveFull DEF Triple
<1>2. CASE ov \in 1..3
  <2> DEFINE code == ov - 1 + (IF ll0 THEN 1 ELSE 0)
  <2>1. SatSub(r[1], 1) \in Nat
    BY DEF SatSub, Triple
  <2>2. code \in 0..3
    BY <1>2
  <2>3. CASE code = 0
    BY <1>2, <2>3, ResolveRepeat DEF Triple
  <2>4. CASE code = 1
    BY <1>2, <2>4, ResolveRepeat DEF Triple
  <2>5. CASE code = 2
    BY <1>2, <2>5, ResolveRepeat DEF Triple
  <2>6. CASE code = 3
    BY <1>2, <2>1, <2>6, ResolveRepeat DEF Triple
  <2>7. QED
    BY <2>2, <2>3, <2>4, <2>5, <2>6
<1>3. QED
  BY <1>1, <1>2

(* encode_offset: a repeat code only if it resolves to the offset.         *)
LEMMA EncodeFacts ==
  ASSUME NEW r \in Triple, NEW offset \in Nat \ {0}, NEW ll0 \in BOOLEAN
  PROVE  LET ov == encode_offset(r, offset, ll0)
         IN  /\ ov \in Nat \ {0}
             /\ ov \in 1..3 => resolve_offset(r, ov, ll0).offset = offset
             /\ ov > 3 => ov = offset + 3
  BY DEF encode_offset

(* One sequence: the decoder resolves what the encoder meant, whatever it  *)
(* holds in the entries the encoder does not know, and the triples agree   *)
(* afterwards.                                                             *)
LEMMA StepAgree ==
  ASSUME NEW e \in Triple, NEW d \in Triple, NEW n \in Nat,
         NEW offset \in Nat \ {0}, NEW ll0 \in BOOLEAN, Agree(e, d, n)
  PROVE  LET ov == encode_offset(e, offset, ll0)
             x  == resolve_offset(e, ov, ll0)
             y  == resolve_offset(d, ov, ll0)
         IN  /\ y.offset = offset
             /\ Agree(x.rep, y.rep, IF ov > 3 THEN n + 1 ELSE n)
<1> DEFINE ov == encode_offset(e, offset, ll0)
<1>1. /\ ov \in Nat \ {0}
      /\ ov \in 1..3 => resolve_offset(e, ov, ll0).offset = offset
      /\ ov > 3 => ov = offset + 3
  BY EncodeFacts
<1>2. /\ e[1] \in Nat /\ e[2] \in Nat /\ e[3] \in Nat
      /\ d[1] \in Nat /\ d[2] \in Nat /\ d[3] \in Nat
  BY DEF Triple
<1>3. /\ e[1] = d[1] \/ (e[1] = 0 /\ n < 1)
      /\ e[2] = d[2] \/ (e[2] = 0 /\ n < 2)
      /\ e[3] = d[3] \/ (e[3] = 0 /\ n < 3)
  BY DEF Agree
<1> HIDE DEF ov
<1>4. CASE ov > 3
  <2>1. /\ resolve_offset(e, ov, ll0).rep = <<offset, e[1], e[2]>>
        /\ resolve_offset(d, ov, ll0) = [offset |-> offset, rep |-> <<offset, d[1], d[2]>>]
    BY <1>1, <1>4, ResolveFull
  <2>2. Agree(<<offset, e[1], e[2]>>, <<offset, d[1], d[2]>>, n + 1)
    BY <1>2, <1>3 DEF Agree
  <2>3. QED
    BY <1>4, <2>1, <2>2 DEF ov
<1>5. CASE ov \in 1..3
  <2> DEFINE code == ov - 1 + (IF ll0 THEN 1 ELSE 0)
  <2>1. code \in 0..3 /\ ~(ov > 3)
    BY <1>5
  <2>2. CASE code = 0
    <3>1. /\ resolve_offset(e, ov, ll0) = [offset |-> e[1], rep |-> e]
          /\ resolve_offset(d, ov, ll0) = [offset |-> d[1], rep |-> d]
      BY <1>5, <2>2, ResolveRepeat
    <3>2. e[1] = offset
      BY <1>1, <1>5, <3>1
    <3>3. QED
      BY <1>3, <2>1, <3>1, <3>2 DEF ov
  <2>3. CASE code = 1
    <3>1. /\ resolve_offset(e, ov, ll0) = [offset |-> e[2], rep |-> <<e[2], e[1], e[3]>>]
          /\ resolve_offset(d, ov, ll0) = [offset |-> d[2], rep |-> <<d[2], d[1], d[3]>>]
      BY <1>5, <2>3, ResolveRepeat
    <3>2. e[2] = offset /\ d[2] = offset
      BY <1>1, <1>3, <1>5, <3>1
    <3>3. Agree(<<e[2], e[1], e[3]>>, <<d[2], d[1], d[3]>>, n)
      BY <1>2, <1>3, <3>2 DEF Agree
    <3>4. QED
      BY <2>1, <3>1, <3>2, <3>3 DEF ov
  <2>4. CASE code = 2
    <3>1. /\ resolve_offset(e, ov, ll0) = [offset |-> e[3], rep |-> <<e[3], e[1], e[2]>>]
          /\ resolve_offset(d, ov, ll0) = [offset |-> d[3], rep |-> <<d[3], d[1], d[2]>>]
      BY <1>5, <2>4, ResolveRepeat
    <3>2. e[3] = offset /\ d[3] = offset
      BY <1>1, <1>3, <1>5, <3>1
    <3>3. Agree(<<e[3], e[1], e[2]>>, <<d[3], d[1], d[2]>>, n)
      BY <1>2, <1>3, <3>2 DEF Agree
    <3>4. QED
      BY <2>1, <3>1, <3>2, <3>3 DEF ov
  <2>5. CASE code = 3
    <3>1. /\ resolve_offset(e, ov, ll0) =
               [offset |-> SatSub(e[1], 1), rep |-> <<SatSub(e[1], 1), e[1], e[2]>>]
          /\ resolve_offset(d, ov, ll0) =
               [offset |-> SatSub(d[1], 1), rep |-> <<SatSub(d[1], 1), d[1], d[2]>>]
      BY <1>5, <2>5, ResolveRepeat
    <3>2. SatSub(e[1], 1) = offset
      BY <1>1, <1>5, <3>1
    <3>3. e[1] = d[1] /\ SatSub(d[1], 1) = offset
      BY <1>2, <1>3, <3>2 DEF SatSub
    <3>4. Agree(<<offset, e[1], e[2]>>, <<offset, d[1], d[2]>>, n)
      BY <1>2, <1>3, <3>3 DEF Agree
    <3>5. QED
      BY <2>1, <3>1, <3>2, <3>3, <3>4 DEF ov
  <2>6. QED
    BY <2>1, <2>2, <2>3, <2>4, <2>5
<1>6. QED
  BY <1>1, <1>4, <1>5 DEF ov

(* Three agreeing entries with nothing unknown make equal triples.         *)
LEMMA AgreeEqual ==
  ASSUME NEW e \in Triple, NEW d \in Triple, NEW n \in Nat, n >= 3, Agree(e, d, n)
  PROVE  e = d
<1>1. e[1] = d[1] /\ e[2] = d[2] /\ e[3] = d[3]
  BY DEF Agree
<1>2. QED
  BY <1>1 DEF Triple

-----------------------------------------------------------------------------
(* Len and the entries of an appended sequence, for the four kinds of      *)
(* sequence of the model.                                                  *)
LEMMA AppendSeqs ==
  ASSUME NEW s \in Seq(SeqRecord), NEW x \in SeqRecord
  PROVE  /\ Append(s, x) \in Seq(SeqRecord) /\ Len(s) \in Nat
         /\ Len(Append(s, x)) = Len(s) + 1
         /\ \A i \in 1..Len(s) : Append(s, x)[i] = s[i]
         /\ Append(s, x)[Len(s) + 1] = x
  OBVIOUS

LEMMA AppendBlocks ==
  ASSUME NEW s \in Seq(BlockRecord), NEW x \in BlockRecord
  PROVE  /\ Append(s, x) \in Seq(BlockRecord) /\ Len(s) \in Nat
         /\ Len(Append(s, x)) = Len(s) + 1
         /\ \A i \in 1..Len(s) : Append(s, x)[i] = s[i]
         /\ Append(s, x)[Len(s) + 1] = x
  OBVIOUS

LEMMA AppendDecoded ==
  ASSUME NEW s \in Seq(Nat), NEW x \in Nat
  PROVE  /\ Append(s, x) \in Seq(Nat) /\ Len(s) \in Nat
         /\ Len(Append(s, x)) = Len(s) + 1
         /\ \A i \in 1..Len(s) : Append(s, x)[i] = s[i]
         /\ Append(s, x)[Len(s) + 1] = x
  OBVIOUS

(* The choices of a block have their types and respect what was there      *)
(* before: only a fresh table differs from the one held.                   *)
LEMMA ChoiceFacts ==
  ASSUME TypeOK, NEW lit \in write_literals_auto, NEW plan \in write_sequences
  PROVE  /\ lit \in [mode : {"raw"}, table : Table]
                    \cup [mode : {"huff", "treeless"}, table : Tables]
         /\ lit.table \in Table
         /\ lit.mode # "huff" => lit.table = cur.lit
         /\ plan \in [Channels -> [mode : {"described", "repeat"}, table : Tables]]
         /\ \A c \in Channels : plan[c].mode = "repeat" => plan[c].table = cur.seq[c]
<1>1. cur.lit \in Table /\ \A c \in Channels : cur.seq[c] \in Table
  BY DEF TypeOK, Tabs
<1>2. /\ lit \in [mode : {"raw"}, table : Table]
                  \cup [mode : {"huff", "treeless"}, table : Tables]
      /\ lit.table \in Table
      /\ lit.mode # "huff" => lit.table = cur.lit
  BY <1>1 DEF write_literals_auto, Table
<1>3. ASSUME NEW c \in Channels
      PROVE  /\ plan[c] \in [mode : {"described", "repeat"}, table : Tables]
             /\ plan[c].mode = "repeat" => plan[c].table = cur.seq[c]
  <2>1. plan[c] \in plan_channel(c)
    BY DEF write_sequences
  <2>2. QED
    BY <1>1, <2>1 DEF plan_channel, Table
<1>4. plan \in [Channels -> [mode : {"described", "repeat"}, table : Tables]]
  BY <1>3 DEF write_sequences
<1>5. QED
  BY <1>2, <1>3, <1>4

(* A new chunk is well typed.                                              *)
LEMMA NewChunkType ==
  ASSUME NEW e \in EntropyState, NEW n \in Nat, NewChunk(e, n)
  PROVE  /\ rep' \in Triple /\ real' \in Nat /\ seqs' \in Seq(SeqRecord)
         /\ cur' \in Tabs /\ blocks' \in Seq(BlockRecord) /\ decoded' \in Seq(Nat)
         /\ nblock' = 0 /\ Len(blocks') = 0 /\ pc' = "parse"
         /\ blocks' = <<>> /\ decoded' = <<>> /\ Len(decoded') = 0 /\ Len(seqs') = 0
  BY DEF NewChunk, EntropyState, Tabs

-----------------------------------------------------------------------------
(* Every start is well typed and in lockstep.                              *)
LEMMA InitHolds == Init => IInv
<1> SUFFICES ASSUME Init PROVE IInv
  OBVIOUS
<1> PICK s \in InitStates : enc = s.enc /\ dec = s.dec
  BY DEF Init
<1>1. /\ enc \in EntropyState /\ dec \in EntropyState
      /\ enc.rep = dec.rep /\ TableCompat(enc, dec)
  BY LockstepAssumption
<1>2. /\ seqs = <<>> /\ blocks = <<>> /\ decoded = <<>> /\ nblock = 0 /\ pc = "parse"
      /\ Len(seqs) = 0 /\ Len(blocks) = 0 /\ Len(decoded) = 0
      /\ rep = enc.rep /\ cur = [seq |-> enc.seq, lit |-> enc.lit]
      /\ real = 3 /\ kept = 3 /\ failed = FALSE /\ chunks = 0
  BY DEF Init
<1>3. TypeOK
  <2>1. rep \in Triple /\ cur \in Tabs
    BY <1>1, <1>2 DEF EntropyState, Tabs
  <2>2. /\ seqs \in Seq(SeqRecord) /\ blocks \in Seq(BlockRecord) /\ decoded \in Seq(Nat)
        /\ nblock \in 0..Len(blocks) /\ real \in Nat /\ kept \in Nat /\ chunks \in Nat
    BY <1>2
  <2>3. QED
    BY <1>1, <1>2, <2>1, <2>2 DEF TypeOK
<1>4. Shape /\ Faithful /\ SameTables
  BY <1>2 DEF Shape, Faithful, SameTables
<1>5. RepInv
  BY <1>1, <1>2 DEF RepInv, SeqChain, RepAt, RealAt, Agree
<1>6. TabInv
  BY <1>1, <1>2 DEF TabInv, BlockChain, PreAt, TableCompat
<1>7. QED
  BY <1>3, <1>4, <1>5, <1>6 DEF IInv

(* The decoder's next sequence exists.                                     *)
LEMMA NextSequence ==
  ASSUME TypeOK, Shape, DecodeSequence
  PROVE  /\ Len(decoded) \in Nat /\ Len(decoded) + 1 \in 1..Len(seqs)
         /\ seqs[Len(decoded) + 1] \in SeqRecord
         /\ Len(seqs) \in Nat
<1>1. /\ Len(decoded) \in Nat /\ Len(seqs) \in Nat /\ Len(blocks) \in Nat
      /\ nblock \in 0..Len(blocks) /\ seqs \in Seq(SeqRecord)
      /\ blocks \in Seq(BlockRecord)
  BY DEF TypeOK
<1>2. nblock \in 1..Len(blocks) /\ Len(decoded) < blocks[nblock].upto
  BY <1>1 DEF DecodeSequence
<1>3. blocks[nblock].upto <= Len(seqs) /\ blocks[nblock].upto \in Nat
  <2>1. blocks[nblock] \in BlockRecord
    BY <1>1, <1>2
  <2>2. blocks[nblock].upto \in Nat
    BY <2>1 DEF BlockRecord
  <2>3. QED
    BY <1>2, <2>2 DEF Shape
<1>4. Len(decoded) + 1 \in 1..Len(seqs)
  BY <1>1, <1>2, <1>3
<1>5. QED
  BY <1>1, <1>4

(* So does its next block.                                                 *)
LEMMA NextBlock ==
  ASSUME TypeOK, DecodeTables
  PROVE  /\ nblock \in Nat /\ nblock + 1 \in 1..Len(blocks) /\ Len(blocks) \in Nat
         /\ block \in BlockRecord
<1>1. Len(blocks) \in Nat /\ nblock \in 0..Len(blocks) /\ blocks \in Seq(BlockRecord)
  BY DEF TypeOK
<1>2. nblock + 1 \in 1..Len(blocks)
  BY <1>1 DEF DecodeTables
<1>3. QED
  BY <1>1, <1>2 DEF block

(* Every step keeps the types and the control shape.                       *)
LEMMA StepTyped ==
  ASSUME IInv, [Next]_vars
  PROVE  TypeOK' /\ Shape'
<1> USE DEF IInv
<1>0. /\ enc \in EntropyState /\ dec \in EntropyState /\ kept \in Nat
      /\ rep \in Triple /\ real \in Nat /\ seqs \in Seq(SeqRecord)
      /\ cur \in Tabs /\ blocks \in Seq(BlockRecord) /\ decoded \in Seq(Nat)
      /\ nblock \in 0..Len(blocks) /\ Len(blocks) \in Nat /\ Len(seqs) \in Nat
      /\ Len(decoded) \in Nat /\ chunks \in Nat /\ failed \in BOOLEAN
  BY DEF TypeOK
<1>1. ASSUME NEW offset \in Offsets, NEW ll0 \in BOOLEAN, ParseSequence(offset, ll0)
      PROVE  TypeOK' /\ Shape'
  <2> DEFINE ov == encode_offset(rep, offset, ll0)
             x  == [ll0 |-> ll0, ov |-> ov, offset |-> offset, rep |-> rep, real |-> real]
  <2>1. offset \in Nat \ {0}
    BY LockstepAssumption
  <2>2. ov \in Nat \ {0} /\ resolve_offset(rep, ov, ll0).rep \in Triple
    <3>1. ov \in Nat \ {0}
      BY <1>0, <2>1, EncodeFacts
    <3> HIDE DEF ov
    <3>2. QED
      BY <1>0, <3>1, ResolveType
  <2> HIDE DEF ov
  <2>3. x \in SeqRecord
    BY <1>0, <2>1, <2>2 DEF SeqRecord
  <2>4. seqs' = Append(seqs, x) /\ rep' = resolve_offset(rep, ov, ll0).rep
        /\ real' = IF ov > 3 THEN real + 1 ELSE real
    BY <1>1 DEF ParseSequence, ov
  <2> HIDE DEF x
  <2>5. seqs' \in Seq(SeqRecord) /\ Len(seqs') = Len(seqs) + 1
    BY <1>0, <2>3, <2>4, AppendSeqs
  <2>6. UNCHANGED <<pc, enc, cur, blocks, dec, decoded, nblock, failed, kept, chunks>>
    BY <1>1 DEF ParseSequence
  <2>7. TypeOK'
    BY <1>0, <2>2, <2>4, <2>5, <2>6 DEF TypeOK
  <2>8. Shape'
    BY <1>0, <1>1, <2>5, <2>6 DEF Shape, ParseSequence
  <2>9. QED
    BY <2>7, <2>8
<1>2. CASE EndParse
  BY <1>2 DEF EndParse, TypeOK, Shape
<1>3. ASSUME NEW upto \in 0..Len(seqs), EmitBlock(upto)
      PROVE  TypeOK' /\ Shape'
  <2> PICK lit \in write_literals_auto, plan \in write_sequences :
             emit_one(upto, lit, plan)
    BY <1>3 DEF EmitBlock
  <2> DEFINE x == [upto |-> upto, empty |-> upto = emitted,
                   lit |-> lit, plan |-> plan, pre |-> cur]
  <2>1. /\ lit \in [mode : {"raw"}, table : Table]
                   \cup [mode : {"huff", "treeless"}, table : Tables]
        /\ lit.table \in Table
        /\ plan \in [Channels -> [mode : {"described", "repeat"}, table : Tables]]
    BY ChoiceFacts
  <2>2. x \in BlockRecord
    BY <1>0, <2>1 DEF BlockRecord
  <2>3. blocks' = Append(blocks, x)
    BY DEF emit_one
  <2>4. cur' \in Tabs
    BY <1>0, <2>1 DEF emit_one, Tabs, Table
  <2>5. UNCHANGED <<pc, enc, rep, real, seqs, dec, decoded, nblock, failed, kept, chunks>>
        /\ pc = "emit"
    BY <1>3 DEF EmitBlock
  <2>6. x.upto = upto
    OBVIOUS
  <2> HIDE DEF x
  <2>7. /\ blocks' \in Seq(BlockRecord) /\ Len(blocks') = Len(blocks) + 1
        /\ \A i \in 1..Len(blocks) : blocks'[i] = blocks[i]
        /\ blocks'[Len(blocks) + 1] = x
    BY <1>0, <2>2, <2>3, AppendBlocks
  <2>8. TypeOK'
    BY <1>0, <2>4, <2>5, <2>7 DEF TypeOK
  <2>9. \A i \in 1..Len(blocks') : blocks'[i].upto <= Len(seqs')
    <3> TAKE i \in 1..Len(blocks')
    <3>1. CASE i \in 1..Len(blocks)
      BY <2>5, <2>7, <3>1 DEF Shape
    <3>2. CASE i = Len(blocks) + 1
      BY <1>0, <2>5, <2>6, <2>7, <3>2
    <3>3. QED
      BY <1>0, <2>7, <3>1, <3>2
  <2>10. Shape'
    BY <2>5, <2>9 DEF Shape
  <2>11. QED
    BY <2>8, <2>10
<1>4. CASE Commit
  BY <1>0, <1>4 DEF Commit, TypeOK, Shape, EntropyState, Tabs
<1>5. ASSUME NEW e \in EntropyState, NEW n \in Nat, NewChunk(e, n),
             enc' \in EntropyState, dec' \in EntropyState, kept' \in Nat,
             failed' \in BOOLEAN, chunks' \in Nat
      PROVE  TypeOK' /\ Shape'
  <2>1. /\ rep' \in Triple /\ real' \in Nat /\ seqs' \in Seq(SeqRecord)
        /\ cur' \in Tabs /\ blocks' \in Seq(BlockRecord) /\ decoded' \in Seq(Nat)
        /\ nblock' = 0 /\ Len(blocks') = 0 /\ pc' = "parse"
        /\ blocks' = <<>> /\ decoded' = <<>> /\ Len(decoded') = 0 /\ Len(seqs') = 0
    BY <1>5, NewChunkType
  <2>2. TypeOK'
    BY <1>5, <2>1 DEF TypeOK
  <2>3. Shape'
    BY <2>1 DEF Shape
  <2>4. QED
    BY <2>2, <2>3
<1>6. CASE Store
  BY <1>0, <1>5, <1>6 DEF Store
<1>7. CASE Seam
  <2>1. enc' \in EntropyState
    BY <1>7 DEF Seam, EntropyState, Invalidated, Triple, Table
  <2>2. QED
    BY <1>0, <1>5, <1>7, <2>1 DEF Seam
<1>8. CASE DecodeTables
  <2>1. nblock \in Nat /\ nblock + 1 \in 1..Len(blocks) /\ block \in BlockRecord
    BY <1>8, NextBlock
  <2>2. UNCHANGED <<pc, enc, rep, real, seqs, cur, blocks, decoded, kept, chunks>>
    BY <1>8 DEF DecodeTables
  <2>3. literals_decode(block.lit, dec.lit) \in Table
    BY <1>0, <2>1 DEF literals_decode, BlockRecord, EntropyState, Table
  <2>4. [c \in Channels |-> resolve_table(c)] \in [Channels -> Table]
    BY <1>0, <2>1 DEF resolve_table, BlockRecord, EntropyState, Table
  <2>5. dec' \in EntropyState
    BY <1>0, <1>8, <2>3, <2>4 DEF DecodeTables, EntropyState
  <2>6. nblock' \in 0..Len(blocks) /\ failed' \in BOOLEAN
    <3>1. nblock' \in 0..Len(blocks)
      BY <1>0, <1>8, <2>1 DEF DecodeTables
    <3>2. failed' \in BOOLEAN
      BY <1>0, <1>8 DEF DecodeTables
    <3>3. QED
      BY <3>1, <3>2
  <2>7. TypeOK'
    BY <1>0, <2>2, <2>5, <2>6 DEF TypeOK
  <2>8. Shape'
    BY <1>8, <2>2 DEF Shape, DecodeTables
  <2>9. QED
    BY <2>7, <2>8
<1>9. CASE DecodeSequence
  <2> DEFINE s == seqs[Len(decoded) + 1]
             r == resolve_offset(dec.rep, s.ov, s.ll0)
  <2>1. Len(decoded) + 1 \in 1..Len(seqs) /\ s \in SeqRecord
    BY <1>9, NextSequence
  <2> HIDE DEF s
  <2>2. r.offset \in Nat /\ r.rep \in Triple
    <3>1. s.ov \in Nat \ {0} /\ s.ll0 \in BOOLEAN /\ dec.rep \in Triple
      BY <1>0, <2>1 DEF SeqRecord, EntropyState
    <3>2. QED
      BY <3>1, ResolveType
  <2>3. decoded' = Append(decoded, r.offset) /\ dec' = [dec EXCEPT !.rep = r.rep]
        /\ UNCHANGED <<pc, enc, rep, real, seqs, cur, blocks, nblock, failed, kept, chunks>>
        /\ pc = "decode"
    BY <1>9 DEF DecodeSequence, s
  <2> HIDE DEF r
  <2>4. decoded' \in Seq(Nat) /\ Len(decoded') = Len(decoded) + 1
    BY <1>0, <2>2, <2>3, AppendDecoded
  <2>5. dec' \in EntropyState
    BY <1>0, <2>2, <2>3 DEF EntropyState
  <2>6. TypeOK'
    BY <1>0, <2>3, <2>4, <2>5 DEF TypeOK
  <2>7. Shape'
    BY <1>0, <2>1, <2>3, <2>4 DEF Shape
  <2>8. QED
    BY <2>6, <2>7
<1>10. CASE EndChunk
  BY <1>0, <1>5, <1>10 DEF EndChunk
<1>11. CASE UNCHANGED vars
  BY <1>11 DEF vars, TypeOK, Shape
<1>12. QED
  BY <1>1, <1>2, <1>3, <1>4, <1>6, <1>7, <1>8, <1>9, <1>10, <1>11 DEF Next

-----------------------------------------------------------------------------
(* A chunk that begins from a state which agrees with the decoder's.       *)
LEMMA NewChunkLockstep ==
  ASSUME NEW e, NEW n, NewChunk(e, n),
         enc' = e, kept' = n, Agree(e.rep, dec'.rep, n), TableCompat(e, dec'),
         ~failed'
  PROVE  RepInv' /\ TabInv' /\ Faithful' /\ SameTables'
<1>1. /\ seqs' = <<>> /\ blocks' = <<>> /\ decoded' = <<>> /\ nblock' = 0 /\ pc' = "parse"
      /\ Len(seqs') = 0 /\ Len(blocks') = 0 /\ Len(decoded') = 0
      /\ rep' = e.rep /\ real' = n /\ cur' = [seq |-> e.seq, lit |-> e.lit]
  BY DEF NewChunk
<1>2. RepInv'
  BY <1>1 DEF RepInv, SeqChain, RepAt, RealAt
<1>3. TabInv'
  BY <1>1 DEF TabInv, BlockChain, PreAt, TableCompat
<1>4. Faithful' /\ SameTables'
  BY <1>1 DEF Faithful, SameTables
<1>5. QED
  BY <1>2, <1>3, <1>4

(* When a chunk is not being decoded the committed state agrees with the   *)
(* decoder's, and again when all of it was decoded.                        *)
LEMMA CommittedAgrees ==
  ASSUME IInv, pc # "decode" \/ (nblock = Len(blocks) /\ Len(decoded) = Len(seqs))
  PROVE  Agree(enc.rep, dec.rep, kept) /\ TableCompat(enc, dec)
<1>1. Len(seqs) \in Nat /\ Len(blocks) \in Nat
  BY DEF IInv, TypeOK
<1>2. CASE pc # "decode"
  <2>1. Len(decoded) = 0 /\ nblock = 0
    BY <1>2 DEF IInv, Shape
  <2>2. Agree(enc.rep, dec.rep, kept)
    BY <1>2, <2>1 DEF IInv, RepInv
  <2>3. TableCompat([seq |-> enc.seq, lit |-> enc.lit], dec)
    BY <1>2, <2>1 DEF IInv, TabInv
  <2>4. QED
    BY <2>2, <2>3 DEF TableCompat
<1>3. CASE pc = "decode"
  <2>1. /\ RepAt(Len(decoded) + 1) = rep /\ RealAt(Len(decoded) + 1) = real
        /\ PreAt(nblock + 1) = cur
    BY <1>1, <1>3 DEF RepAt, RealAt, PreAt
  <2>2. Agree(enc.rep, dec.rep, kept)
    BY <1>3, <2>1 DEF IInv, RepInv
  <2>3. TableCompat([seq |-> enc.seq, lit |-> enc.lit], dec)
    BY <1>3, <2>1 DEF IInv, TabInv
  <2>4. QED
    BY <2>2, <2>3 DEF TableCompat
<1>4. QED
  BY <1>2, <1>3

(* Parsing one more sequence extends the chain of triples.                 *)
LEMMA ParseLockstep ==
  ASSUME IInv, NEW offset \in Offsets, NEW ll0 \in BOOLEAN, ParseSequence(offset, ll0)
  PROVE  RepInv' /\ TabInv' /\ Faithful' /\ SameTables'
<1> DEFINE ov == encode_offset(rep, offset, ll0)
           x  == [ll0 |-> ll0, ov |-> ov, offset |-> offset, rep |-> rep, real |-> real]
<1>1. /\ seqs \in Seq(SeqRecord) /\ Len(seqs) \in Nat /\ rep \in Triple /\ real \in Nat
      /\ pc = "parse" /\ blocks = <<>> /\ decoded = <<>> /\ nblock = 0
      /\ Len(decoded) = 0 /\ Len(blocks) = 0
  BY DEF IInv, TypeOK, Shape, ParseSequence
<1>2. /\ seqs' = Append(seqs, x)
      /\ rep' = resolve_offset(rep, ov, ll0).rep
      /\ real' = IF ov > 3 THEN real + 1 ELSE real
      /\ UNCHANGED <<pc, enc, cur, blocks, dec, decoded, nblock, failed, kept, chunks>>
  BY DEF ParseSequence
<1>3. offset \in Nat \ {0}
  BY LockstepAssumption
<1>4. ov \in Nat \ {0}
  BY <1>1, <1>3, EncodeFacts
<1>5. /\ x \in SeqRecord
      /\ x.rep = rep /\ x.real = real /\ x.ov = ov /\ x.ll0 = ll0 /\ x.offset = offset
  <2> HIDE DEF ov
  <2>1. QED
    BY <1>1, <1>3, <1>4 DEF SeqRecord
<1>6. ov = encode_offset(rep, offset, ll0)
  OBVIOUS
<1> HIDE DEF ov, x
<1>7. /\ Len(seqs') = Len(seqs) + 1
      /\ \A i \in 1..Len(seqs) : seqs'[i] = seqs[i]
      /\ seqs'[Len(seqs) + 1] = x
  BY <1>1, <1>2, <1>5, AppendSeqs
<1>8. ASSUME NEW i \in 1..(Len(seqs) + 1)
      PROVE  RepAt(i)' = RepAt(i) /\ RealAt(i)' = RealAt(i)
  <2>1. CASE i \in 1..Len(seqs)
    BY <1>1, <1>7, <2>1 DEF RepAt, RealAt
  <2>2. CASE i = Len(seqs) + 1
    BY <1>1, <1>5, <1>7, <2>2 DEF RepAt, RealAt
  <2>3. QED
    BY <1>1, <2>1, <2>2
<1>9. ASSUME NEW i \in Nat, i = Len(seqs) + 2
      PROVE  RepAt(i)' = rep' /\ RealAt(i)' = real'
  BY <1>1, <1>7, <1>9 DEF RepAt, RealAt
<1>10. SeqChain'
  <2> SUFFICES ASSUME NEW i \in 1..(Len(seqs) + 1)
               PROVE  LET s == seqs'[i]
                      IN  /\ s.ov = encode_offset(s.rep, s.offset, s.ll0)
                          /\ RepAt(i + 1)' = resolve_offset(s.rep, s.ov, s.ll0).rep
                          /\ RealAt(i + 1)' = IF s.ov > 3 THEN s.real + 1 ELSE s.real
    BY <1>7 DEF SeqChain
  <2>1. CASE i \in 1..Len(seqs)
    <3>1. seqs'[i] = seqs[i]
      BY <1>7, <2>1
    <3>2. RepAt(i + 1)' = RepAt(i + 1) /\ RealAt(i + 1)' = RealAt(i + 1)
      BY <1>1, <1>8, <2>1
    <3>3. QED
      BY <2>1, <3>1, <3>2 DEF IInv, RepInv, SeqChain
  <2>2. CASE i = Len(seqs) + 1
    <3>1. seqs'[i] = x /\ i + 1 = Len(seqs) + 2
      BY <1>1, <1>7, <2>2
    <3>2. RepAt(i + 1)' = rep' /\ RealAt(i + 1)' = real'
      BY <1>1, <1>9, <3>1
    <3>3. QED
      BY <1>2, <1>5, <1>6, <3>1, <3>2
  <2>3. QED
    BY <1>1, <2>1, <2>2
<1>11. RepInv'
  <2>1. RepAt(1)' = RepAt(1) /\ RealAt(1)' = RealAt(1)
    BY <1>1, <1>8
  <2>2. enc'.rep = RepAt(1)' /\ kept' = RealAt(1)' /\ pc' # "decode"
    BY <1>1, <1>2, <2>1 DEF IInv, RepInv
  <2>3. Agree(RepAt(Len(decoded) + 1), dec.rep, RealAt(Len(decoded) + 1))'
    BY <1>1, <1>2, <2>1 DEF IInv, RepInv, Agree
  <2>4. QED
    BY <1>10, <2>2, <2>3 DEF RepInv
<1>12. TabInv'
  BY <1>1, <1>2 DEF IInv, TabInv, BlockChain, PreAt, TableCompat
<1>13. Faithful' /\ SameTables'
  BY <1>1, <1>2 DEF IInv, Faithful, SameTables
<1>14. QED
  BY <1>11, <1>12, <1>13

(* Emitting one more block extends the chain of tables.                    *)
LEMMA EmitLockstep ==
  ASSUME IInv, NEW upto \in 0..Len(seqs), EmitBlock(upto)
  PROVE  RepInv' /\ TabInv' /\ Faithful' /\ SameTables'
<1> PICK lit \in write_literals_auto, plan \in write_sequences :
           emit_one(upto, lit, plan)
  BY DEF EmitBlock
<1> DEFINE x == [upto |-> upto, empty |-> upto = emitted,
                 lit |-> lit, plan |-> plan, pre |-> cur]
<1>1. /\ pc = "emit" /\ decoded = <<>> /\ nblock = 0 /\ Len(decoded) = 0
      /\ blocks \in Seq(BlockRecord) /\ Len(blocks) \in Nat /\ cur \in Tabs
      /\ UNCHANGED <<pc, enc, rep, real, seqs, dec, decoded, nblock, failed, kept, chunks>>
  BY DEF IInv, TypeOK, Shape, EmitBlock
<1>2. /\ lit \in [mode : {"raw"}, table : Table]
                 \cup [mode : {"huff", "treeless"}, table : Tables]
      /\ lit.mode # "huff" => lit.table = cur.lit
      /\ plan \in [Channels -> [mode : {"described", "repeat"}, table : Tables]]
      /\ \A c \in Channels : plan[c].mode = "repeat" => plan[c].table = cur.seq[c]
  BY ChoiceFacts DEF IInv
<1>3. x \in BlockRecord
  BY <1>1, <1>2 DEF BlockRecord
<1>4. blocks' = Append(blocks, x)
  BY DEF emit_one
<1>5. /\ x.lit = lit /\ x.plan = plan /\ x.pre = cur
      /\ cur' = After(x)
  BY DEF emit_one, After
<1> HIDE DEF x
<1>6. /\ Len(blocks') = Len(blocks) + 1
      /\ \A i \in 1..Len(blocks) : blocks'[i] = blocks[i]
      /\ blocks'[Len(blocks) + 1] = x
  BY <1>1, <1>3, <1>4, AppendBlocks
<1>7. ASSUME NEW i \in 1..(Len(blocks) + 1)
      PROVE  PreAt(i)' = PreAt(i)
  <2>1. CASE i \in 1..Len(blocks)
    BY <1>1, <1>6, <2>1 DEF PreAt
  <2>2. CASE i = Len(blocks) + 1
    BY <1>1, <1>5, <1>6, <2>2 DEF PreAt
  <2>3. QED
    BY <1>1, <2>1, <2>2
<1>8. ASSUME NEW i \in Nat, i = Len(blocks) + 2
      PROVE  PreAt(i)' = cur'
  BY <1>1, <1>6, <1>8 DEF PreAt
<1>9. BlockChain'
  <2> SUFFICES ASSUME NEW i \in 1..(Len(blocks) + 1)
               PROVE  LET b == blocks'[i]
                      IN  /\ b.lit.mode # "huff" => b.lit.table = b.pre.lit
                          /\ \A c \in Channels :
                               b.plan[c].mode = "repeat" => b.plan[c].table = b.pre.seq[c]
                          /\ PreAt(i + 1)' = After(b)
    BY <1>6 DEF BlockChain, After
  <2>1. CASE i \in 1..Len(blocks)
    <3>1. blocks'[i] = blocks[i]
      BY <1>6, <2>1
    <3>2. PreAt(i + 1)' = PreAt(i + 1)
      BY <1>1, <1>7, <2>1
    <3>3. QED
      BY <2>1, <3>1, <3>2 DEF IInv, TabInv, BlockChain
  <2>2. CASE i = Len(blocks) + 1
    <3>1. blocks'[i] = x /\ i + 1 = Len(blocks) + 2
      BY <1>1, <1>6, <2>2
    <3>2. PreAt(i + 1)' = cur'
      BY <1>1, <1>8, <3>1
    <3>3. QED
      BY <1>2, <1>5, <3>1, <3>2
  <2>3. QED
    BY <1>1, <2>1, <2>2
<1>10. TabInv'
  <2>1. PreAt(1)' = PreAt(1)
    BY <1>1, <1>7
  <2>2. [seq |-> enc'.seq, lit |-> enc'.lit] = PreAt(1)' /\ pc' # "decode"
    BY <1>1, <2>1 DEF IInv, TabInv
  <2>3. TableCompat(PreAt(nblock + 1), dec)'
    BY <1>1, <2>1 DEF IInv, TabInv, TableCompat
  <2>4. QED
    BY <1>9, <2>2, <2>3 DEF TabInv
<1>11. RepInv'
  BY <1>1 DEF IInv, RepInv, SeqChain, RepAt, RealAt, Agree
<1>12. Faithful' /\ SameTables'
  BY <1>1 DEF IInv, Faithful, SameTables
<1>13. QED
  BY <1>10, <1>11, <1>12

(* Committing makes the parse's end the committed state.                   *)
LEMMA CommitLockstep ==
  ASSUME IInv, Commit
  PROVE  RepInv' /\ TabInv' /\ Faithful' /\ SameTables'
<1>1. /\ pc = "emit" /\ decoded = <<>> /\ nblock = 0 /\ Len(decoded) = 0
      /\ cur \in Tabs
      /\ enc' = [rep |-> rep, seq |-> cur.seq, lit |-> cur.lit] /\ kept' = real
      /\ pc' = "decode"
      /\ UNCHANGED <<rep, real, seqs, cur, blocks, dec, decoded, nblock, failed, chunks>>
  BY DEF IInv, TypeOK, Shape, Commit
<1>2. RepInv'
  BY <1>1 DEF IInv, RepInv, SeqChain, RepAt, RealAt, Agree
<1>3. TabInv'
  <2>1. BlockChain' /\ TableCompat(PreAt(nblock + 1), dec)'
    BY <1>1 DEF IInv, TabInv, BlockChain, PreAt, After, TableCompat
  <2>2. [seq |-> enc'.seq, lit |-> enc'.lit] = cur'
    BY <1>1 DEF Tabs
  <2>3. QED
    BY <1>1, <2>1, <2>2 DEF TabInv
<1>4. Faithful' /\ SameTables'
  BY <1>1 DEF IInv, Faithful, SameTables
<1>5. QED
  BY <1>2, <1>3, <1>4

(* Decoding a sequence: StepAgree at the decoder's place in the chain.     *)
LEMMA DecodeSequenceLockstep ==
  ASSUME IInv, DecodeSequence
  PROVE  RepInv' /\ TabInv' /\ Faithful' /\ SameTables'
<1> DEFINE j == Len(decoded) + 1
           s == seqs[j]
           r == resolve_offset(dec.rep, s.ov, s.ll0)
<1>1. /\ pc = "decode" /\ decoded \in Seq(Nat) /\ dec \in EntropyState
      /\ rep \in Triple /\ real \in Nat
      /\ decoded' = Append(decoded, r.offset) /\ dec' = [dec EXCEPT !.rep = r.rep]
      /\ UNCHANGED <<pc, enc, rep, real, seqs, cur, blocks, nblock, failed, kept, chunks>>
  BY DEF IInv, TypeOK, DecodeSequence
<1>2. /\ Len(decoded) \in Nat /\ Len(seqs) \in Nat
      /\ j \in 1..Len(seqs) /\ s \in SeqRecord
  BY NextSequence DEF IInv
<1>3. /\ s.ov = encode_offset(s.rep, s.offset, s.ll0)
      /\ RepAt(j + 1) = resolve_offset(s.rep, s.ov, s.ll0).rep
      /\ RealAt(j + 1) = IF s.ov > 3 THEN s.real + 1 ELSE s.real
  BY <1>2 DEF IInv, RepInv, SeqChain
<1>4. RepAt(j) = s.rep /\ RealAt(j) = s.real
  BY <1>2 DEF RepAt, RealAt
<1>5. Agree(s.rep, dec.rep, s.real)
  BY <1>4 DEF IInv, RepInv
<1>6. /\ s.rep \in Triple /\ s.real \in Nat /\ s.offset \in Nat \ {0}
      /\ s.ll0 \in BOOLEAN /\ s.ov \in Nat \ {0} /\ dec.rep \in Triple
  BY <1>1, <1>2 DEF SeqRecord, EntropyState
<1>7. r.offset = s.offset /\ Agree(RepAt(j + 1), r.rep, RealAt(j + 1))
  <2> HIDE DEF s
  <2>1. QED
    BY <1>3, <1>5, <1>6, StepAgree
<1>8. r.offset \in Nat
  BY <1>6, <1>7
<1> HIDE DEF r
<1>9. /\ Len(decoded') = j
      /\ \A i \in 1..Len(decoded) : decoded'[i] = decoded[i]
      /\ decoded'[j] = s.offset
  BY <1>1, <1>7, <1>8, AppendDecoded
<1> HIDE DEF s
<1>10. Faithful'
  <2> SUFFICES ASSUME NEW i \in 1..j PROVE decoded'[i] = seqs[i].offset
    BY <1>1, <1>9 DEF Faithful
  <2>1. CASE i \in 1..Len(decoded)
    BY <1>9, <2>1 DEF IInv, Faithful
  <2>2. CASE i = j
    BY <1>9, <2>2 DEF s
  <2>3. QED
    BY <1>2, <2>1, <2>2
<1>11. dec'.rep = r.rep /\ dec'.seq = dec.seq /\ dec'.lit = dec.lit
  BY <1>1 DEF EntropyState
<1>12. RepInv'
  <2>1. SeqChain' /\ enc'.rep = rep' /\ kept' = real'
    BY <1>1 DEF IInv, RepInv, SeqChain, RepAt, RealAt
  <2> HIDE DEF j
  <2>2. ASSUME NEW i PROVE RepAt(i)' = RepAt(i) /\ RealAt(i)' = RealAt(i)
    BY <1>1 DEF RepAt, RealAt
  <2>3. Agree(RepAt(Len(decoded) + 1), dec.rep, RealAt(Len(decoded) + 1))'
    BY <1>7, <1>9, <1>11, <2>2 DEF Agree
  <2>4. QED
    BY <1>1, <2>1, <2>3 DEF RepInv
<1>13. TabInv'
  BY <1>1, <1>11 DEF IInv, TabInv, BlockChain, PreAt, After, TableCompat
<1>14. SameTables'
  BY <1>1, <1>11 DEF IInv, SameTables
<1>15. QED
  BY <1>10, <1>12, <1>13, <1>14

(* Reading a block's tables: what it reuses is there and is what the       *)
(* encoder held.                                                           *)
LEMMA DecodeTablesLockstep ==
  ASSUME IInv, DecodeTables
  PROVE  RepInv' /\ TabInv' /\ Faithful' /\ SameTables'
<1> DEFINE j == nblock + 1
<1>1. /\ pc = "decode" /\ ~failed /\ dec \in EntropyState
      /\ UNCHANGED <<pc, enc, rep, real, seqs, cur, blocks, decoded, kept, chunks>>
  BY DEF IInv, TypeOK, DecodeTables
<1>2. /\ nblock \in Nat /\ Len(blocks) \in Nat /\ j \in 1..Len(blocks)
      /\ block \in BlockRecord /\ block = blocks[j]
  BY NextBlock DEF IInv, block
<1>3. /\ block.lit.mode # "huff" => block.lit.table = block.pre.lit
      /\ \A c \in Channels :
           block.plan[c].mode = "repeat" => block.plan[c].table = block.pre.seq[c]
      /\ PreAt(j + 1) = After(block)
  BY <1>2 DEF IInv, TabInv, BlockChain
<1>4. PreAt(j) = block.pre
  BY <1>2 DEF PreAt
<1>5. /\ \A c \in Channels : block.pre.seq[c] \in {None, dec.seq[c]}
      /\ block.pre.lit \in {None, dec.lit}
  BY <1>4 DEF IInv, TabInv, TableCompat
<1>6. /\ block.lit.mode = "treeless" => block.lit.table \in Tables
      /\ block.lit.mode \in {"raw", "huff", "treeless"}
      /\ \A c \in Channels : block.plan[c].table \in Tables
  BY <1>2 DEF BlockRecord
<1>7. None \notin Tables
  BY LockstepAssumption
<1>8. /\ block.lit.mode = "treeless" => dec.lit = block.lit.table /\ dec.lit # None
      /\ \A c \in Channels : block.plan[c].mode = "repeat" =>
                               dec.seq[c] = block.plan[c].table /\ dec.seq[c] # None
  BY <1>3, <1>5, <1>6, <1>7
<1>9. ~refused
  BY <1>8 DEF refused
<1>10. /\ dec' = [dec EXCEPT
                    !.lit = literals_decode(block.lit, dec.lit),
                    !.seq = IF block.empty THEN dec.seq
                            ELSE [c \in Channels |-> resolve_table(c)]]
       /\ nblock' = j /\ failed' = failed
  BY <1>9 DEF DecodeTables
<1>11. /\ dec'.rep = dec.rep
       /\ dec'.lit = literals_decode(block.lit, dec.lit)
       /\ dec'.seq = IF block.empty THEN dec.seq
                     ELSE [c \in Channels |-> resolve_table(c)]
  BY <1>1, <1>10 DEF EntropyState
<1>12. /\ block.lit.mode # "raw" => dec'.lit = block.lit.table
       /\ block.lit.table \in {None, dec'.lit}
  BY <1>3, <1>5, <1>6, <1>8, <1>11 DEF literals_decode
<1>13. ASSUME NEW c \in Channels
       PROVE  /\ ~block.empty => dec'.seq[c] = block.plan[c].table
              /\ block.empty => dec'.seq[c] = dec.seq[c]
  BY <1>8, <1>11 DEF resolve_table
<1> HIDE DEF j
<1>14. TableCompat(After(block), dec')
  <2>1. /\ After(block).lit = block.lit.table
        /\ block.empty => After(block).seq = block.pre.seq
        /\ ~block.empty => After(block).seq = [c \in Channels |-> block.plan[c].table]
    BY DEF After
  <2>2. ASSUME NEW c \in Channels PROVE After(block).seq[c] \in {None, dec'.seq[c]}
    <3>1. CASE block.empty
      BY <1>5, <1>13, <2>1, <3>1
    <3>2. CASE ~block.empty
      BY <1>13, <2>1, <3>2
    <3>3. QED
      BY <3>1, <3>2
  <2>3. QED
    BY <1>12, <2>1, <2>2 DEF TableCompat
<1>15. TabInv'
  <2>1. ASSUME NEW i PROVE PreAt(i)' = PreAt(i)
    BY <1>1 DEF PreAt
  <2>2. BlockChain' /\ [seq |-> enc'.seq, lit |-> enc'.lit] = cur'
    BY <1>1 DEF IInv, TabInv, BlockChain, PreAt, After
  <2>3. TableCompat(PreAt(nblock + 1), dec)'
    BY <1>3, <1>10, <1>14, <2>1 DEF TableCompat
  <2>4. QED
    BY <1>1, <2>2, <2>3 DEF TabInv
<1>16. SameTables'
  <2>1. blocks'[nblock'] = block
    BY <1>1, <1>2, <1>10
  <2>2. QED
    BY <1>1, <1>10, <1>12, <1>13, <2>1 DEF SameTables
<1>17. RepInv' /\ Faithful'
  BY <1>1, <1>11 DEF IInv, RepInv, SeqChain, RepAt, RealAt, Agree, Faithful
<1>18. QED
  BY <1>15, <1>16, <1>17

(* Every step keeps the lockstep.                                          *)
LEMMA StepLockstep ==
  ASSUME IInv, [Next]_vars
  PROVE  RepInv' /\ TabInv' /\ Faithful' /\ SameTables'
<1>0. ~failed
  BY DEF IInv, SameTables
<1>1. ASSUME NEW offset \in Offsets, NEW ll0 \in BOOLEAN, ParseSequence(offset, ll0)
      PROVE  RepInv' /\ TabInv' /\ Faithful' /\ SameTables'
  BY <1>1, ParseLockstep
<1>2. CASE EndParse
  <2>1. /\ pc = "parse" /\ pc' = "emit"
        /\ UNCHANGED <<enc, rep, real, seqs, cur, blocks, dec, decoded, nblock, failed,
                       kept, chunks>>
    BY <1>2 DEF EndParse
  <2>2. RepInv' /\ Faithful'
    BY <2>1 DEF IInv, RepInv, SeqChain, RepAt, RealAt, Agree, Faithful
  <2>3. TabInv' /\ SameTables'
    BY <2>1 DEF IInv, TabInv, BlockChain, PreAt, After, TableCompat, SameTables
  <2>4. QED
    BY <2>2, <2>3
<1>3. ASSUME NEW upto \in 0..Len(seqs), EmitBlock(upto)
      PROVE  RepInv' /\ TabInv' /\ Faithful' /\ SameTables'
  BY <1>3, EmitLockstep
<1>4. CASE Commit
  BY <1>4, CommitLockstep
<1>5. CASE Store
  <2>1. Agree(enc.rep, dec.rep, kept) /\ TableCompat(enc, dec)
    BY <1>5, CommittedAgrees DEF Store
  <2>2. NewChunk(enc, kept) /\ enc' = enc /\ dec' = dec /\ kept' = kept /\ ~failed'
    BY <1>0, <1>5 DEF Store
  <2>3. QED
    BY <2>1, <2>2, NewChunkLockstep
<1>6. CASE Seam
  <2> DEFINE e == [rep |-> Invalidated, seq |-> [c \in Channels |-> None], lit |-> None]
  <2>1. NewChunk(enc', 0) /\ enc' = e /\ kept' = 0 /\ dec' = dec /\ ~failed'
    BY <1>0, <1>6 DEF Seam
  <2>2. Agree(e.rep, dec'.rep, 0)
    BY DEF Agree, Invalidated
  <2>3. TableCompat(e, dec')
    BY DEF TableCompat
  <2> HIDE DEF e
  <2>4. QED
    BY <2>1, <2>2, <2>3, NewChunkLockstep
<1>7. CASE DecodeTables
  BY <1>7, DecodeTablesLockstep
<1>8. CASE DecodeSequence
  BY <1>8, DecodeSequenceLockstep
<1>9. CASE EndChunk
  <2>1. Agree(enc.rep, dec.rep, kept) /\ TableCompat(enc, dec)
    BY <1>9, CommittedAgrees DEF EndChunk
  <2>2. NewChunk(enc, kept) /\ enc' = enc /\ dec' = dec /\ kept' = kept /\ ~failed'
    BY <1>0, <1>9 DEF EndChunk
  <2>3. QED
    BY <2>1, <2>2, NewChunkLockstep
<1>10. CASE UNCHANGED vars
  <2>1. UNCHANGED <<pc, enc, rep, real, seqs, cur, blocks, dec, decoded, nblock, failed,
                    kept, chunks>>
    BY <1>10 DEF vars
  <2>2. RepInv' /\ Faithful'
    BY <2>1 DEF IInv, RepInv, SeqChain, RepAt, RealAt, Agree, Faithful
  <2>3. TabInv' /\ SameTables'
    BY <2>1 DEF IInv, TabInv, BlockChain, PreAt, After, TableCompat, SameTables
  <2>4. QED
    BY <2>2, <2>3
<1>11. QED
  BY <1>1, <1>2, <1>3, <1>4, <1>5, <1>6, <1>7, <1>8, <1>9, <1>10 DEF Next

-----------------------------------------------------------------------------
(* The inductive invariant holds throughout: the encoder's EncState and    *)
(* the decoder's BlockState stay in lockstep over every frame.             *)
THEOREM Invariance == Spec => []IInv
<1>1. Init => IInv
  BY InitHolds
<1>2. IInv /\ [Next]_vars => IInv'
  BY StepTyped, StepLockstep DEF IInv
<1>3. QED
  BY <1>1, <1>2, PTL DEF Spec

(* Every block that reuses a table names one EncState really holds.        *)
THEOREM TypeCorrect == Spec => []TypeOK
<1>1. IInv => TypeOK
  BY DEF IInv
<1>2. QED
  BY <1>1, Invariance, PTL

(* encode_offset and resolve_offset do not drift: the decoder copies every *)
(* match from the distance the parse chose, in any frame with any number   *)
(* of stored, split and job-boundary chunks.                               *)
THEOREM OffsetsFaithful == Spec => []Faithful
<1>1. IInv => Faithful
  BY DEF IInv
<1>2. QED
  BY <1>1, Invariance, PTL

(* Repeat and treeless sections always find the table they were coded with.*)
THEOREM TablesFaithful == Spec => []SameTables
<1>1. IInv => SameTables
  BY DEF IInv
<1>2. QED
  BY <1>1, Invariance, PTL

(* The claim of parallel.rs: three offsets coded in full after a seam make *)
(* the repeat triples of encoder and decoder equal again.                  *)
THEOREM SeamsHeal == Spec => []Reconverged
<1>1. IInv => Reconverged
  <2> SUFFICES ASSUME IInv, pc = "parse", seqs = <<>>, kept >= 3
               PROVE  enc.rep = dec.rep
    BY DEF Reconverged
  <2>1. Agree(enc.rep, dec.rep, kept)
    BY CommittedAgrees
  <2>2. enc.rep \in Triple /\ dec.rep \in Triple /\ kept \in Nat
    BY DEF IInv, TypeOK, EntropyState
  <2>3. QED
    BY <2>1, <2>2, AgreeEqual
<1>2. QED
  BY <1>1, Invariance, PTL

-----------------------------------------------------------------------------
(* The tables themselves (CodingTables).                                   *)

(* Running sums are what they say: each is the one before and the next     *)
(* number; they grow, and the last is the greatest.                        *)
Running(p, f, n) ==
  /\ p \in [0..n -> Nat] /\ p[0] = 0
  /\ \A i \in 1..n : p[i] = p[i - 1] + f[i]

LEMMA SumsRun ==
  ASSUME NEW n \in Nat, NEW f \in [1..n -> Nat]
  PROVE  Running(Sums(f, n), f, n)
<1> DEFINE Is(s) == s = [i \in 0..n |-> IF i = 0 THEN 0 ELSE s[i - 1] + f[i]]
           s == CHOOSE s : Is(s)
           all == Listed([i \in 1..(n + 1) |-> s[i - 1]])
<1>1. Is(s)
  <2> DEFINE step == [x \in (1..n) \X Nat |-> x[2] + f[x[1]]]
  <2>1. step \in [(1..n) \X Nat -> Nat] /\ 0 \in Nat
    OBVIOUS
  <2>2. PICK g \in [0..n -> Nat] : Iterates(g, n, 0, step)
    <3> HIDE DEF step
    <3> QED BY <2>1, Recursion, Zenon
  <2>3. ASSUME NEW i \in 1..n
        PROVE  g[i] = g[i - 1] + f[i]
    <3>1. g[i - 1] \in Nat /\ i \in 1..n
      BY <2>2
    <3>2. <<i, g[i - 1]>> \in (1..n) \X Nat /\ g[i] = step[<<i, g[i - 1]>>]
      BY <2>2, <3>1 DEF Iterates
    <3> QED BY <3>2
  <2>4. g = [i \in 0..n |-> IF i = 0 THEN 0 ELSE g[i - 1] + f[i]]
    <3>1. g[0] = 0
      BY <2>2 DEF Iterates
    <3>2. \A i \in 0..n : g[i] = IF i = 0 THEN 0 ELSE g[i - 1] + f[i]
      BY <2>3, <3>1
    <3> QED BY <2>2, <3>2
  <2>5. Is(g)
    BY <2>4, Zenon
  <2> HIDE DEF Is
  <2> QED BY <2>5, Zenon
<1>2. s[0] = 0 /\ \A i \in 1..n : s[i] = s[i - 1] + f[i]
  <2> HIDE DEF s
  <2>1. /\ 0 \in 0..n /\ \A i \in 1..n : i \in 0..n /\ i # 0
    OBVIOUS
  <2> QED BY <1>1, <2>1, Zenon
<1>3. \A i \in 0..n : s[i] \in Nat
  <2> DEFINE S == {i \in 0..n : s[i] \in Nat}
  <2>1. 0 \in S
    BY <1>2
  <2>2. \A i \in 1..n : i - 1 \in S => i \in S
    <3> HIDE DEF s
    <3> QED BY <1>2
  <2> HIDE DEF S
  <2>3. 0..n \subseteq S
    BY <2>1, <2>2, UpTo, Zenon
  <2> QED BY <2>3 DEF S
<1> DEFINE r == [i \in 1..(n + 1) |-> s[i - 1]]
<1>4. r \in Seq(Nat) /\ Len(r) = n + 1
  <2>1. \A i \in 1..(n + 1) : i - 1 \in 0..n
    OBVIOUS
  <2>2. r \in [1..(n + 1) -> Nat] /\ n + 1 \in Nat
    <3> HIDE DEF s
    <3> QED BY <1>3, <2>1
  <2> HIDE DEF r
  <2> QED BY <2>2
<1>5. all = r
  <2> HIDE DEF s
  <2> QED BY <1>4, WholeSeq, Zenon DEF Listed
<1>6. \A i \in 0..n : all[i + 1] = s[i]
  <2> HIDE DEF s
  <2> QED BY <1>5
<1>7. Sums(f, n) = [i \in 0..n |-> all[i + 1]]
  BY DEF Sums
<1> HIDE DEF all, s, Is
<1> DEFINE p == Sums(f, n)
<1>8. p = [i \in 0..n |-> s[i]]
  BY <1>6, <1>7
<1> HIDE DEF p
<1>9. /\ p \in [0..n -> Nat] /\ \A i \in 0..n : p[i] = s[i]
      /\ 0 \in 0..n /\ \A i \in 1..n : i \in 0..n /\ i - 1 \in 0..n
  BY <1>3, <1>8
<1>10. p[0] = 0 /\ \A i \in 1..n : p[i] = p[i - 1] + f[i]
  BY <1>2, <1>9
<1>11. Running(p, f, n)
  BY <1>9, <1>10, Zenon DEF Running
<1> QED BY <1>11 DEF p

LEMMA RunningGrows ==
  ASSUME NEW n \in Nat, NEW f \in [1..n -> Nat], NEW p, Running(p, f, n),
         NEW i \in 0..n, NEW j \in 0..n, i <= j
  PROVE  p[i] <= p[j]
<1> DEFINE S == {k \in 0..n : k >= i => p[i] <= p[k]}
<1>1. 0 \in S
  BY DEF Running
<1>2. ASSUME NEW k \in 1..n, k - 1 \in S
      PROVE  k \in S
  <2>1. p[k] = p[k - 1] + f[k] /\ p[k - 1] \in Nat /\ f[k] \in Nat /\ p[i] \in Nat
    <3>1. k - 1 \in 0..n
      OBVIOUS
    <3> QED BY <3>1 DEF Running
  <2>2. CASE k = i
    BY <2>1, <2>2
  <2>3. CASE k # i
    BY <1>2, <2>1, <2>3
  <2> QED BY <2>2, <2>3
<1> HIDE DEF S
<1>3. 0..n \subseteq S
  BY <1>1, <1>2, UpTo, Zenon
<1> QED BY <1>3 DEF S

(* A number below the last sum is passed by exactly one of the numbers.    *)
Takes(p, i, k) == p[i - 1] <= k /\ k < p[i]

LEMMA TakerIs ==
  ASSUME NEW n \in Nat, NEW f \in [1..n -> Nat], NEW p, Running(p, f, n),
         NEW k \in Nat, k < p[n]
  PROVE  /\ \E i \in 1..n : Takes(p, i, k)
         /\ \A i, j \in 1..n : Takes(p, i, k) /\ Takes(p, j, k) => i = j
         /\ Taker(p, n, k) \in 1..n /\ Takes(p, Taker(p, n, k), k)
<1> DEFINE T == {i \in 0..n : k < p[i]}
<1>1. \A i \in 0..n : p[i] \in Nat
  BY DEF Running
<1>2. n \in T /\ T \subseteq Nat
  OBVIOUS
<1>3. PICK i \in T : \A j \in T : i <= j
  <2> HIDE DEF T
  <2>1. T # {}
    BY <1>2
  <2> QED BY <1>2, <2>1, NatMin, Zenon
<1>4. i \in 1..n /\ Takes(p, i, k)
  <2>1. i # 0
    BY DEF Running
  <2>2. i \in 1..n /\ i - 1 \in 0..n /\ i - 1 \notin T
    BY <1>3, <2>1
  <2>3. p[i - 1] <= k
    BY <1>1, <2>2
  <2> QED BY <2>2, <2>3 DEF Takes
<1>5. ASSUME NEW a \in 1..n, NEW b \in 1..n, a < b
      PROVE  ~(Takes(p, a, k) /\ Takes(p, b, k))
  <2>1. a \in 0..n /\ b - 1 \in 0..n /\ a <= b - 1
    BY <1>5
  <2>2. p[a] <= p[b - 1]
    BY <2>1, RunningGrows
  <2> QED BY <1>1, <2>1, <2>2 DEF Takes
<1>6. \A a, b \in 1..n : Takes(p, a, k) /\ Takes(p, b, k) => a = b
  <2> SUFFICES ASSUME NEW a \in 1..n, NEW b \in 1..n, Takes(p, a, k), Takes(p, b, k), a # b
               PROVE  FALSE
    OBVIOUS
  <2>1. a < b \/ b < a
    OBVIOUS
  <2> QED BY <1>5, <2>1, Zenon
<1>7. Taker(p, n, k) \in 1..n /\ Takes(p, Taker(p, n, k), k)
  BY <1>4, Zenon DEF Taker, Takes
<1> QED BY <1>4, <1>6, <1>7, Zenon

(* Where keys tell the members of a finite set apart, each rank from 0 to  *)
(* the last is that of exactly one member.                                 *)
Below(D, key, d) == {e \in D : key[e] < key[d]}

LEMMA RankIs ==
  ASSUME NEW D, IsFiniteSet(D), NEW key \in [D -> Int],
         \A d, e \in D : key[d] = key[e] => d = e
  PROVE  /\ Cardinality(D) \in Nat
         /\ \A d \in D : Cardinality(Below(D, key, d)) \in 0..(Cardinality(D) - 1)
         /\ \A q \in 0..(Cardinality(D) - 1) : \E d \in D : Cardinality(Below(D, key, d)) = q
         /\ \A d, e \in D : Cardinality(Below(D, key, d)) = Cardinality(Below(D, key, e)) => d = e
<1> DEFINE n == Cardinality(D)
           rank == [d \in D |-> Cardinality(Below(D, key, d))]
           T == 0..(n - 1)
<1>1. n \in Nat
  BY FS_CardinalityType
<1>2. \A d \in D : key[d] \in Int
  OBVIOUS
<1>3. ASSUME NEW d \in D
      PROVE  /\ IsFiniteSet(Below(D, key, d)) /\ Cardinality(Below(D, key, d)) \in T
             /\ d \notin Below(D, key, d) /\ rank[d] = Cardinality(Below(D, key, d))
  <2> DEFINE B == Below(D, key, d)
  <2>1. d \notin B /\ B \subseteq D \ {d}
    BY <1>2 DEF Below
  <2>2. IsFiniteSet(D \ {d}) /\ Cardinality(D \ {d}) = n - 1
    BY FS_RemoveElement
  <2>3. IsFiniteSet(B) /\ Cardinality(B) <= n - 1
    <3> HIDE DEF B
    <3>1. B \in SUBSET (D \ {d})
      BY <2>1
    <3> QED BY <2>2, <3>1, FS_Subset
  <2>4. Cardinality(B) \in Nat
    <3> HIDE DEF B
    <3> QED BY <2>3, FS_CardinalityType
  <2>5. Cardinality(B) \in T
    <3> HIDE DEF B
    <3> QED BY <1>1, <2>3, <2>4
  <2>6. rank[d] = Cardinality(B)
    BY Zenon
  <2> QED BY <2>1, <2>3, <2>5, <2>6, Zenon
<1>4. ASSUME NEW d \in D, NEW e \in D, key[d] < key[e]
      PROVE  Cardinality(Below(D, key, d)) < Cardinality(Below(D, key, e))
  <2> DEFINE B == Below(D, key, d)
             C == Below(D, key, e)
  <2>1. B \cup {d} \subseteq C
    BY <1>2, <1>4 DEF Below
  <2>2. IsFiniteSet(B) /\ IsFiniteSet(C) /\ d \notin B
    BY <1>3, Zenon
  <2> HIDE DEF B, C
  <2>3. IsFiniteSet(B \cup {d}) /\ Cardinality(B \cup {d}) = Cardinality(B) + 1
    BY <2>2, FS_AddElement
  <2>4. Cardinality(B \cup {d}) <= Cardinality(C)
    BY <2>1, <2>2, FS_Subset
  <2>5. Cardinality(B) \in Nat /\ Cardinality(C) \in Nat
    BY <2>2, FS_CardinalityType
  <2>6. Cardinality(B) < Cardinality(C)
    BY <2>3, <2>4, <2>5
  <2> QED BY <2>6 DEF B, C
<1>5. ASSUME NEW d \in D, NEW e \in D,
             Cardinality(Below(D, key, d)) = Cardinality(Below(D, key, e))
      PROVE  d = e
  <2>1. Cardinality(Below(D, key, d)) \in Int
    BY <1>3
  <2>2. ~(key[d] < key[e]) /\ ~(key[e] < key[d])
    BY <1>4, <1>5, <2>1
  <2>3. key[d] = key[e]
    BY <1>2, <2>2
  <2> QED BY <2>3
<1>6. rank \in Injection(D, T)
  <2>1. rank \in [D -> T]
    BY <1>3
  <2>2. \A d, e \in D : rank[d] = rank[e] => d = e
    BY <1>3, <1>5
  <2> HIDE DEF rank, T
  <2>3. IsInjective(rank)
    BY <2>1, <2>2 DEF IsInjective
  <2> QED BY <2>1, <2>3 DEF Injection
<1>7. IsFiniteSet(T) /\ Cardinality(T) = n
  <2>1. IsFiniteSet(0..(n - 1)) /\ Cardinality(0..(n - 1)) = IF 0 > n - 1 THEN 0 ELSE n - 1 - 0 + 1
    BY <1>1, FS_Interval
  <2> QED BY <1>1, <2>1
<1>8. rank \in Surjection(D, T)
  <2> HIDE DEF rank, T
  <2> QED BY <1>6, <1>7, FS_Injection
<1>9. \A q \in T : \E d \in D : rank[d] = q
  <2> HIDE DEF rank, T
  <2> QED BY <1>8 DEF Surjection
<1>10. \A q \in T : \E d \in D : Cardinality(Below(D, key, d)) = q
  <2> HIDE DEF rank, T
  <2> QED BY <1>3, <1>9, Zenon
<1> QED BY <1>1, <1>3, <1>5, <1>10, Zenon

(* The highest bit of a number.                                            *)
LEMMA HighbitOf ==
  ASSUME NEW x \in Nat \ {0}
  PROVE  /\ highbit32(x) \in 0..30 /\ Power(highbit32(x)) <= x
         /\ highbit32(x) = 30 \/ x < Power(highbit32(x) + 1)
<1> DEFINE T == {k \in 0..30 : Power(30 - k) <= x}
           Fits(b) == Power(b) <= x /\ (b = 30 \/ x < Power(b + 1))
<1>1. 30 \in T
  BY PowerValues
<1>2. PICK k \in T : \A j \in T : k <= j
  <2>1. T \subseteq Nat /\ T # {}
    BY <1>1
  <2> HIDE DEF T
  <2> QED BY <2>1, NatMin, Zenon
<1>3. 30 - k \in 0..30 /\ Fits(30 - k)
  <2>1. CASE k = 0
    BY <1>2, <2>1
  <2>2. CASE k # 0
    <3>1. k - 1 \in 0..30 /\ k - 1 \notin T
      BY <1>2, <2>2
    <3>2. ~(Power(30 - (k - 1)) <= x) /\ 30 - (k - 1) = (30 - k) + 1 /\ (30 - k) + 1 \in 0..30
      BY <3>1
    <3>3. Power((30 - k) + 1) \in Nat
      BY <3>2, PowerNat
    <3>4. x < Power((30 - k) + 1)
      <4> DEFINE a == Power((30 - k) + 1)
      <4>1. ~(a <= x) /\ a \in Nat
        BY <3>2, <3>3
      <4> HIDE DEF a
      <4>2. x < a
        BY <4>1
      <4> QED BY <4>2 DEF a
    <3> QED BY <1>2, <3>4
  <2> QED BY <2>1, <2>2
<1>4. highbit32(x) = CHOOSE b \in 0..30 : Fits(b)
  BY DEF highbit32, Power
<1> DEFINE h == highbit32(x)
<1>5. h \in 0..30 /\ Fits(h)
  <2> HIDE DEF Fits
  <2> QED BY <1>3, <1>4, Zenon
<1> QED BY <1>5, Zenon

LEMMA HighbitIs ==
  ASSUME NEW x \in Nat \ {0}, NEW b \in 0..29, Power(b) <= x, x < Power(b + 1)
  PROVE  highbit32(x) = b
<1> DEFINE h == highbit32(x)
<1>1. h \in 0..30 /\ Power(h) <= x /\ (h = 30 \/ x < Power(h + 1))
  BY HighbitOf, Zenon
<1> HIDE DEF h
<1>2. /\ Power(b) \in Nat /\ Power(b + 1) \in Nat /\ Power(h) \in Nat
      /\ h # 30 => Power(h + 1) \in Nat
  BY <1>1, PowerNat
<1>3. ~(h < b)
  <2>1. h < b => h # 30 /\ Power(h + 1) <= Power(b)
    BY <1>1, PowerGrows
  <2> QED BY <1>1, <1>2, <2>1
<1>4. ~(b < h)
  <2>1. b < h => Power(b + 1) <= Power(h)
    BY <1>1, PowerGrows
  <2> QED BY <1>1, <1>2, <2>1
<1>5. h = b
  BY <1>1, <1>3, <1>4
<1> QED BY <1>5 DEF h

-----------------------------------------------------------------------------
(* Huffman: the ranges of the codes follow each other without a gap.       *)

Class(coded, w)  == {d \in coded : d.w = w}
Before(coded, c) == {d \in coded : d.w = c.w /\ d.symbol < c.symbol}
Widths(coded)    == [w \in 1..HUF_TABLELOG_MAX |-> Cardinality(Class(coded, w)) * Power(w - 1)]
InRange(coded, starts, c, u) ==
  /\ First(coded, starts, c) <= u
  /\ u < First(coded, starts, c) + Power(c.w - 1)

(* Symbols with weights, where each symbol is given once to a weight.      *)
Codes(coded) ==
  /\ \A c \in coded : c.w \in 1..HUF_TABLELOG_MAX /\ c.symbol \in Int
  /\ \A w \in 1..HUF_TABLELOG_MAX : IsFiniteSet(Class(coded, w))
  /\ \A c, d \in coded : c.w = d.w /\ c.symbol = d.symbol => c = d

LEMMA WidthsRun ==
  ASSUME NEW coded, Codes(coded)
  PROVE  /\ Widths(coded) \in [1..HUF_TABLELOG_MAX -> Nat]
         /\ Running(Starts(coded), Widths(coded), HUF_TABLELOG_MAX)
<1> DEFINE f == Widths(coded)
<1>1. ASSUME NEW w \in 1..HUF_TABLELOG_MAX
      PROVE  Cardinality(Class(coded, w)) * Power(w - 1) \in Nat
  <2>1. Cardinality(Class(coded, w)) \in Nat
    BY FS_CardinalityType DEF Codes
  <2>2. Power(w - 1) \in Nat
    BY PowerNat DEF HUF_TABLELOG_MAX
  <2> QED BY <2>1, <2>2
<1>2. f \in [1..HUF_TABLELOG_MAX -> Nat]
  BY <1>1 DEF Widths
<1>3. Starts(coded) = Sums(f, HUF_TABLELOG_MAX)
  BY DEF Starts, Widths, Class, Power
<1>4. HUF_TABLELOG_MAX \in Nat
  BY DEF HUF_TABLELOG_MAX
<1> HIDE DEF f
<1>5. Running(Starts(coded), f, HUF_TABLELOG_MAX)
  BY <1>2, <1>3, <1>4, SumsRun
<1> QED BY <1>2, <1>5 DEF f

(* The members of a class by their ranks.                                  *)
LEMMA ClassRanks ==
  ASSUME NEW coded, Codes(coded), NEW w \in 1..HUF_TABLELOG_MAX
  PROVE  LET n == Cardinality(Class(coded, w))
         IN  /\ n \in Nat
             /\ \A d \in Class(coded, w) : Cardinality(Before(coded, d)) \in 0..(n - 1)
             /\ \A q \in 0..(n - 1) : \E d \in Class(coded, w) : Cardinality(Before(coded, d)) = q
             /\ \A d, e \in Class(coded, w) :
                  Cardinality(Before(coded, d)) = Cardinality(Before(coded, e)) => d = e
<1> DEFINE D == Class(coded, w)
           key == [d \in D |-> d.symbol]
<1>1. IsFiniteSet(D)
  BY DEF Codes
<1>2. key \in [D -> Int]
  BY DEF Codes, Class
<1>3. \A d, e \in D : key[d] = key[e] => d = e
  BY DEF Codes, Class
<1>4. ASSUME NEW d \in D
      PROVE  Below(D, key, d) = Before(coded, d)
  BY DEF Below, Before, Class
<1> HIDE DEF D, key
<1>5. /\ Cardinality(D) \in Nat
      /\ \A d \in D : Cardinality(Below(D, key, d)) \in 0..(Cardinality(D) - 1)
      /\ \A q \in 0..(Cardinality(D) - 1) : \E d \in D : Cardinality(Below(D, key, d)) = q
      /\ \A d, e \in D : Cardinality(Below(D, key, d)) = Cardinality(Below(D, key, e)) => d = e
  BY <1>1, <1>2, <1>3, RankIs
<1>6. /\ Cardinality(D) \in Nat
      /\ \A d \in D : Cardinality(Before(coded, d)) \in 0..(Cardinality(D) - 1)
      /\ \A q \in 0..(Cardinality(D) - 1) : \E d \in D : Cardinality(Before(coded, d)) = q
      /\ \A d, e \in D : Cardinality(Before(coded, d)) = Cardinality(Before(coded, e)) => d = e
  BY <1>4, <1>5, Zenon
<1> QED BY <1>6 DEF D

(* A code's range lies within those of its weight, where its rank puts it. *)
LEMMA RangeAt ==
  ASSUME NEW coded, Codes(coded), NEW w \in 1..HUF_TABLELOG_MAX
  PROVE  LET s == Starts(coded)
             n == Cardinality(Class(coded, w))
             h == Power(w - 1)
         IN  /\ s[w - 1] \in Nat /\ s[w] = s[w - 1] + h * n /\ h \in Nat \ {0}
             /\ \A d \in Class(coded, w) :
                  First(coded, s, d) = s[w - 1] + h * Cardinality(Before(coded, d))
<1> DEFINE s == Starts(coded)
           n == Cardinality(Class(coded, w))
           h == Power(w - 1)
<1>1. h \in Nat \ {0}
  <2>1. w - 1 \in 0..30
    BY DEF HUF_TABLELOG_MAX
  <2> QED BY <2>1, PowerNat
<1>2. n \in Nat /\ \A d \in Class(coded, w) : Cardinality(Before(coded, d)) \in 0..(n - 1)
  BY ClassRanks
<1>3. s[w - 1] \in Nat /\ s[w] = s[w - 1] + n * h
  <2>1. Running(s, Widths(coded), HUF_TABLELOG_MAX)
    BY WidthsRun
  <2>2. w - 1 \in 0..HUF_TABLELOG_MAX
    BY DEF HUF_TABLELOG_MAX
  <2>3. Widths(coded)[w] = n * h
    BY DEF Widths
  <2> HIDE DEF s, n, h
  <2>4. s[w - 1] \in Nat /\ s[w] = s[w - 1] + Widths(coded)[w]
    BY <2>1, <2>2, Zenon DEF Running
  <2> QED BY <2>3, <2>4
<1>4. ASSUME NEW d \in Class(coded, w)
      PROVE  First(coded, s, d) = s[w - 1] + Cardinality(Before(coded, d)) * h
  BY DEF First, Before, Class, Power
<1>5. ASSUME NEW k \in Nat
      PROVE  k * h = h * k
  <2> HIDE DEF h
  <2> QED BY <1>1, Z3
<1>6. s[w] = s[w - 1] + h * n
  <2> HIDE DEF s, n, h
  <2>1. n * h = h * n
    BY <1>2, <1>5
  <2> QED BY <1>3, <2>1
<1>7. ASSUME NEW d \in Class(coded, w)
      PROVE  First(coded, s, d) = s[w - 1] + h * Cardinality(Before(coded, d))
  <2> HIDE DEF s, h
  <2> DEFINE k == Cardinality(Before(coded, d))
  <2>1. k \in Nat
    BY <1>2
  <2> HIDE DEF k
  <2>2. k * h = h * k
    BY <1>5, <2>1
  <2> QED BY <1>4, <2>2 DEF k
<1> HIDE DEF s, n, h
<1>8. /\ s[w - 1] \in Nat /\ s[w] = s[w - 1] + h * n /\ h \in Nat \ {0}
      /\ \A d \in Class(coded, w) :
           First(coded, s, d) = s[w - 1] + h * Cardinality(Before(coded, d))
  BY <1>1, <1>3, <1>6, <1>7
<1> QED BY <1>8 DEF s, n, h

(* A range holds a number only if its class does, at the class's quotient. *)
LEMMA InRangeAt ==
  ASSUME NEW coded, Codes(coded), NEW w \in 1..HUF_TABLELOG_MAX, NEW d \in Class(coded, w),
         NEW u \in Nat
  PROVE  LET s == Starts(coded)
             n == Cardinality(Class(coded, w))
             h == Power(w - 1)
         IN  /\ InRange(coded, s, d, u) <=>
                  s[w - 1] <= u /\ (u - s[w - 1]) \div h = Cardinality(Before(coded, d))
             /\ InRange(coded, s, d, u) => Takes(s, w, u)
<1> DEFINE s == Starts(coded)
           n == Cardinality(Class(coded, w))
           h == Power(w - 1)
           k == Cardinality(Before(coded, d))
           a == s[w - 1]
           b == s[w]
           v == First(coded, s, d)
<1>1. a \in Nat /\ b = a + h * n /\ h \in Nat \ {0} /\ v = a + h * k
  BY RangeAt
<1>2. n \in Nat /\ k \in 0..(n - 1)
  BY ClassRanks
<1>3. InRange(coded, s, d, u) <=> v <= u /\ u < v + h
  BY DEF InRange, Class
<1>4. Takes(s, w, u) <=> a <= u /\ u < b
  BY DEF Takes
<1> HIDE DEF s, n, h, k, a, b, v
<1>5. h * k \in Nat /\ h * n \in Nat /\ h * k + h <= h * n
  <2>1. h * (k + 1) <= h * n /\ h * (k + 1) \in Nat /\ h * n \in Nat
    BY <1>1, <1>2, TimesMono
  <2>2. h * (k + 1) = h * k + h * 1 /\ h * 1 = h /\ h * k \in Int
    BY <1>1, <1>2, Z3
  <2>3. h * k \in Nat
    BY <1>1, <1>2, Z3
  <2> QED BY <2>1, <2>2, <2>3
<1>6. InRange(coded, s, d, u) => a <= u /\ u < b
  BY <1>1, <1>3, <1>5
<1>7. ASSUME a <= u
      PROVE  (v <= u /\ u < v + h) <=> (u - a) \div h = k
  <2> DEFINE x == u - a
             q == x \div h
  <2>1. x \in Nat /\ u = a + x
    BY <1>1, <1>7
  <2> HIDE DEF x
  <2>2. (v <= u /\ u < v + h) <=> (h * k <= x /\ x < h * k + h)
    <3> DEFINE y == h * k
    <3>1. y \in Nat /\ v = a + y
      BY <1>1, <1>5
    <3> HIDE DEF y
    <3>2. (v <= u /\ u < v + h) <=> (y <= x /\ x < y + h)
      BY <1>1, <2>1, <3>1
    <3> QED BY <3>2 DEF y
  <2>3. h * k <= x /\ x < h * k + h => q = k
    BY <1>1, <1>2, <2>1, QuotientIs
  <2>4. q = k => h * k <= x /\ x < h * k + h
    <3>1. x = h * q + (x % h) /\ x % h \in 0..h - 1 /\ q \in Nat
      BY <1>1, <2>1, DivMod
    <3> DEFINE y == h * q
               z == x % h
    <3> HIDE DEF q
    <3>2. y \in Nat
      BY <1>1, <3>1, Z3
    <3>3. x = y + z /\ z \in 0..h - 1
      BY <3>1
    <3> HIDE DEF y, z
    <3>4. y <= x /\ x < y + h
      BY <1>1, <2>1, <3>2, <3>3
    <3> QED BY <3>4 DEF y
  <2> QED BY <2>2, <2>3, <2>4 DEF x
<1>8. InRange(coded, s, d, u) <=> a <= u /\ (u - a) \div h = k
  BY <1>3, <1>6, <1>7
<1>9. InRange(coded, s, d, u) => Takes(s, w, u)
  BY <1>4, <1>6
<1> QED BY <1>8, <1>9 DEF s, n, h, k, a, b, v

(* Every number below the end is in the range of exactly one code.         *)
LEMMA OneRange ==
  ASSUME NEW coded, Codes(coded), NEW u \in Nat, u < Starts(coded)[HUF_TABLELOG_MAX]
  PROVE  \E c \in coded : /\ InRange(coded, Starts(coded), c, u)
                         /\ \A d \in coded : InRange(coded, Starts(coded), d, u) => d = c
<1> DEFINE s == Starts(coded)
           N == HUF_TABLELOG_MAX
           Ok(c) == InRange(coded, s, c, u)
<1>1. N \in Nat /\ Widths(coded) \in [1..N -> Nat] /\ Running(s, Widths(coded), N)
  BY WidthsRun DEF HUF_TABLELOG_MAX
<1>2. u < s[N]
  OBVIOUS
<1>3. /\ \E i \in 1..N : Takes(s, i, u)
      /\ \A i, j \in 1..N : Takes(s, i, u) /\ Takes(s, j, u) => i = j
  <2> HIDE DEF s, N
  <2> QED BY <1>1, <1>2, TakerIs
<1>4. PICK w \in 1..N : Takes(s, w, u)
  BY <1>3, Zenon
<1> DEFINE n == Cardinality(Class(coded, w))
           h == Power(w - 1)
           a == s[w - 1]
           q == (u - a) \div h
<1>5. /\ n \in Nat
      /\ \A k \in 0..(n - 1) : \E d \in Class(coded, w) : Cardinality(Before(coded, d)) = k
      /\ \A d, e \in Class(coded, w) :
           Cardinality(Before(coded, d)) = Cardinality(Before(coded, e)) => d = e
  BY <1>4, ClassRanks
<1>6. a \in Nat /\ s[w] = a + h * n /\ h \in Nat \ {0}
  BY <1>4, RangeAt
<1>7. \A d \in Class(coded, w) : Ok(d) <=> a <= u /\ q = Cardinality(Before(coded, d))
  BY <1>4, InRangeAt
<1>8. a <= u /\ u < s[w]
  BY <1>4 DEF Takes
<1>9. q \in 0..(n - 1)
  <2> DEFINE x == u - a
  <2> HIDE DEF s, n, h, a
  <2>1. x \in Nat /\ x < h * n
    <3> DEFINE y == h * n
    <3>1. y \in Nat
      BY <1>5, <1>6, Z3
    <3>2. s[w] = a + y
      BY <1>6
    <3> HIDE DEF y
    <3>3. x \in Nat /\ x < y
      BY <1>6, <1>8, <3>1, <3>2
    <3> QED BY <3>3 DEF y
  <2> HIDE DEF x
  <2>2. x \div h \in Nat /\ x % h \in 0..h - 1 /\ x = h * (x \div h) + (x % h)
    BY <1>6, <2>1, DivMod
  <2> DEFINE r == x \div h
  <2>3. r \in Nat /\ h * r \in Nat /\ h * r <= x
    <3>1. h * r \in Nat
      BY <1>6, <2>2, Z3
    <3> QED BY <2>2, <3>1
  <2>4. ~(n <= r)
    <3> HIDE DEF r
    <3>1. n <= r => h * n <= h * r /\ h * n \in Nat
      BY <1>5, <1>6, <2>3, TimesMono
    <3> QED BY <2>1, <2>3, <3>1
  <2> HIDE DEF r
  <2>5. r \in 0..(n - 1)
    BY <1>5, <2>3, <2>4
  <2> QED BY <2>5 DEF r, x
<1>10. PICK c \in Class(coded, w) : Cardinality(Before(coded, c)) = q
  <2> HIDE DEF q, n
  <2> QED BY <1>5, <1>9, Zenon
<1>11. c \in coded /\ Ok(c)
  <2>1. c \in coded
    BY <1>10 DEF Class
  <2> HIDE DEF Ok, a, q
  <2> QED BY <1>7, <1>8, <1>10, <2>1, Zenon
<1>12. ASSUME NEW d \in coded, Ok(d)
       PROVE  d = c
  <2>1. d.w \in 1..N /\ d \in Class(coded, d.w)
    BY DEF Codes, Class
  <2>2. Takes(s, d.w, u)
    BY <1>12, <2>1, InRangeAt
  <2>3. d \in Class(coded, w)
    <3> HIDE DEF s, N
    <3> QED BY <1>3, <1>4, <2>1, <2>2, Zenon
  <2>4. Cardinality(Before(coded, d)) = q
    <3> HIDE DEF Ok, a, q
    <3> QED BY <1>7, <1>12, <2>3, Zenon
  <2> QED BY <1>5, <1>10, <2>3, <2>4, Zenon
<1> HIDE DEF Ok
<1>13. \E e \in coded : Ok(e) /\ \A d \in coded : Ok(d) => d = e
  BY <1>11, <1>12, Zenon
<1> QED BY <1>13, Zenon DEF Ok

(* The weights of a list, and the ranges of its symbols as it counts them. *)
Have(weights, w) == {i \in 1..Len(weights) : weights[i] = w}
Given(weights) ==
  [w \in 1..HUF_TABLELOG_MAX |-> Cardinality(Have(weights, w)) * Power(w - 1)]
Entry(weights, i)   == [symbol |-> i - 1, w |-> weights[i]]
LastOf(weights, l)  == [symbol |-> Len(weights), w |-> l]

(* The coded symbols are the listed ones of a weight, one for each, and    *)
(* the last.                                                               *)
LEMMA CodedClass ==
  ASSUME NEW weights \in Seq(Nat), NEW l \in 1..HUF_TABLELOG_MAX, NEW w \in 1..HUF_TABLELOG_MAX
  PROVE  LET D == Class(Coded(weights, l), w)
             I == Have(weights, w)
         IN  /\ IsFiniteSet(D) /\ IsFiniteSet(I)
             /\ Cardinality(D) = Cardinality(I) + (IF w = l THEN 1 ELSE 0)
<1> DEFINE I == Have(weights, w)
           R == {Entry(weights, i) : i \in I}
           D == Class(Coded(weights, l), w)
           z == LastOf(weights, l)
           g == [i \in I |-> Entry(weights, i)]
<1>1. Len(weights) \in Nat /\ \A i \in 1..Len(weights) : weights[i] \in Nat
  OBVIOUS
<1>2. IsFiniteSet(I)
  <2>1. IsFiniteSet(1..Len(weights))
    BY <1>1, FS_Interval
  <2>2. I \in SUBSET (1..Len(weights))
    BY DEF Have
  <2> HIDE DEF I
  <2> QED BY <2>1, <2>2, FS_Subset
<1>3. \A i \in I : i \in Int
  BY DEF Have
<1>4. g \in Bijection(I, R)
  <2>1. g \in [I -> R] /\ \A r \in R : \E i \in I : g[i] = r
    <3> HIDE DEF I
    <3> QED BY Zenon
  <2>2. \A i, j \in I : g[i] = g[j] => i = j
    <3> SUFFICES ASSUME NEW i \in I, NEW j \in I, g[i] = g[j]
                 PROVE  i = j
      OBVIOUS
    <3>1. g[i].symbol = i - 1 /\ g[j].symbol = j - 1
      BY DEF Entry
    <3>2. i - 1 = j - 1
      <4> HIDE DEF g
      <4> QED BY <3>1
    <3> QED BY <1>3, <3>2
  <2> HIDE DEF g, I, R
  <2>3. IsInjective(g)
    BY <2>1, <2>2 DEF IsInjective
  <2> QED BY <2>1, <2>3 DEF Bijection, Injection, Surjection
<1>5. IsFiniteSet(R) /\ Cardinality(R) = Cardinality(I)
  <2>1. ExistsBijection(I, R)
    BY <1>4 DEF ExistsBijection
  <2> HIDE DEF I, R
  <2> QED BY <1>2, <2>1, FS_Bijection
<1>6. D = R \cup (IF w = l THEN {z} ELSE {})
  <2>1. ASSUME NEW d \in D
        PROVE  d \in R \/ (w = l /\ d = z)
    <3>1. d \in Coded(weights, l) /\ d.w = w
      BY DEF Class
    <3>2. CASE d = z
      BY <3>1, <3>2 DEF LastOf
    <3>3. CASE d # z
      <4>1. PICK i \in {j \in 1..Len(weights) : weights[j] > 0} : d = Entry(weights, i)
        BY <3>1, <3>3, Zenon DEF Coded, Entry, LastOf
      <4>2. d.w = weights[i]
        BY <4>1 DEF Entry
      <4>3. i \in I
        BY <3>1, <4>1, <4>2 DEF Have
      <4> HIDE DEF I
      <4> QED BY <4>1, <4>3, Zenon
    <3> QED BY <3>2, <3>3, Zenon
  <2>2. ASSUME NEW d \in R
        PROVE  d \in D
    <3>1. PICK i \in I : d = Entry(weights, i)
      BY Zenon
    <3>2. i \in {j \in 1..Len(weights) : weights[j] > 0} /\ d.w = w
      BY <3>1 DEF Have, Entry
    <3>3. d \in Coded(weights, l)
      BY <3>1, <3>2, Zenon DEF Coded, Entry
    <3> QED BY <3>2, <3>3 DEF Class
  <2>3. ASSUME w = l
        PROVE  z \in D
    <3>1. z \in Coded(weights, l)
      BY Zenon DEF Coded, LastOf
    <3>2. z.w = w
      BY <2>3 DEF LastOf
    <3> QED BY <3>1, <3>2 DEF Class
  <2> HIDE DEF D, R, z
  <2> QED BY <2>1, <2>2, <2>3
<1>7. z \notin R
  <2> SUFFICES ASSUME NEW i \in I, z = Entry(weights, i)
               PROVE  FALSE
    <3> HIDE DEF z, I
    <3> QED BY Zenon
  <2>1. z.symbol = Len(weights) /\ Entry(weights, i).symbol = i - 1
    BY DEF LastOf, Entry
  <2>2. Len(weights) = i - 1
    <3> HIDE DEF z
    <3> QED BY <2>1
  <2>3. i \in 1..Len(weights)
    BY DEF Have
  <2> QED BY <1>1, <2>2, <2>3
<1> HIDE DEF I, R, D, z
<1>8. Cardinality(I) \in Nat
  BY <1>2, FS_CardinalityType
<1>9. IsFiniteSet(D) /\ Cardinality(D) = Cardinality(I) + (IF w = l THEN 1 ELSE 0)
  <2>1. CASE w = l
    <3>1. D = R \cup {z}
      BY <1>6, <2>1
    <3>2. IsFiniteSet(R \cup {z}) /\ Cardinality(R \cup {z}) = Cardinality(R) + 1
      BY <1>5, <1>7, FS_AddElement
    <3> QED BY <1>5, <2>1, <3>1, <3>2
  <2>2. CASE w # l
    <3>1. D = R
      BY <1>6, <2>2
    <3> QED BY <1>5, <1>8, <2>2, <3>1
  <2> QED BY <2>1, <2>2
<1> QED BY <1>2, <1>9 DEF I, D

LEMMA CodedCodes ==
  ASSUME NEW weights \in Seq(Nat), NEW l \in 1..HUF_TABLELOG_MAX,
         \A i \in 1..Len(weights) : weights[i] <= HUF_TABLELOG_MAX
  PROVE  Codes(Coded(weights, l))
<1> DEFINE coded == Coded(weights, l)
           J == {j \in 1..Len(weights) : weights[j] > 0}
<1>1. Len(weights) \in Nat /\ \A i \in 1..Len(weights) : weights[i] \in Nat
  OBVIOUS
<1>2. ASSUME NEW c \in coded
      PROVE  \/ c = LastOf(weights, l)
             \/ \E i \in J : c = Entry(weights, i)
  BY Zenon DEF Coded, Entry, LastOf
<1>3. ASSUME NEW i \in J
      PROVE  /\ Entry(weights, i).w \in 1..HUF_TABLELOG_MAX /\ Entry(weights, i).symbol = i - 1
             /\ i \in 1..Len(weights)
  <2>1. Entry(weights, i).w = weights[i] /\ Entry(weights, i).symbol = i - 1
    BY DEF Entry
  <2>2. i \in 1..Len(weights) /\ weights[i] > 0
    OBVIOUS
  <2>3. weights[i] \in Nat /\ weights[i] <= HUF_TABLELOG_MAX
    BY <1>1, <2>2
  <2>4. weights[i] \in 1..HUF_TABLELOG_MAX
    <3> DEFINE v == weights[i]
    <3>1. v > 0 /\ v \in Nat /\ v <= HUF_TABLELOG_MAX
      BY <2>2, <2>3
    <3> HIDE DEF v
    <3>2. v \in 1..HUF_TABLELOG_MAX
      BY <3>1 DEF HUF_TABLELOG_MAX
    <3> QED BY <3>2 DEF v
  <2> QED BY <2>1, <2>2, <2>4
<1>4. LastOf(weights, l).w = l /\ LastOf(weights, l).symbol = Len(weights)
  BY DEF LastOf
<1>5. ASSUME NEW c \in coded
      PROVE  c.w \in 1..HUF_TABLELOG_MAX /\ c.symbol \in Int
  <2>1. CASE c = LastOf(weights, l)
    BY <1>1, <1>4, <2>1
  <2>2. CASE \E i \in J : c = Entry(weights, i)
    <3>1. PICK i \in J : c = Entry(weights, i)
      BY <2>2, Zenon
    <3> QED BY <1>3, <3>1
  <2> QED BY <1>2, <2>1, <2>2, Zenon
<1>6. ASSUME NEW c \in coded, NEW d \in coded, c.symbol = d.symbol
      PROVE  c = d
  <2>1. CASE c = LastOf(weights, l)
    <3>1. d = LastOf(weights, l)
      <4> SUFFICES ASSUME NEW i \in J, d = Entry(weights, i)
                   PROVE  FALSE
        BY <1>2, Zenon
      <4> QED BY <1>1, <1>3, <1>4, <1>6, <2>1
    <3> QED BY <2>1, <3>1, Zenon
  <2>2. CASE \E i \in J : c = Entry(weights, i)
    <3>1. PICK i \in J : c = Entry(weights, i)
      BY <2>2, Zenon
    <3>2. CASE d = LastOf(weights, l)
      BY <1>1, <1>3, <1>4, <1>6, <3>1, <3>2
    <3>3. CASE \E j \in J : d = Entry(weights, j)
      <4>1. PICK j \in J : d = Entry(weights, j)
        BY <3>3, Zenon
      <4>2. i - 1 = j - 1 /\ i \in Int /\ j \in Int
        BY <1>3, <1>6, <3>1, <4>1
      <4>3. i = j
        BY <4>2
      <4> QED BY <3>1, <4>1, <4>3, Zenon
    <3> QED BY <1>2, <3>2, <3>3, Zenon
  <2> QED BY <1>2, <2>1, <2>2, Zenon
<1>7. \A w \in 1..HUF_TABLELOG_MAX : IsFiniteSet(Class(coded, w))
  BY CodedClass
<1> HIDE DEF coded
<1>8. Codes(coded)
  BY <1>5, <1>6, <1>7, Zenon DEF Codes
<1> QED BY <1>8 DEF coded

(* The last symbol takes what the listed ones leave of the table.          *)
LEMMA EndsAt ==
  ASSUME NEW weights \in Seq(Nat), NEW l \in 1..HUF_TABLELOG_MAX,
         \A i \in 1..Len(weights) : weights[i] <= HUF_TABLELOG_MAX
  PROVE  /\ TotalOf(weights) \in Nat
         /\ Starts(Coded(weights, l))[HUF_TABLELOG_MAX] = TotalOf(weights) + Power(l - 1)
<1> DEFINE N == HUF_TABLELOG_MAX
           f == Given(weights)
           p == Sums(f, N)
           coded == Coded(weights, l)
           g == Widths(coded)
           s == Starts(coded)
           h == Power(l - 1)
           S == {i \in 0..N : s[i] = p[i] + (IF i >= l THEN h ELSE 0)}
<1>1. N \in Nat /\ N \in 0..N
  BY DEF HUF_TABLELOG_MAX
<1>2. TotalOf(weights) = p[N]
  BY DEF TotalOf, Given, Have, Power
<1>3. f \in [1..N -> Nat]
  <2>1. ASSUME NEW w \in 1..N
        PROVE  Cardinality(Have(weights, w)) * Power(w - 1) \in Nat
    <3>1. Cardinality(Have(weights, w)) \in Nat
      BY CodedClass, FS_CardinalityType
    <3>2. Power(w - 1) \in Nat
      <4>1. w - 1 \in 0..30
        BY DEF HUF_TABLELOG_MAX
      <4> QED BY <4>1, PowerNat
    <3> QED BY <3>1, <3>2
  <2> QED BY <2>1 DEF Given
<1>4. Running(p, f, N)
  <2> HIDE DEF f, N
  <2> QED BY <1>1, <1>3, SumsRun
<1>5. Running(s, g, N)
  BY CodedCodes, WidthsRun
<1>6. ASSUME NEW w \in 1..N
      PROVE  f[w] \in Nat /\ g[w] = f[w] + (IF w = l THEN h ELSE 0)
  <2> DEFINE c == Cardinality(Have(weights, w))
             x == Power(w - 1)
  <2>1. Cardinality(Class(coded, w)) = c + (IF w = l THEN 1 ELSE 0) /\ c \in Nat
    BY CodedClass, FS_CardinalityType
  <2>2. f[w] = c * x
    BY DEF Given
  <2>3. g[w] = Cardinality(Class(coded, w)) * x
    BY DEF Widths
  <2>4. x \in Nat
    <3>1. w - 1 \in 0..30
      BY DEF HUF_TABLELOG_MAX
    <3> QED BY <3>1, PowerNat
  <2>5. w = l => x = h
    BY Zenon
  <2> HIDE DEF f, g, c, x, h
  <2>6. f[w] \in Nat
    BY <2>1, <2>2, <2>4
  <2>7. (c + 1) * x = c * x + x
    BY <2>1, <2>4, Z3
  <2>8. g[w] = f[w] + (IF w = l THEN h ELSE 0)
    <3>1. CASE w = l
      <4>1. g[w] = (c + 1) * x
        BY <2>1, <2>3, <3>1
      <4> QED BY <2>2, <2>5, <2>7, <3>1, <4>1
    <3>2. CASE w # l
      <4>1. g[w] = c * x
        BY <2>1, <2>3, <3>2
      <4> QED BY <2>2, <2>6, <3>2, <4>1
    <3> QED BY <3>1, <3>2
  <2> QED BY <2>6, <2>8
<1>7. h \in Nat /\ l \in 1..N
  <2>1. l - 1 \in 0..30
    BY DEF HUF_TABLELOG_MAX
  <2> QED BY <2>1, PowerNat
<1> HIDE DEF f, g, p, s, h, coded
<1>8. 0 \in S
  BY <1>1, <1>4, <1>5, <1>7 DEF Running
<1>9. ASSUME NEW i \in 1..N, i - 1 \in S
      PROVE  i \in S
  <2>1. p[i - 1] \in Nat /\ p[i] = p[i - 1] + f[i] /\ s[i] = s[i - 1] + g[i]
    <3>1. i - 1 \in 0..N
      BY <1>9
    <3> QED BY <1>4, <1>5, <3>1 DEF Running
  <2>2. s[i - 1] = p[i - 1] + (IF i - 1 >= l THEN h ELSE 0)
    BY <1>9
  <2>3. f[i] \in Nat /\ g[i] = f[i] + (IF i = l THEN h ELSE 0)
    BY <1>6
  <2>4. s[i] = p[i] + (IF i >= l THEN h ELSE 0)
    BY <1>7, <2>1, <2>2, <2>3
  <2> QED BY <2>4
<1>10. 0..N \subseteq S
  <2> HIDE DEF S, N
  <2> QED BY <1>1, <1>8, <1>9, UpTo, Zenon
<1>11. N \in S
  <2> HIDE DEF S, N
  <2> QED BY <1>1, <1>10
<1>12. s[N] = p[N] + h /\ p[N] \in Nat
  <2>1. s[N] = p[N] + (IF N >= l THEN h ELSE 0)
    BY <1>11
  <2>2. N >= l
    BY <1>7
  <2> QED BY <1>1, <1>4, <2>1, <2>2 DEF Running
<1> QED BY <1>2, <1>12 DEF s, h, coded

(* What is left is a power of two, and the last weight is its.             *)
LEMMA LastWeight ==
  ASSUME NEW weights \in Seq(Nat), NEW max_bits, max_bits = highbit32(TotalOf(weights)) + 1,
         TotalOf(weights) \in Nat, ~Refused(weights, max_bits)
  PROVE  LET left == 2^max_bits - TotalOf(weights)
             l == highbit32(left) + 1
         IN  /\ max_bits \in 1..HUF_TABLELOG_MAX /\ l \in 1..max_bits
             /\ TotalOf(weights) + Power(l - 1) = 2^max_bits
<1> DEFINE T == TotalOf(weights)
           h == highbit32(T)
           left == 2^max_bits - T
<1>1. T \in Nat \ {0} /\ ~(max_bits > HUF_TABLELOG_MAX)
  BY DEF Refused
<1>2. PICK b \in 0..max_bits : left = 2^b
  BY DEF Refused, IsPower
<1>3. h \in 0..30 /\ Power(h) <= T /\ (h = 30 \/ T < Power(h + 1))
  BY <1>1, HighbitOf, Zenon
<1> HIDE DEF T
<1>4. h \in 0..11 /\ max_bits = h + 1
  <2> HIDE DEF h
  <2>1. max_bits = h + 1
    BY DEF h, T
  <2> QED BY <1>1, <1>3, <2>1 DEF HUF_TABLELOG_MAX
<1> HIDE DEF h
<1>5. left = Power(max_bits) - T /\ left = Power(b) /\ 2^max_bits = Power(max_bits)
  BY <1>2 DEF Power
<1> HIDE DEF left
<1>6. Power(max_bits) = 2 * Power(h) /\ Power(h) \in Nat /\ Power(max_bits) \in Nat
  <2>1. h \in 0..29 /\ h \in 0..30 /\ max_bits \in 0..30
    <3>1. h + 1 \in 0..30 /\ h \in 0..29 /\ h \in 0..30
      BY <1>4
    <3> QED BY <1>4, <3>1, Zenon
  <2> QED BY <1>4, <2>1, PowerDoubles, PowerNat
<1>7. left <= Power(h) /\ b \in 0..max_bits /\ b \in 0..12
  BY <1>1, <1>2, <1>3, <1>4, <1>5, <1>6
<1>8. b <= h
  <2> SUFFICES ASSUME ~(b <= h)
               PROVE  FALSE
    OBVIOUS
  <2>1. b = max_bits
    BY <1>4, <1>7
  <2>2. Power(h) >= 1
    <3>1. h \in 0..30
      BY <1>4
    <3> QED BY <3>1, PowerNat
  <2>3. Power(max_bits) <= Power(h)
    BY <1>5, <1>7, <2>1
  <2> QED BY <1>6, <2>2, <2>3
<1>9. highbit32(left) = b
  <2>1. Power(b + 1) = 2 * Power(b) /\ Power(b) \in Nat /\ Power(b) >= 1
    <3>1. b \in 0..29 /\ b \in 0..30
      BY <1>7
    <3> QED BY <3>1, PowerDoubles, PowerNat
  <2>2. left \in Nat \ {0} /\ b \in 0..29 /\ Power(b) <= left /\ left < Power(b + 1)
    BY <1>5, <1>7, <2>1
  <2> QED BY <2>2, HighbitIs
<1>10. T + Power(b) = 2^max_bits
  BY <1>1, <1>5, <1>6
<1>11. /\ max_bits \in 1..HUF_TABLELOG_MAX /\ b + 1 \in 1..max_bits /\ (b + 1) - 1 = b
  BY <1>4, <1>7, <1>8 DEF HUF_TABLELOG_MAX
<1> QED BY <1>9, <1>10, <1>11 DEF T, left

(* No range reaches beyond the end, and none is the whole table where      *)
(* another one is shorter.                                                 *)
LEMMA RangeFits ==
  ASSUME NEW coded, Codes(coded), NEW d \in coded
  PROVE  /\ First(coded, Starts(coded), d) \in Nat /\ Power(d.w - 1) \in Nat \ {0}
         /\ First(coded, Starts(coded), d) + Power(d.w - 1) <= Starts(coded)[HUF_TABLELOG_MAX]
         /\ Starts(coded)[HUF_TABLELOG_MAX] \in Nat
<1> DEFINE s == Starts(coded)
           N == HUF_TABLELOG_MAX
           w == d.w
           h == Power(w - 1)
           k == Cardinality(Before(coded, d))
           v == First(coded, s, d)
           u == v + h - 1
<1>1. w \in 1..N /\ d \in Class(coded, w)
  BY DEF Codes, Class
<1>2. N \in Nat /\ Widths(coded) \in [1..N -> Nat] /\ Running(s, Widths(coded), N)
  BY WidthsRun DEF HUF_TABLELOG_MAX
<1>3. v \in Nat /\ h \in Nat \ {0}
  <2> DEFINE a == s[w - 1]
  <2>1. a \in Nat /\ h \in Nat \ {0} /\ v = a + h * k
    BY <1>1, RangeAt
  <2>2. k \in Nat
    BY <1>1, ClassRanks
  <2> HIDE DEF v, h, k, a
  <2> DEFINE y == h * k
  <2>3. y \in Nat
    BY <2>1, <2>2, Z3
  <2> HIDE DEF y
  <2>4. v = a + y
    BY <2>1 DEF y
  <2> QED BY <2>1, <2>3, <2>4
<1>4. u \in Nat /\ v <= u /\ u < v + h /\ u + 1 = v + h
  <2> HIDE DEF v, h
  <2> QED BY <1>3
<1> HIDE DEF u
<1>5. InRange(coded, s, d, u)
  BY <1>4 DEF InRange
<1>6. Takes(s, w, u)
  BY <1>1, <1>4, <1>5, InRangeAt
<1> HIDE DEF s, v, h, w, N
<1>7. s[w] <= s[N] /\ s[w] \in Nat /\ s[N] \in Nat
  <2>1. w \in 0..N /\ N \in 0..N /\ w <= N
    BY <1>1, <1>2
  <2>2. s[w] <= s[N]
    BY <1>2, <2>1, RunningGrows
  <2> QED BY <1>2, <2>1, <2>2 DEF Running
<1>8. v + h <= s[N]
  <2>1. u < s[w]
    BY <1>6 DEF Takes
  <2> QED BY <1>3, <1>4, <1>7, <2>1
<1> QED BY <1>3, <1>7, <1>8 DEF s, v, h, w, N

LEMMA ShorterThanAll ==
  ASSUME NEW coded, Codes(coded), NEW m \in 1..HUF_TABLELOG_MAX, NEW d \in coded,
         Starts(coded)[HUF_TABLELOG_MAX] = Power(m), NEW z \in coded, z.w <= m
  PROVE  d.w \in 1..m
<1> DEFINE s == Starts(coded)
           e == Power(m)
           v == First(coded, s, d)
           h == Power(d.w - 1)
           u == First(coded, s, z)
           g == Power(z.w - 1)
<1>1. d.w \in 1..HUF_TABLELOG_MAX /\ z.w \in 1..HUF_TABLELOG_MAX
  BY DEF Codes
<1>2. v \in Nat /\ h \in Nat \ {0} /\ v + h <= e /\ e \in Nat
  BY RangeFits
<1>3. u \in Nat /\ g \in Nat \ {0} /\ u + g <= e
  BY RangeFits
<1> SUFFICES ASSUME d.w > m PROVE FALSE
  BY <1>1 DEF HUF_TABLELOG_MAX
<1>4. e <= h
  <2>1. m \in 0..30 /\ d.w - 1 \in 0..30 /\ m <= d.w - 1
    BY <1>1 DEF HUF_TABLELOG_MAX
  <2> QED BY <2>1, PowerGrows
<1>5. InRange(coded, s, z, u)
  <2>1. u <= u /\ u < u + g
    <3> HIDE DEF u, g
    <3> QED BY <1>3
  <2> QED BY <2>1 DEF InRange
<1>6. InRange(coded, s, d, u)
  <2>1. v <= u /\ u < v + h
    <3> HIDE DEF u, g, v, h, e
    <3> QED BY <1>2, <1>3, <1>4
  <2> QED BY <2>1 DEF InRange
<1>7. u \in Nat /\ u < s[HUF_TABLELOG_MAX]
  <2>1. s[HUF_TABLELOG_MAX] = e
    OBVIOUS
  <2> HIDE DEF u, g, e, s
  <2> QED BY <1>2, <1>3, <2>1
<1>8. d = z
  <2> HIDE DEF u
  <2>1. \E c \in coded : /\ InRange(coded, s, c, u)
                        /\ \A x \in coded : InRange(coded, s, x, u) => x = c
    BY <1>7, OneRange
  <2> QED BY <1>5, <1>6, <2>1, Zenon
<1> QED BY <1>1, <1>8 DEF HUF_TABLELOG_MAX

(* What build_table promises of the table it makes from any weights.       *)
Fits(t) ==
  \A c \in t.ranges : /\ c.num_bits \in 1..t.max_bits /\ c.first \in Nat
                      /\ c.first + 2^(t.max_bits - c.num_bits) <= 2^t.max_bits
TablesComplete ==
  \A weights \in Seq(Nat) :
    build_table(weights) # None => Complete(build_table(weights)) /\ Fits(build_table(weights))

(* The table of some codes, and the ranges of it that hold a number.       *)
TableOf(coded, m) ==
  [max_bits |-> m, ranges |-> {[symbol |-> c.symbol, first |-> First(coded, Starts(coded), c),
                                num_bits |-> m + 1 - c.w] : c \in coded}]
Holding(t, u) == {r \in t.ranges : u \in Within(t, r)}

(* The ranges are those of the codes: each has its own.                    *)
LEMMA RangeCount ==
  ASSUME NEW coded, Codes(coded), NEW m \in 1..HUF_TABLELOG_MAX,
         NEW u \in Nat, u < Starts(coded)[HUF_TABLELOG_MAX]
  PROVE  Cardinality(Holding(TableOf(coded, m), u)) = 1
<1> DEFINE starts == Starts(coded)
           Range_(c) == [symbol |-> c.symbol, first |-> First(coded, starts, c),
                         num_bits |-> m + 1 - c.w]
           R == {Range_(c) : c \in coded}
           t == [max_bits |-> m, ranges |-> R]
           H == {r \in R : u \in Within(t, r)}
<1>1. ASSUME NEW c \in coded
      PROVE  u \in Within(t, Range_(c)) <=> InRange(coded, starts, c, u)
  <2> DEFINE v == First(coded, starts, c)
             h == Power(c.w - 1)
  <2>1. /\ t.max_bits = m /\ Range_(c).num_bits = m + 1 - c.w /\ Range_(c).first = v
    OBVIOUS
  <2>2. m \in Int /\ c.w \in Int /\ m - (m + 1 - c.w) = c.w - 1 /\ c.w \in 1..HUF_TABLELOG_MAX
    BY DEF HUF_TABLELOG_MAX, Codes
  <2>3. v \in Nat /\ h \in Nat \ {0}
    <3> DEFINE w == c.w
               k == Cardinality(Before(coded, c))
               a == Starts(coded)[w - 1]
    <3>1. w \in 1..HUF_TABLELOG_MAX /\ c \in Class(coded, w)
      BY DEF Codes, Class
    <3>2. a \in Nat /\ h \in Nat \ {0} /\ v = a + h * k
      BY <3>1, RangeAt
    <3>3. k \in Nat
      BY <3>1, ClassRanks
    <3> HIDE DEF v, h, k, a
    <3>4. h * k \in Nat
      BY <3>2, <3>3, Z3
    <3> DEFINE y == h * k
    <3> HIDE DEF y
    <3>5. v = a + y /\ y \in Nat
      BY <3>2, <3>4 DEF y
    <3> QED BY <3>2, <3>5
  <2>4. Within(t, Range_(c)) = v..(v + h - 1)
    BY <2>1, <2>2 DEF Within, Power
  <2>5. InRange(coded, starts, c, u) <=> v <= u /\ u < v + h
    BY DEF InRange
  <2> HIDE DEF v, h
  <2> QED BY <2>3, <2>4, <2>5
<1>2. PICK c \in coded : /\ InRange(coded, starts, c, u)
                         /\ \A d \in coded : InRange(coded, starts, d, u) => d = c
  BY OneRange
<1> HIDE DEF t
<1>3. H = {Range_(c)}
  <2> HIDE DEF Range_
  <2> QED BY <1>1, <1>2
<1>4. Cardinality({Range_(c)}) = 1
  <2> HIDE DEF Range_
  <2> QED BY FS_Singleton
<1>5. Cardinality(H) = 1
  <2> HIDE DEF H, Range_
  <2> QED BY <1>3, <1>4
<1>6. t = TableOf(coded, m)
  BY DEF t, TableOf
<1>7. t.ranges = R
  BY DEF t
<1>8. Holding(t, u) = H
  BY <1>7, Zenon DEF Holding
<1> HIDE DEF H
<1> QED BY <1>5, <1>6, <1>8

(* A table built from any weights is complete: every entry is in the range *)
(* of exactly one symbol, no range reaches beyond the table (the error     *)
(* "huffman table overflow" cannot occur), and every code takes a bit at   *)
(* least and no more than a lookup peeks (build_table, src/huff.rs).       *)
THEOREM TablesAreComplete == TablesComplete
<1> SUFFICES ASSUME NEW weights \in Seq(Nat), build_table(weights) # None
             PROVE  Complete(build_table(weights)) /\ Fits(build_table(weights))
  BY DEF TablesComplete
<1> DEFINE max_bits == highbit32(TotalOf(weights)) + 1
           left     == 2^max_bits - TotalOf(weights)
           l        == highbit32(left) + 1
           coded    == Coded(weights, l)
           t        == TableOf(coded, max_bits)
<1>1. ~Refused(weights, max_bits) /\ build_table(weights) = t
  BY DEF build_table, TableOf
<1>2. \A i \in 1..Len(weights) : weights[i] <= HUF_TABLELOG_MAX
  <2>1. \A i \in 1..Len(weights) : weights[i] \in Nat /\ ~(weights[i] > HUF_TABLELOG_MAX)
    BY <1>1 DEF Refused
  <2> QED BY <2>1 DEF HUF_TABLELOG_MAX
<1>3. TotalOf(weights) \in Nat
  <2>1. 1 \in 1..HUF_TABLELOG_MAX
    BY DEF HUF_TABLELOG_MAX
  <2> QED BY <1>2, <2>1, EndsAt
<1>4. /\ max_bits \in 1..HUF_TABLELOG_MAX /\ l \in 1..max_bits
      /\ TotalOf(weights) + Power(l - 1) = 2^max_bits
  BY <1>1, <1>3, LastWeight
<1> HIDE DEF max_bits, l
<1>5. l \in 1..HUF_TABLELOG_MAX
  BY <1>4 DEF HUF_TABLELOG_MAX
<1>6. Codes(coded) /\ Starts(coded)[HUF_TABLELOG_MAX] = 2^max_bits
  BY <1>2, <1>4, <1>5, CodedCodes, EndsAt
<1>7. 2^max_bits \in Nat
  <2>1. max_bits \in 0..30
    BY <1>4 DEF HUF_TABLELOG_MAX
  <2> QED BY <2>1, PowerNat DEF Power
<1> HIDE DEF coded
<1>8. ASSUME NEW u \in 0..(2^max_bits - 1)
      PROVE  Cardinality(Holding(t, u)) = 1
  <2>1. u \in Nat /\ u < Starts(coded)[HUF_TABLELOG_MAX]
    BY <1>6, <1>7
  <2>2. max_bits \in 1..HUF_TABLELOG_MAX /\ Codes(coded)
    BY <1>4, <1>6, Zenon
  <2> QED BY <2>1, <2>2, RangeCount, Zenon
<1>9. t.max_bits = max_bits
  BY DEF TableOf
<1>11. Fits(t)
  <2> DEFINE Range_(c) == [symbol |-> c.symbol, first |-> First(coded, Starts(coded), c),
                           num_bits |-> max_bits + 1 - c.w]
  <2>1. ASSUME NEW c \in coded
        PROVE  LET r == Range_(c)
               IN  /\ r.num_bits \in 1..max_bits /\ r.first \in Nat
                   /\ r.first + 2^(max_bits - r.num_bits) <= 2^max_bits
    <3> DEFINE r == Range_(c)
               z == LastOf(weights, l)
    <3>1. z \in coded /\ z.w <= max_bits
      <4>1. z \in coded
        BY Zenon DEF coded, Coded, LastOf
      <4>2. z.w = l
        BY DEF LastOf
      <4> HIDE DEF z
      <4>3. l <= max_bits
        BY <1>4 DEF HUF_TABLELOG_MAX
      <4> QED BY <4>1, <4>2, <4>3
    <3>2. Starts(coded)[HUF_TABLELOG_MAX] = Power(max_bits)
      BY <1>6 DEF Power
    <3>3. c.w \in 1..max_bits
      <4> HIDE DEF z
      <4> QED BY <1>4, <1>6, <3>1, <3>2, ShorterThanAll
    <3>4. /\ First(coded, Starts(coded), c) \in Nat
          /\ First(coded, Starts(coded), c) + Power(c.w - 1) <= Power(max_bits)
      BY <1>6, <3>2, RangeFits
    <3>5. r.first = First(coded, Starts(coded), c) /\ r.num_bits = max_bits + 1 - c.w
      OBVIOUS
    <3> HIDE DEF r
    <3>6. r.num_bits \in 1..max_bits /\ max_bits - r.num_bits = c.w - 1
      BY <1>4, <3>3, <3>5 DEF HUF_TABLELOG_MAX
    <3>7. 2^(max_bits - r.num_bits) = Power(c.w - 1) /\ 2^max_bits = Power(max_bits)
      BY <3>6 DEF Power
    <3>8. r.first \in Nat /\ r.first + 2^(max_bits - r.num_bits) <= 2^max_bits
      BY <3>4, <3>5, <3>7
    <3> QED BY <3>6, <3>8 DEF r
  <2>2. t.ranges = {Range_(c) : c \in coded}
    BY DEF TableOf
  <2> HIDE DEF t, Range_
  <2> QED BY <1>9, <2>1, <2>2 DEF Fits
<1> HIDE DEF t
<1>10. Complete(t)
  <2>1. Complete(t) <=> /\ t.max_bits \in 1..HUF_TABLELOG_MAX
                        /\ \A u \in 0..(2^t.max_bits - 1) : Cardinality(Holding(t, u)) = 1
    BY Zenon DEF Complete, Holding
  <2> QED BY <1>4, <1>8, <1>9, <2>1, Zenon
<1> QED BY <1>1, <1>10, <1>11, Zenon

-----------------------------------------------------------------------------
(* FSE: the encoder's and the decoder's table of the same counts.          *)

(* A sequence written out is itself.                                       *)
LEMMA ListedIs ==
  ASSUME NEW n \in Nat, NEW r, DOMAIN r = 1..n, r = [i \in 1..n |-> r[i]]
  PROVE  Listed(r) = r /\ Len(r) = n
<1> DEFINE S == {r[i] : i \in 1..n}
<1>1. r \in [1..n -> S]
  <2>1. \A i \in 1..n : r[i] \in S
    BY Zenon
  <2> HIDE DEF S
  <2> QED BY <2>1
<1> HIDE DEF S
<1>2. r \in Seq(S) /\ Len(r) = n
  BY <1>1
<1> QED BY <1>2, WholeSeq DEF Listed

LEMMA PowerSum ==
  ASSUME NEW a \in 0..15, NEW b \in 0..15
  PROVE  Power(a + b) = Power(a) * Power(b)
<1> DEFINE S == {k \in 0..15 : Power(a + k) = Power(a) * Power(k)}
<1>1. Power(a) \in Nat
  BY PowerNat
<1>2. 0 \in S
  BY <1>1, PowerValues
<1>3. ASSUME NEW k \in 1..15, k - 1 \in S
      PROVE  k \in S
  <2> DEFINE i == k - 1
  <2>1. i \in 0..29 /\ a + i \in 0..29 /\ k = i + 1 /\ a + k = (a + i) + 1 /\ i \in 0..30
    OBVIOUS
  <2>2. Power(a + i) = Power(a) * Power(i)
    BY <1>3
  <2> HIDE DEF i
  <2>3. Power(k) = 2 * Power(i) /\ Power(a + k) = 2 * Power(a + i) /\ Power(i) \in Nat
    BY <2>1, PowerDoubles, PowerNat
  <2>4. ASSUME NEW x \in Nat, NEW y \in Nat
        PROVE  2 * (x * y) = x * (2 * y)
    BY Z3
  <2>5. 2 * (Power(a) * Power(i)) = Power(a) * (2 * Power(i))
    BY <1>1, <2>3, <2>4
  <2>6. Power(a + k) = Power(a) * Power(k)
    BY <2>2, <2>3, <2>5, Zenon
  <2> QED BY <2>6
<1>4. 0..15 \subseteq S
  <2>1. 15 \in Nat
    OBVIOUS
  <2> HIDE DEF S
  <2> QED BY <1>2, <1>3, <2>1, UpTo
<1> QED BY <1>4

(* The logs of the tables; the walk's step has an inverse for each.        *)
TableLogs == {0} \cup 5..15
Inverts(step, size, inv, j) == step * inv = 1 + size * j

LEMMA StepInverse ==
  ASSUME NEW log \in TableLogs
  PROVE  /\ Step(2^log) \in Nat /\ 2^log \in Nat \ {0}
         /\ \E inv, j \in Nat : Inverts(Step(2^log), 2^log, inv, j)
<1>0. CASE log = 0
  <2>1. 2^log = 1
    BY <1>0
  <2>2. Step(1) = 3
    BY DEF Step
  <2> DEFINE inv == 1
             j == 2
  <2>3. inv \in Nat /\ j \in Nat
    OBVIOUS
  <2>4. Inverts(Step(2^log), 2^log, inv, j) /\ Step(2^log) \in Nat /\ 2^log \in Nat \ {0}
    BY <2>1, <2>2 DEF Inverts
  <2> HIDE DEF inv, j
  <2> QED BY ONLY <2>3, <2>4, Zenon
<1>5. CASE log = 5
  <2>1. 2^log = 32
    BY <1>5
  <2>2. Step(32) = 23
    BY DEF Step
  <2> DEFINE inv == 7
             j == 5
  <2>3. inv \in Nat /\ j \in Nat
    OBVIOUS
  <2>4. Inverts(Step(2^log), 2^log, inv, j) /\ Step(2^log) \in Nat /\ 2^log \in Nat \ {0}
    BY <2>1, <2>2 DEF Inverts
  <2> HIDE DEF inv, j
  <2> QED BY ONLY <2>3, <2>4, Zenon
<1>6. CASE log = 6
  <2>1. 2^log = 64
    BY <1>6
  <2>2. Step(64) = 43
    BY DEF Step
  <2> DEFINE inv == 3
             j == 2
  <2>3. inv \in Nat /\ j \in Nat
    OBVIOUS
  <2>4. Inverts(Step(2^log), 2^log, inv, j) /\ Step(2^log) \in Nat /\ 2^log \in Nat \ {0}
    BY <2>1, <2>2 DEF Inverts
  <2> HIDE DEF inv, j
  <2> QED BY ONLY <2>3, <2>4, Zenon
<1>7. CASE log = 7
  <2>1. 2^log = 128
    BY <1>7
  <2>2. Step(128) = 83
    BY DEF Step
  <2> DEFINE inv == 91
             j == 59
  <2>3. inv \in Nat /\ j \in Nat
    OBVIOUS
  <2>4. Inverts(Step(2^log), 2^log, inv, j) /\ Step(2^log) \in Nat /\ 2^log \in Nat \ {0}
    BY <2>1, <2>2 DEF Inverts
  <2> HIDE DEF inv, j
  <2> QED BY ONLY <2>3, <2>4, Zenon
<1>8. CASE log = 8
  <2>1. 2^log = 256
    BY <1>8
  <2>2. Step(256) = 163
    BY DEF Step
  <2> DEFINE inv == 11
             j == 7
  <2>3. inv \in Nat /\ j \in Nat
    OBVIOUS
  <2>4. Inverts(Step(2^log), 2^log, inv, j) /\ Step(2^log) \in Nat /\ 2^log \in Nat \ {0}
    BY <2>1, <2>2 DEF Inverts
  <2> HIDE DEF inv, j
  <2> QED BY ONLY <2>3, <2>4, Zenon
<1>9. CASE log = 9
  <2>1. 2^log = 512
    BY <1>9
  <2>2. Step(512) = 323
    BY DEF Step
  <2> DEFINE inv == 363
             j == 229
  <2>3. inv \in Nat /\ j \in Nat
    OBVIOUS
  <2>4. Inverts(Step(2^log), 2^log, inv, j) /\ Step(2^log) \in Nat /\ 2^log \in Nat \ {0}
    BY <2>1, <2>2 DEF Inverts
  <2> HIDE DEF inv, j
  <2> QED BY ONLY <2>3, <2>4, Zenon
<1>10. CASE log = 10
  <2>1. 2^log = 1024
    BY <1>10
  <2>2. Step(1024) = 643
    BY DEF Step
  <2> DEFINE inv == 43
             j == 27
  <2>3. inv \in Nat /\ j \in Nat
    OBVIOUS
  <2>4. Inverts(Step(2^log), 2^log, inv, j) /\ Step(2^log) \in Nat /\ 2^log \in Nat \ {0}
    BY <2>1, <2>2 DEF Inverts
  <2> HIDE DEF inv, j
  <2> QED BY ONLY <2>3, <2>4, Zenon
<1>11. CASE log = 11
  <2>1. 2^log = 2048
    BY <1>11
  <2>2. Step(2048) = 1283
    BY DEF Step
  <2> DEFINE inv == 1451
             j == 909
  <2>3. inv \in Nat /\ j \in Nat
    OBVIOUS
  <2>4. Inverts(Step(2^log), 2^log, inv, j) /\ Step(2^log) \in Nat /\ 2^log \in Nat \ {0}
    BY <2>1, <2>2 DEF Inverts
  <2> HIDE DEF inv, j
  <2> QED BY ONLY <2>3, <2>4, Zenon
<1>12. CASE log = 12
  <2>1. 2^log = 4096
    BY <1>12
  <2>2. Step(4096) = 2563
    BY DEF Step
  <2> DEFINE inv == 171
             j == 107
  <2>3. inv \in Nat /\ j \in Nat
    OBVIOUS
  <2>4. Inverts(Step(2^log), 2^log, inv, j) /\ Step(2^log) \in Nat /\ 2^log \in Nat \ {0}
    BY <2>1, <2>2 DEF Inverts
  <2> HIDE DEF inv, j
  <2> QED BY ONLY <2>3, <2>4, Zenon
<1>13. CASE log = 13
  <2>1. 2^log = 8192
    BY <1>13
  <2>2. Step(8192) = 5123
    BY DEF Step
  <2> DEFINE inv == 5803
             j == 3629
  <2>3. inv \in Nat /\ j \in Nat
    OBVIOUS
  <2>4. Inverts(Step(2^log), 2^log, inv, j) /\ Step(2^log) \in Nat /\ 2^log \in Nat \ {0}
    BY <2>1, <2>2 DEF Inverts
  <2> HIDE DEF inv, j
  <2> QED BY ONLY <2>3, <2>4, Zenon
<1>14. CASE log = 14
  <2>1. 2^log = 16384
    BY <1>14
  <2>2. Step(16384) = 10243
    BY DEF Step
  <2> DEFINE inv == 683
             j == 427
  <2>3. inv \in Nat /\ j \in Nat
    OBVIOUS
  <2>4. Inverts(Step(2^log), 2^log, inv, j) /\ Step(2^log) \in Nat /\ 2^log \in Nat \ {0}
    BY <2>1, <2>2 DEF Inverts
  <2> HIDE DEF inv, j
  <2> QED BY ONLY <2>3, <2>4, Zenon
<1>15. CASE log = 15
  <2>1. 2^log = 32768
    BY <1>15
  <2>2. Step(32768) = 20483
    BY DEF Step
  <2> DEFINE inv == 23211
             j == 14509
  <2>3. inv \in Nat /\ j \in Nat
    OBVIOUS
  <2>4. Inverts(Step(2^log), 2^log, inv, j) /\ Step(2^log) \in Nat /\ 2^log \in Nat \ {0}
    BY <2>1, <2>2 DEF Inverts
  <2> HIDE DEF inv, j
  <2> QED BY ONLY <2>3, <2>4, Zenon
<1> QED BY <1>0, <1>5, <1>6, <1>7, <1>8, <1>9, <1>10, <1>11, <1>12, <1>13, <1>14, <1>15 DEF TableLogs

(* A step with an inverse takes different turns to different cells.        *)
LEMMA StepInjective ==
  ASSUME NEW size \in Nat \ {0}, NEW step \in Nat, NEW inv \in Nat, NEW j \in Nat,
         step * inv = 1 + size * j,
         NEW a \in 0..(size - 1), NEW b \in 0..(size - 1),
         (a * step) % size = (b * step) % size
  PROVE  a = b
<1> DEFINE x  == a * step
           y  == b * step
           qx == x \div size
           qy == y \div size
           d  == a - b
           m  == qx - qy
           e  == m * inv - d * j
<1>1. x \in Nat /\ y \in Nat /\ d \in Int /\ x - y = d * step
  <2>1. x \in Nat /\ y \in Nat
    BY Z3
  <2>2. a * step - b * step = (a - b) * step
    BY Z3
  <2> QED BY <2>1, <2>2
<1>2. /\ qx \in Nat /\ x = size * qx + (x % size)
      /\ qy \in Nat /\ y = size * qy + (y % size)
      /\ x % size \in Nat
  <2> HIDE DEF x, y
  <2> QED BY <1>1, DivMod
<1>3. x % size = y % size
  OBVIOUS
<1>4. d * step = size * m /\ m \in Int
  <2> HIDE DEF x, y, d
  <2>1. m \in Int
    BY <1>2
  <2> HIDE DEF qx, qy
  <2>2. size * (qx - qy) = size * qx - size * qy /\ size * qx \in Int /\ size * qy \in Int
    BY <1>2, Z3
  <2>3. x - y = size * qx - size * qy
    <3> DEFINE u == size * qx
               v == size * qy
               r == x % size
    <3>1. x = u + r /\ y = v + r /\ u \in Int /\ v \in Int /\ r \in Int
      BY <1>2, <1>3, <2>2
    <3> HIDE DEF u, v, r
    <3>2. x - y = u - v
      BY <3>1
    <3> QED BY <3>2 DEF u, v
  <2> QED BY <1>1, <2>1, <2>2, <2>3
<1> HIDE DEF m
<1>5. d = size * e /\ e \in Int
  <2> HIDE DEF d
  <2>1. (d * step) * inv = d * (step * inv)
    BY <1>1, Z3
  <2>2. d * (1 + size * j) = d + size * (d * j)
    BY <1>1, Z3
  <2>3. (size * m) * inv = size * (m * inv)
    BY <1>4, Z3
  <2>4. d + size * (d * j) = size * (m * inv)
    BY <1>4, <2>1, <2>2, <2>3, Zenon
  <2>5. m * inv \in Int /\ d * j \in Int
    BY <1>1, <1>4, Z3
  <2> DEFINE u == m * inv
             v == d * j
  <2> HIDE DEF u, v
  <2>6. size * (u - v) = size * u - size * v /\ size * u \in Int /\ size * v \in Int
    BY <2>5, Z3 DEF u, v
  <2>7. d = size * u - size * v
    <3>1. d + size * v = size * u
      BY <2>4 DEF u, v
    <3> DEFINE p == size * u
               q == size * v
    <3>2. d + q = p /\ p \in Int /\ q \in Int
      BY <2>6, <3>1
    <3> HIDE DEF p, q
    <3>3. d = p - q
      BY <1>1, <3>2
    <3> QED BY <3>3 DEF p, q
  <2>8. d = size * (u - v) /\ u - v \in Int
    BY <2>5, <2>6, <2>7 DEF u, v
  <2> QED BY <2>8 DEF u, v
<1> HIDE DEF e
<1>6. d < size /\ -size < d
  OBVIOUS
<1>7. e = 0
  <2> HIDE DEF d
  <2>1. e >= 1 => size * e >= size
    BY <1>5, Z3
  <2>2. e <= -1 => size * e <= -size
    BY <1>5, Z3
  <2> QED BY <1>1, <1>5, <1>6, <2>1, <2>2
<1>8. d = 0
  <2> HIDE DEF d
  <2>1. size * 0 = 0
    OBVIOUS
  <2> QED BY <1>5, <1>7, <2>1
<1> QED BY <1>8

(* The walk comes by every cell once.                                      *)
LEMMA WalkIs ==
  ASSUME NEW log \in TableLogs
  PROVE  LET size == 2^log
             walk == Walk(size)
         IN  /\ size \in Nat \ {0} /\ Len(walk) = size
             /\ \A k \in 1..size : walk[k] \in 0..(size - 1)
             /\ \A k, l \in 1..size : walk[k] = walk[l] => k = l
             /\ \A cell \in 0..(size - 1) :
                  Turn(walk, cell) \in 1..size /\ walk[Turn(walk, cell)] = cell
<1> DEFINE size == 2^log
           step == Step(size)
           r == [k \in 1..size |-> ((k - 1) * step) % size]
           walk == Walk(size)
<1>1. /\ step \in Nat /\ size \in Nat \ {0}
      /\ \E inv, j \in Nat : Inverts(step, size, inv, j)
  BY StepInverse, Zenon
<1>2. walk = Listed(r)
  BY DEF Walk
<1> HIDE DEF size, step, walk
<1>3. walk = r /\ Len(walk) = size
  <2>1. DOMAIN r = 1..size /\ r = [k \in 1..size |-> r[k]]
    OBVIOUS
  <2>2. size \in Nat
    BY <1>1
  <2> HIDE DEF r
  <2>3. Listed(r) = r /\ Len(r) = size
    BY <2>1, <2>2, ListedIs
  <2> QED BY <1>2, <2>3, Zenon
<1>4. ASSUME NEW k \in 1..size
      PROVE  walk[k] = ((k - 1) * step) % size /\ walk[k] \in 0..(size - 1)
  <2>1. walk[k] = ((k - 1) * step) % size
    BY <1>3
  <2>2. k - 1 \in Nat
    BY <1>1
  <2> DEFINE a == (k - 1) * step
  <2>3. a \in Nat
    BY <1>1, <2>2, Z3
  <2> HIDE DEF a
  <2>4. a % size \in 0..(size - 1)
    BY <1>1, <2>3, DivMod
  <2> QED BY <2>1, <2>4 DEF a
<1>5. ASSUME NEW k \in 1..size, NEW l \in 1..size, walk[k] = walk[l]
      PROVE  k = l
  <2> DEFINE a == k - 1
             b == l - 1
  <2>1. a \in 0..(size - 1) /\ b \in 0..(size - 1)
    BY <1>1
  <2>2. (a * step) % size = (b * step) % size
    BY <1>4, <1>5
  <2>3. PICK inv \in Nat, j \in Nat : step * inv = 1 + size * j
    BY <1>1 DEF Inverts
  <2> HIDE DEF a, b
  <2>4. a = b
    BY <1>1, <2>1, <2>2, <2>3, StepInjective
  <2> QED BY <1>1, <2>4 DEF a, b
<1> DEFINE T == 0..(size - 1)
           f == [k \in 1..size |-> walk[k]]
<1>6. f \in Injection(1..size, T)
  <2>1. f \in [1..size -> T]
    BY <1>4
  <2>2. \A k, l \in 1..size : f[k] = f[l] => k = l
    BY <1>5
  <2> HIDE DEF f, T
  <2>3. IsInjective(f)
    BY <2>1, <2>2 DEF IsInjective
  <2> QED BY <2>1, <2>3 DEF Injection
<1>7. /\ IsFiniteSet(1..size) /\ IsFiniteSet(T) /\ Cardinality(1..size) = Cardinality(T)
  <2>1. IsFiniteSet(0..(size - 1)) /\ Cardinality(0..(size - 1)) = IF 0 > size - 1 THEN 0 ELSE size - 1 - 0 + 1
    BY <1>1, FS_Interval
  <2>2. IsFiniteSet(1..size) /\ Cardinality(1..size) = IF 1 > size THEN 0 ELSE size - 1 + 1
    BY <1>1, FS_Interval
  <2> QED BY <1>1, <2>1, <2>2
<1>8. f \in Surjection(1..size, T)
  <2> HIDE DEF f, T
  <2> QED BY <1>6, <1>7, FS_Injection
<1>9. ASSUME NEW cell \in 0..(size - 1)
      PROVE  Turn(walk, cell) \in 1..size /\ walk[Turn(walk, cell)] = cell
  <2>1. \E k \in 1..size : walk[k] = cell
    <3>1. \E k \in 1..size : f[k] = cell
      <4> HIDE DEF f
      <4> QED BY <1>8 DEF Surjection
    <3> QED BY <3>1
  <2>2. Turn(walk, cell) = CHOOSE k \in 1..size : walk[k] = cell
    BY <1>3, Zenon DEF Turn
  <2> QED BY <2>1, <2>2, Zenon
<1>10. /\ size \in Nat \ {0} /\ Len(walk) = size
       /\ \A k \in 1..size : walk[k] \in 0..(size - 1)
       /\ \A k, l \in 1..size : walk[k] = walk[l] => k = l
       /\ \A cell \in 0..(size - 1) :
            Turn(walk, cell) \in 1..size /\ walk[Turn(walk, cell)] = cell
  BY <1>1, <1>3, <1>4, <1>5, <1>9, Zenon
<1> QED BY <1>10 DEF size, walk

(* Each cell up to a limit has a place of its own among them, in the order *)
(* of the walk.                                                            *)
LEMMA PlaceIs ==
  ASSUME NEW log \in TableLogs, NEW high \in Int, -1 <= high, high < 2^log,
         NEW q \in 0..high
  PROVE  \E cell \in 0..high :
           Cardinality(Taken(Walk(2^log), high, Turn(Walk(2^log), cell))) = q
<1> DEFINE size == 2^log
           walk == Walk(size)
           V == {j \in 1..size : walk[j] <= high}
           f == [j \in V |-> walk[j]]
           key == [j \in V |-> j]
<1>1. /\ size \in Nat \ {0}
      /\ \A k \in 1..size : walk[k] \in 0..(size - 1)
      /\ \A k, l \in 1..size : walk[k] = walk[l] => k = l
      /\ \A cell \in 0..(size - 1) :
           Turn(walk, cell) \in 1..size /\ walk[Turn(walk, cell)] = cell
  BY WalkIs, Zenon
<1>2. high < size
  OBVIOUS
<1> HIDE DEF size, walk
<1>3. f \in Bijection(V, 0..high)
  <2>1. f \in [V -> 0..high]
    BY <1>1
  <2>2. \A k, l \in V : f[k] = f[l] => k = l
    BY <1>1
  <2>3. \A c \in 0..high : \E k \in V : f[k] = c
    <3> SUFFICES ASSUME NEW c \in 0..high
                 PROVE  \E k \in V : f[k] = c
      OBVIOUS
    <3> DEFINE k == Turn(walk, c)
    <3>1. c \in 0..(size - 1) /\ c <= high
      BY <1>1, <1>2
    <3>2. k \in 1..size /\ walk[k] = c
      BY <1>1, <3>1
    <3> HIDE DEF k
    <3>3. k \in V /\ f[k] = c
      BY <3>1, <3>2
    <3> QED BY <3>3
  <2> HIDE DEF f, V
  <2>4. IsInjective(f)
    BY <2>1, <2>2 DEF IsInjective
  <2> QED BY <2>1, <2>3, <2>4 DEF Bijection, Injection, Surjection
<1>4. IsFiniteSet(V) /\ Cardinality(V) = high + 1
  <2>1. IsFiniteSet(1..size)
    BY <1>1, FS_Interval
  <2>2. V \in SUBSET (1..size)
    OBVIOUS
  <2>3. ExistsBijection(V, 0..high)
    <3> HIDE DEF f, V
    <3> QED BY <1>3 DEF ExistsBijection
  <2> HIDE DEF V
  <2>4. IsFiniteSet(V)
    BY <2>1, <2>2, FS_Subset
  <2>5. Cardinality(0..high) = Cardinality(V)
    BY <2>3, <2>4, FS_Bijection
  <2>6. Cardinality(0..high) = IF 0 > high THEN 0 ELSE high - 0 + 1
    BY FS_Interval
  <2> QED BY <2>4, <2>5, <2>6
<1>5. key \in [V -> Int] /\ \A d, e \in V : key[d] = key[e] => d = e
  OBVIOUS
<1>6. PICK j \in V : Cardinality(Below(V, key, j)) = q
  <2>1. q \in 0..(Cardinality(V) - 1)
    <3> HIDE DEF V
    <3> QED BY <1>4
  <2> HIDE DEF V, key
  <2> QED BY <1>4, <1>5, <2>1, RankIs
<1>7. Taken(walk, high, j) = Below(V, key, j)
  <2>1. ASSUME NEW e \in Taken(walk, high, j)
        PROVE  e \in Below(V, key, j)
    BY <1>1 DEF Taken, Below
  <2>2. ASSUME NEW e \in Below(V, key, j)
        PROVE  e \in Taken(walk, high, j)
    BY <1>1 DEF Taken, Below
  <2> HIDE DEF V, key
  <2> QED BY <2>1, <2>2
<1> DEFINE cell == walk[j]
<1>8. cell \in 0..high /\ cell \in 0..(size - 1) /\ j \in 1..size
  BY <1>1
<1>9. Turn(walk, cell) = j
  <2> HIDE DEF V, cell
  <2>1. Turn(walk, cell) \in 1..size /\ walk[Turn(walk, cell)] = cell
    BY <1>1, <1>8
  <2> QED BY <1>1, <1>8, <2>1, Zenon DEF cell
<1>10. Cardinality(Taken(walk, high, Turn(walk, cell))) = q
  <2> HIDE DEF V, cell, key
  <2> QED BY <1>6, <1>7, <1>9, Zenon
<1>11. \E c \in 0..high : Cardinality(Taken(walk, high, Turn(walk, c))) = q
  <2> HIDE DEF V, cell
  <2> QED BY <1>8, <1>10, Zenon
<1> QED BY <1>11 DEF size, walk

(* Counts of which a table can be built: at least -1 each, and those that  *)
(* are positive fill what the others leave.                                *)
Counted(counts, log) ==
  /\ log \in TableLogs /\ counts \in Seq(Int) /\ Covers(counts, log)
  /\ \A i \in 1..Len(counts) : counts[i] >= -1
Sizes(counts) == [i \in 1..Len(counts) |-> Abs(counts[i])]

LEMMA CountsRun ==
  ASSUME NEW counts, NEW log, Counted(counts, log)
  PROVE  LET n    == Len(counts)
             low  == LowSymbols(counts)
             high == High(counts, 2^log)
             upto == Sums(Positive(counts), n)
         IN  /\ n \in Nat /\ \A i \in 1..n : counts[i] \in Int /\ counts[i] >= -1
             /\ Positive(counts) \in [1..n -> Nat] /\ Running(upto, Positive(counts), n)
             /\ IsFiniteSet(low) /\ Cardinality(low) \in Nat
             /\ high = 2^log - 1 - Cardinality(low) /\ high \in Int /\ -1 <= high /\ high < 2^log
             /\ upto[n] = high + 1
<1> DEFINE n    == Len(counts)
           low  == LowSymbols(counts)
           high == High(counts, 2^log)
           f    == Positive(counts)
           upto == Sums(f, n)
           size == 2^log
<1>1. n \in Nat /\ \A i \in 1..n : counts[i] \in Int /\ counts[i] >= -1
  BY DEF Counted
<1>2. f \in [1..n -> Nat]
  BY <1>1 DEF Positive, Greater
<1>3. Running(upto, f, n)
  <2> HIDE DEF f, n
  <2> QED BY <1>1, <1>2, SumsRun
<1>4. IsFiniteSet(low) /\ Cardinality(low) \in Nat
  <2>1. IsFiniteSet(0..(n - 1))
    BY <1>1, FS_Interval
  <2>2. low \in SUBSET (0..(n - 1))
    BY DEF LowSymbols
  <2> HIDE DEF low
  <2> QED BY <2>1, <2>2, FS_Subset, FS_CardinalityType
<1>5. size \in Nat
  BY WalkIs DEF Counted
<1>6. high = size - 1 - Cardinality(low)
  BY DEF High
<1>7. upto[n] = high + 1
  BY DEF Counted, Covers
<1>8. upto[n] \in Nat
  <2> HIDE DEF upto
  <2> QED BY <1>1, <1>3 DEF Running
<1> HIDE DEF n, low, high, f, upto, size
<1>9. high \in Int /\ -1 <= high /\ high < size
  BY <1>4, <1>5, <1>6, <1>7, <1>8
<1> QED BY <1>1, <1>2, <1>3, <1>4, <1>6, <1>7, <1>9 DEF n, low, high, f, upto, size

(* All counts together, those of -1 as 1, are the size.                    *)
LEMMA SizesRun ==
  ASSUME NEW counts, NEW log, Counted(counts, log)
  PROVE  LET n   == Len(counts)
             all == Sums(Sizes(counts), n)
         IN  /\ Sizes(counts) \in [1..n -> Nat] /\ Running(all, Sizes(counts), n)
             /\ all[n] = 2^log
<1> DEFINE n    == Len(counts)
           low  == LowSymbols(counts)
           f    == Positive(counts)
           g    == Sizes(counts)
           upto == Sums(f, n)
           all  == Sums(g, n)
           Lows(i) == {s \in low : s < i}
           S    == {i \in 0..n : all[i] = upto[i] + Cardinality(Lows(i))}
<1>1. /\ n \in Nat /\ \A i \in 1..n : counts[i] \in Int /\ counts[i] >= -1
      /\ f \in [1..n -> Nat] /\ Running(upto, f, n)
      /\ IsFiniteSet(low) /\ Cardinality(low) \in Nat
      /\ upto[n] = 2^log - Cardinality(low)
  <2>1. /\ n \in Nat /\ \A i \in 1..n : counts[i] \in Int /\ counts[i] >= -1
        /\ f \in [1..n -> Nat] /\ Running(upto, f, n)
        /\ IsFiniteSet(low) /\ Cardinality(low) \in Nat
    BY CountsRun, Zenon
  <2>2. upto[n] = High(counts, 2^log) + 1 /\ High(counts, 2^log) = 2^log - 1 - Cardinality(low)
    BY CountsRun
  <2>3. 2^log \in Nat
    BY WalkIs DEF Counted
  <2>4. upto[n] = 2^log - Cardinality(low)
    <3> DEFINE a == upto[n]
               b == Cardinality(low)
               c == 2^log
               d == High(counts, 2^log)
    <3>1. a = d + 1 /\ d = c - 1 - b /\ b \in Nat /\ c \in Nat
      BY <2>1, <2>2, <2>3
    <3> HIDE DEF a, b, c, d
    <3>2. a = c - b
      BY <3>1
    <3> QED BY <3>2 DEF a, b, c
  <2> QED BY <2>1, <2>4
<1>2. g \in [1..n -> Nat]
  BY <1>1 DEF Sizes, Abs
<1>3. Running(all, g, n)
  <2> HIDE DEF g, n
  <2> QED BY <1>1, <1>2, SumsRun
<1>4. ASSUME NEW i \in 1..n
      PROVE  /\ f[i] \in Nat /\ g[i] = f[i] + (IF i - 1 \in low THEN 1 ELSE 0)
             /\ low \subseteq Int
  <2>1. f[i] = Greater(counts[i], 0) /\ g[i] = Abs(counts[i])
    BY DEF Positive, Sizes
  <2>2. i - 1 \in low <=> counts[i] = -1
    <3>1. i - 1 \in 0..(n - 1) /\ (i - 1) + 1 = i
      BY <1>1
    <3> QED BY <3>1 DEF LowSymbols
  <2>3. low \subseteq Int
    BY DEF LowSymbols
  <2> HIDE DEF f, g, low
  <2> QED BY <1>1, <2>1, <2>2, <2>3 DEF Greater, Abs
<1> HIDE DEF n, low, f, g, upto, all
<1>5. ASSUME NEW i \in 0..n
      PROVE  IsFiniteSet(Lows(i)) /\ Cardinality(Lows(i)) \in Nat
  <2>1. Lows(i) \in SUBSET low
    OBVIOUS
  <2> HIDE DEF Lows
  <2> QED BY <1>1, <2>1, FS_Subset, FS_CardinalityType
<1>6. \A s \in low : s \in Int /\ 0 <= s /\ s < n
  BY <1>1 DEF low, LowSymbols, n
<1>7. 0 \in S
  <2>1. Lows(0) = {}
    <3>1. \A s \in low : ~(s < 0)
      BY <1>6
    <3> QED BY <3>1, Zenon
  <2>2. Cardinality({}) = 0
    BY FS_EmptySet
  <2>3. 0 \in 0..n /\ all[0] = 0 /\ upto[0] = 0
    BY <1>1, <1>3 DEF Running
  <2> HIDE DEF Lows
  <2> QED BY <2>1, <2>2, <2>3
<1>8. ASSUME NEW i \in 1..n, i - 1 \in S
      PROVE  i \in S
  <2>1. /\ upto[i - 1] \in Nat /\ upto[i] = upto[i - 1] + f[i] /\ all[i] = all[i - 1] + g[i]
        /\ i - 1 \in 0..n /\ i \in 0..n
    BY <1>1, <1>3, <1>8 DEF Running
  <2>2. all[i - 1] = upto[i - 1] + Cardinality(Lows(i - 1))
    BY <1>8
  <2>3. f[i] \in Nat /\ g[i] = f[i] + (IF i - 1 \in low THEN 1 ELSE 0)
    BY <1>4
  <2>4. IsFiniteSet(Lows(i - 1)) /\ Cardinality(Lows(i - 1)) \in Nat
    BY <1>5, <2>1
  <2>5. Cardinality(Lows(i)) = Cardinality(Lows(i - 1)) + (IF i - 1 \in low THEN 1 ELSE 0)
    <3>1. CASE i - 1 \in low
      <4>1. Lows(i) = Lows(i - 1) \cup {i - 1} /\ i - 1 \notin Lows(i - 1)
        <5>1. \A s \in low : (s < i <=> s < i - 1 \/ s = i - 1) /\ ~(i - 1 < i - 1) /\ i - 1 < i
          BY <1>6
        <5> DEFINE x == i - 1
        <5>2. x \in low /\ \A s \in low : (s < i <=> s < x \/ s = x) /\ ~(x < x)
          BY <3>1, <5>1
        <5> HIDE DEF x
        <5>3. {s \in low : s < i} = {s \in low : s < x} \cup {x} /\ x \notin {s \in low : s < x}
          BY <5>2, Zenon
        <5> QED BY <5>3 DEF x
      <4> HIDE DEF Lows
      <4> DEFINE L == Lows(i - 1)
                 x == i - 1
      <4>2. L \cup {x} = Lows(i) /\ x \notin L /\ IsFiniteSet(L)
        BY <2>4, <4>1
      <4> HIDE DEF L, x
      <4>3. Cardinality(L \cup {x}) = Cardinality(L) + 1
        BY <4>2, FS_AddElement
      <4> QED BY <3>1, <4>2, <4>3 DEF L
    <3>2. CASE i - 1 \notin low
      <4>1. Lows(i) = Lows(i - 1)
        <5> DEFINE x == i - 1
        <5>1. x \notin low /\ \A s \in low : s < i <=> s < x \/ s = x
          BY <1>6, <3>2
        <5> HIDE DEF x
        <5>2. {s \in low : s < i} = {s \in low : s < x}
          BY <5>1, Zenon
        <5> QED BY <5>2 DEF x
      <4> HIDE DEF Lows
      <4> QED BY <2>4, <3>2, <4>1
    <3> QED BY <3>1, <3>2
  <2> HIDE DEF Lows
  <2>6. all[i] = upto[i] + Cardinality(Lows(i))
    BY <2>1, <2>2, <2>3, <2>4, <2>5
  <2> QED BY <2>1, <2>6
<1>9. 0..n \subseteq S
  <2> HIDE DEF S
  <2> QED BY <1>1, <1>7, <1>8, UpTo, Zenon
<1>10. all[n] = upto[n] + Cardinality(Lows(n))
  <2>1. n \in 0..n
    BY <1>1
  <2> QED BY <1>9, <2>1
<1>11. Lows(n) = low
  BY <1>6, Zenon
<1> HIDE DEF Lows
<1>12. all[n] = 2^log
  <2>1. 2^log \in Nat
    BY WalkIs DEF Counted
  <2> DEFINE a == all[n]
             b == upto[n]
             c == Cardinality(low)
             d == 2^log
  <2>2. a = b + c /\ b = d - c /\ c \in Nat /\ d \in Nat
    BY <1>1, <1>10, <1>11, <2>1
  <2> HIDE DEF a, b, c, d
  <2>3. a = d
    BY <2>2
  <2> QED BY <2>3 DEF a, d
<1> QED BY <1>2, <1>3, <1>12 DEF n, g, all

(* The symbol of each cell.                                                *)
LowAt(counts, size, i) ==
  CHOOSE s \in LowSymbols(counts) : Cardinality({t \in LowSymbols(counts) : t < s}) = size - i
WalkAt(counts, size, i) ==
  Taker(Sums(Positive(counts), Len(counts)), Len(counts),
        Cardinality(Taken(Walk(size), High(counts, size), Turn(Walk(size), i - 1)))) - 1

LEMMA SpreadIs ==
  ASSUME NEW counts, NEW log, Counted(counts, log)
  PROVE  LET size  == 2^log
             cells == spread(counts, log)
         IN  /\ DOMAIN cells = 1..size
             /\ \A i \in 1..size :
                  cells[i] = IF i - 1 > High(counts, size) THEN LowAt(counts, size, i)
                                                          ELSE WalkAt(counts, size, i)
<1> DEFINE size == 2^log
           At(i) == IF i - 1 > High(counts, size) THEN LowAt(counts, size, i)
                                                  ELSE WalkAt(counts, size, i)
           r == [i \in 1..size |-> At(i)]
<1>1. size \in Nat
  BY WalkIs DEF Counted
<1>2. spread(counts, log) = Listed(r)
  BY DEF spread, LowAt, WalkAt
<1>3. Listed(r) = r
  <2> HIDE DEF size, At
  <2>1. DOMAIN r = 1..size /\ r = [i \in 1..size |-> r[i]]
    OBVIOUS
  <2> HIDE DEF r
  <2> QED BY <1>1, <2>1, ListedIs
<1>4. DOMAIN r = 1..size /\ \A i \in 1..size : r[i] = At(i)
  <2> HIDE DEF size, At
  <2> QED OBVIOUS
<1> HIDE DEF r
<1> QED BY <1>2, <1>3, <1>4, Zenon

(* A symbol has at least as many cells as its count says.                  *)
Mine(cells, size, s) == {c \in 1..size : cells[c] = s}
PlaceIn(counts, size, c) ==
  Cardinality(Taken(Walk(size), High(counts, size), Turn(Walk(size), c - 1)))

LEMMA LowCell ==
  ASSUME NEW counts, NEW log, Counted(counts, log), NEW s \in LowSymbols(counts)
  PROVE  Mine(spread(counts, log), 2^log, s) # {}
<1> DEFINE size == 2^log
           low  == LowSymbols(counts)
           high == High(counts, size)
           key  == [t \in low |-> t]
           k    == Cardinality(low)
<1>1. IsFiniteSet(low) /\ k \in Nat /\ high = size - 1 - k /\ -1 <= high
  BY CountsRun
<1>2. size \in Nat \ {0}
  BY WalkIs DEF Counted
<1>3. \A t \in low : t \in Int
  BY DEF LowSymbols
<1>4. key \in [low -> Int] /\ \A d, e \in low : key[d] = key[e] => d = e
  <2> HIDE DEF low
  <2> QED BY <1>3
<1>5. ASSUME NEW t \in low
      PROVE  Below(low, key, t) = {e \in low : e < t}
  <2> HIDE DEF low
  <2> QED BY DEF Below
<1>6. /\ \A d \in low : Cardinality(Below(low, key, d)) \in 0..(k - 1)
      /\ \A d, e \in low : Cardinality(Below(low, key, d)) = Cardinality(Below(low, key, e)) => d = e
  <2> HIDE DEF low, key
  <2> QED BY <1>1, <1>4, RankIs
<1> DEFINE Rank(t) == Cardinality({e \in low : e < t})
<1>7. /\ \A d \in low : Rank(d) \in 0..(k - 1)
      /\ \A d, e \in low : Rank(d) = Rank(e) => d = e
  <2> HIDE DEF low, key, k
  <2> QED BY <1>5, <1>6, Zenon
<1> DEFINE c == size - Rank(s)
<1> HIDE DEF low, high, k, size, Rank
<1>8. s \in low
  BY DEF low
<1>9. Rank(s) \in 0..(k - 1)
  BY <1>7, <1>8
<1>10. c \in 1..size /\ c - 1 > high /\ size - c = Rank(s)
  BY <1>1, <1>2, <1>9
<1> HIDE DEF c
<1>11. LowAt(counts, size, c) = CHOOSE t \in low : Rank(t) = size - c
  BY DEF LowAt, low, Rank
<1>12. LowAt(counts, size, c) = s
  <2>1. \E t \in low : Rank(t) = size - c
    BY <1>8, <1>10
  <2> DEFINE t == CHOOSE t \in low : Rank(t) = size - c
  <2>2. t \in low /\ Rank(t) = size - c
    BY <2>1, Zenon
  <2> HIDE DEF t
  <2>3. t = s
    BY <1>7, <1>8, <1>10, <2>2, Zenon
  <2> QED BY <1>11, <2>3, Zenon DEF t
<1>13. spread(counts, log)[c] = LowAt(counts, size, c)
  <2>1. \A i \in 1..size : spread(counts, log)[i] =
          IF i - 1 > high THEN LowAt(counts, size, i) ELSE WalkAt(counts, size, i)
    BY SpreadIs, Zenon DEF size, high
  <2> QED BY <1>10, <2>1
<1> QED BY <1>10, <1>12, <1>13, Zenon DEF size, Mine

LEMMA HighCell ==
  ASSUME NEW counts, NEW log, Counted(counts, log), NEW i \in 1..Len(counts),
         NEW q \in Nat, Takes(Sums(Positive(counts), Len(counts)), i, q)
  PROVE  \E c \in Mine(spread(counts, log), 2^log, i - 1) : PlaceIn(counts, 2^log, c) = q
<1> DEFINE size == 2^log
           n    == Len(counts)
           high == High(counts, size)
           upto == Sums(Positive(counts), n)
           PlaceOf(c) == Cardinality(Taken(Walk(size), high, Turn(Walk(size), c)))
<1>1. /\ n \in Nat /\ Positive(counts) \in [1..n -> Nat] /\ Running(upto, Positive(counts), n)
      /\ high \in Int /\ -1 <= high /\ high < size /\ upto[n] = high + 1
  BY CountsRun
<1>2. size \in Nat \ {0} /\ log \in TableLogs
  BY WalkIs DEF Counted
<1>3. \A c \in 1..size : spread(counts, log)[c] =
        IF c - 1 > high THEN LowAt(counts, size, c) ELSE WalkAt(counts, size, c)
  BY SpreadIs, Zenon
<1>4. \A c : WalkAt(counts, size, c) = Taker(upto, n, PlaceOf(c - 1)) - 1
  BY DEF WalkAt
<1>5. q \in 0..high
  <2> HIDE DEF upto, n, high
  <2>1. upto[i] <= upto[n] /\ upto[i] \in Nat
    <3>1. i \in 0..n /\ n \in 0..n /\ i <= n
      BY <1>1 DEF n
    <3>2. upto[i] <= upto[n]
      BY <1>1, <3>1, RunningGrows
    <3> QED BY <1>1, <3>1, <3>2 DEF Running
  <2>2. q < upto[i]
    BY DEF Takes, upto, n
  <2> QED BY <1>1, <2>1, <2>2
<1>6. PICK cell \in 0..high : PlaceOf(cell) = q
  BY <1>1, <1>2, <1>5, PlaceIs
<1> HIDE DEF PlaceOf
<1>7. Taker(upto, n, q) = i
  <2>1. Takes(upto, i, q) /\ i \in 1..n
    OBVIOUS
  <2> HIDE DEF upto, n
  <2>2. q < upto[n]
    BY <1>1, <1>5
  <2>3. /\ \A a, b \in 1..n : Takes(upto, a, q) /\ Takes(upto, b, q) => a = b
        /\ Taker(upto, n, q) \in 1..n /\ Takes(upto, Taker(upto, n, q), q)
    BY <1>1, <2>2, TakerIs
  <2> QED BY <2>1, <2>3, Zenon
<1> DEFINE c == cell + 1
<1> HIDE DEF high, size, upto, n
<1>8. c \in 1..size /\ ~(c - 1 > high) /\ c - 1 = cell
  BY <1>1, <1>2
<1> HIDE DEF c
<1>9. spread(counts, log)[c] = WalkAt(counts, size, c)
  BY <1>3, <1>8
<1>10. WalkAt(counts, size, c) = i - 1
  <2>1. PlaceOf(c - 1) = q
    BY <1>6, <1>8, Zenon
  <2> QED BY <1>4, <1>7, <2>1
<1>11. PlaceOf(c - 1) = q
  BY <1>6, <1>8, Zenon
<1>12. PlaceIn(counts, size, c) = q
  BY <1>11 DEF PlaceIn, PlaceOf, high
<1>13. c \in Mine(spread(counts, log), size, i - 1)
  BY <1>8, <1>9, <1>10 DEF Mine
<1> QED BY <1>12, <1>13 DEF size

LEMMA CellsOf ==
  ASSUME NEW counts, NEW log, Counted(counts, log), NEW i \in 1..Len(counts), counts[i] # 0
  PROVE  LET C == Mine(spread(counts, log), 2^log, i - 1)
         IN  /\ IsFiniteSet(C) /\ Cardinality(C) \in Nat
             /\ Abs(counts[i]) \in Nat \ {0} /\ Abs(counts[i]) <= Cardinality(C)
<1> DEFINE size  == 2^log
           cells == spread(counts, log)
           C     == Mine(cells, size, i - 1)
           A     == Abs(counts[i])
<1>1. size \in Nat \ {0}
  BY WalkIs DEF Counted
<1>2. IsFiniteSet(C) /\ Cardinality(C) \in Nat
  <2>1. IsFiniteSet(1..size) /\ C \in SUBSET (1..size)
    BY <1>1, FS_Interval DEF Mine
  <2> HIDE DEF C
  <2> QED BY <2>1, FS_Subset, FS_CardinalityType
<1>3. counts[i] \in Int /\ counts[i] >= -1
  BY CountsRun
<1>4. A \in Nat \ {0}
  BY <1>3 DEF Abs
<1>5. ASSUME counts[i] = -1 PROVE A <= Cardinality(C)
  <2>1. i - 1 \in LowSymbols(counts)
    <3>1. i - 1 \in 0..(Len(counts) - 1) /\ (i - 1) + 1 = i
      BY CountsRun
    <3> QED BY <1>5, <3>1 DEF LowSymbols
  <2>3. C # {}
    <3> DEFINE s == i - 1
    <3>1. s \in LowSymbols(counts)
      BY <2>1
    <3> HIDE DEF s
    <3>2. Mine(spread(counts, log), 2^log, s) # {}
      BY <3>1, LowCell
    <3> QED BY <3>2 DEF s
  <2> HIDE DEF C
  <2>4. Cardinality(C) # 0
    BY <1>2, <2>3, FS_EmptySet
  <2>5. A = 1
    <3> DEFINE v == counts[i]
    <3>1. v \in Int /\ v < 0 /\ v >= -1
      BY <1>3, <1>5
    <3> HIDE DEF v
    <3>3. Abs(v) = 1
      BY <3>1 DEF Abs
    <3> QED BY <3>3 DEF v
  <2> DEFINE a == A
             c == Cardinality(C)
  <2>6. a = 1 /\ c \in Nat /\ c # 0
    BY <1>2, <2>4, <2>5
  <2> HIDE DEF a, c
  <2>7. a <= c
    BY <2>6
  <2> QED BY <2>7 DEF a, c
<1>6. ASSUME counts[i] > 0 PROVE A <= Cardinality(C)
  <2> DEFINE n     == Len(counts)
             upto  == Sums(Positive(counts), n)
             u     == upto[i - 1]
             T     == u..(upto[i] - 1)
             Place(c) == PlaceIn(counts, size, c)
             f     == [q \in T |-> CHOOSE c \in C : Place(c) = q]
  <2>1. u \in Nat /\ upto[i] = u + A
    <3>1. Running(upto, Positive(counts), n) /\ n \in Nat
      BY CountsRun
    <3>2. Positive(counts)[i] = A
      BY <1>3, <1>6 DEF Positive, Greater, Abs
    <3>3. i \in 1..n /\ i - 1 \in 0..n
      BY <3>1
    <3> HIDE DEF upto, n, A
    <3> QED BY <3>1, <3>2, <3>3 DEF Running
  <2>2. ASSUME NEW q \in T
        PROVE  \E c \in C : Place(c) = q
    <3>1. q \in Nat /\ Takes(upto, i, q)
      <4> HIDE DEF upto
      <4> QED BY <1>4, <2>1, <2>2 DEF Takes
    <3> QED BY <3>1, HighCell
  <2> HIDE DEF C, Place, T
  <2>3. ASSUME NEW q \in T
        PROVE  f[q] \in C /\ Place(f[q]) = q
    BY <2>2, Zenon
  <2>4. f \in Injection(T, C)
    <3>1. f \in [T -> C]
      BY <2>3, Zenon
    <3>2. \A a, b \in T : f[a] = f[b] => a = b
      BY <2>3, Zenon
    <3> HIDE DEF f
    <3>3. IsInjective(f)
      BY <3>1, <3>2 DEF IsInjective
    <3> QED BY <3>1, <3>3 DEF Injection
  <2>5. Cardinality(T) = A
    <3> HIDE DEF upto, u
    <3> DEFINE v == upto[i] - 1
    <3>1. u \in Int /\ v \in Int /\ v = u + A - 1
      BY <1>4, <2>1
    <3> HIDE DEF v
    <3>2. Cardinality(u..v) = IF u > v THEN 0 ELSE v - u + 1
      BY <3>1, FS_Interval
    <3>3. Cardinality(u..v) = A
      BY <1>4, <3>1, <3>2
    <3> QED BY <3>3 DEF T, v
  <2>6. Cardinality(T) <= Cardinality(C)
    <3> HIDE DEF f
    <3> QED BY <1>2, <2>4, FS_Injection
  <2> QED BY ONLY <2>5, <2>6
<1>7. counts[i] = -1 \/ counts[i] > 0
  BY <1>3
<1>8. A <= Cardinality(C)
  BY <1>5, <1>6, <1>7, Zenon
<1> QED BY <1>2, <1>4, <1>8, Zenon

(* Each of a symbol's ranks is that of one of its cells, which the         *)
(* encoding table finds.                                                   *)
RanksOf(cells) == Listed([v \in DOMAIN cells |-> Cardinality(Earlier(cells, v))])

LEMMA CellIs ==
  ASSUME NEW counts, NEW log, Counted(counts, log), NEW i \in 1..Len(counts),
         NEW r \in 0..(Abs(counts[i]) - 1), counts[i] # 0
  PROVE  LET cells == spread(counts, log)
             c     == CellOf(cells, RanksOf(cells), i - 1, r)
         IN  /\ c \in 1..2^log /\ cells[c] = i - 1 /\ Cardinality(Earlier(cells, c)) = r
<1> DEFINE size  == 2^log
           cells == spread(counts, log)
           s     == i - 1
           C     == Mine(cells, size, s)
           key   == [v \in C |-> v]
           Rank(v) == Cardinality(Earlier(cells, v))
           ranks == RanksOf(cells)
<1>1. size \in Nat \ {0}
  BY WalkIs DEF Counted
<1>2. /\ IsFiniteSet(C) /\ Cardinality(C) \in Nat
      /\ Abs(counts[i]) \in Nat \ {0} /\ Abs(counts[i]) <= Cardinality(C)
  BY CellsOf
<1>3. DOMAIN cells = 1..size
  BY SpreadIs
<1> HIDE DEF cells, size, s
<1>4. \A v \in C : v \in 1..size /\ cells[v] = s
  BY DEF Mine
<1>5. key \in [C -> Int] /\ \A d, e \in C : key[d] = key[e] => d = e
  <2>1. \A v \in C : v \in Int
    BY <1>1, <1>4
  <2> HIDE DEF C
  <2> QED BY <2>1
<1>6. ASSUME NEW v \in C
      PROVE  Below(C, key, v) = Earlier(cells, v)
  <2>1. v \in 1..size /\ cells[v] = s /\ v \in Int
    BY <1>1, <1>4
  <2>2. \A e \in C : e \in 1..size /\ key[e] = e
    BY <1>4
  <2>3. \A e : e \in Below(C, key, v) => e \in Earlier(cells, v)
    <3> HIDE DEF C, key
    <3>1. \A e : e \in Below(C, key, v) => e \in C /\ e < v
      BY <1>6, <2>2 DEF Below
    <3>2. \A e \in C : e < v => e \in 1..(v - 1) /\ cells[e] = cells[v]
      BY <1>1, <1>4, <2>1, <2>2
    <3> QED BY <3>1, <3>2, Zenon DEF Earlier
  <2>4. \A e : e \in Earlier(cells, v) => e \in Below(C, key, v)
    <3>1. \A e : e \in Earlier(cells, v) => e \in 1..(v - 1) /\ cells[e] = s
      BY <2>1 DEF Earlier
    <3>2. \A e \in 1..(v - 1) : e \in 1..size /\ e < v
      BY <1>1, <2>1
    <3>3. \A e : e \in Earlier(cells, v) => e \in C /\ e < v
      BY <3>1, <3>2, Zenon DEF Mine
    <3> HIDE DEF C, key
    <3> QED BY <1>6, <2>2, <3>3 DEF Below
  <2> QED BY <2>3, <2>4, Zenon
<1>7. /\ \A q \in 0..(Cardinality(C) - 1) : \E d \in C : Cardinality(Below(C, key, d)) = q
      /\ \A d, e \in C : Cardinality(Below(C, key, d)) = Cardinality(Below(C, key, e)) => d = e
  <2> HIDE DEF C, key
  <2> QED BY <1>2, <1>5, RankIs
<1>8. r \in 0..(Cardinality(C) - 1)
  <2> DEFINE a == Abs(counts[i])
             b == Cardinality(C)
  <2>1. a \in Nat /\ b \in Nat /\ a <= b /\ r \in 0..(a - 1)
    BY <1>2
  <2> HIDE DEF a, b
  <2>2. r \in 0..(b - 1)
    BY <2>1
  <2> QED BY <2>2 DEF b
<1>9. PICK c \in C : Rank(c) = r
  <2> HIDE DEF C, key
  <2> QED BY <1>6, <1>7, <1>8, Zenon
<1>10. \A d, e \in C : Rank(d) = Rank(e) => d = e
  <2> HIDE DEF C, key
  <2> QED BY <1>6, <1>7, Zenon
<1>11. DOMAIN ranks = 1..size /\ \A v \in 1..size : ranks[v] = Rank(v)
  <2> DEFINE f == [v \in DOMAIN cells |-> Rank(v)]
  <2>1. DOMAIN f = 1..size /\ \A v \in 1..size : f[v] = Rank(v)
    BY <1>3
  <2>2. f = [v \in 1..size |-> f[v]]
    BY <1>3
  <2>3. ranks = Listed(f)
    BY DEF RanksOf
  <2> HIDE DEF f, ranks, Rank
  <2>4. Listed(f) = f
    BY <1>1, <2>1, <2>2, ListedIs
  <2> QED BY <2>1, <2>3, <2>4
<1> DEFINE Right(v) == cells[v] = s /\ ranks[v] = r
           found == CHOOSE v \in DOMAIN ranks : Right(v)
<1>12. CellOf(cells, ranks, s, r) = found
  BY DEF CellOf
<1>13. c \in DOMAIN ranks /\ Right(c)
  <2> HIDE DEF ranks, Rank
  <2> QED BY <1>4, <1>9, <1>11
<1>14. found \in DOMAIN ranks /\ Right(found)
  <2> HIDE DEF Right, ranks
  <2> QED BY <1>13, Zenon
<1>15. found \in 1..size /\ cells[found] = s /\ Rank(found) = r
  <2> HIDE DEF found, ranks, Rank
  <2> QED BY <1>11, <1>14
<1> QED BY <1>12, <1>15, Zenon DEF cells, size, s

(* A quotient is at least, or below, what the number is a multiple of.     *)
LEMMA QuotientBounds ==
  ASSUME NEW a \in Nat, NEW p \in Nat \ {0}, NEW k \in Nat
  PROVE  /\ k * p <= a => k <= a \div p
         /\ a < k * p => a \div p < k
<1> DEFINE q == a \div p
           r == a % p
<1>1. q \in Nat /\ r \in 0..(p - 1) /\ a = p * q + r
  BY DivMod
<1> HIDE DEF q, r
<1>2. ASSUME NEW x \in Nat, NEW y \in Nat, x < y
      PROVE  p * x + p <= y * p
  <2>1. PICK d \in Nat : y = x + 1 + d
    <3> DEFINE d == y - x - 1
    <3>1. d \in Nat /\ y = x + 1 + d
      BY <1>2
    <3> QED BY <3>1
  <2>2. y * p = p * x + p + d * p /\ d * p \in Nat
    BY <2>1, Z3
  <2> DEFINE e == d * p
             f == p * x
             g == y * p
  <2>3. f \in Nat
    BY Z3
  <2> HIDE DEF e, f, g
  <2>4. f + p <= g
    BY <2>2, <2>3 DEF e, f, g
  <2> QED BY <2>4 DEF f, g
<1>3. p * q \in Nat /\ k * p \in Nat
  BY <1>1, Z3
<1>4. k * p <= a => ~(q < k)
  <2>1. q < k => p * q + p <= k * p
    BY <1>1, <1>2
  <2> DEFINE f == p * q
             g == k * p
  <2> HIDE DEF f, g
  <2>2. g <= a => ~(q < k)
    BY <1>1, <1>3, <2>1 DEF f, g
  <2> QED BY <2>2 DEF g
<1>5. a < k * p => ~(k <= q)
  <2>1. k <= q => k * p <= p * q
    <3>1. CASE k = q
      <4>1. k * p = p * q
        BY <1>1, <3>1, Z3
      <4> QED BY <1>3, <4>1
    <3>2. CASE k < q
      <4>1. p * k + p <= q * p
        BY <1>1, <1>2, <3>2
      <4>2. p * k = k * p /\ q * p = p * q
        BY <1>1, Z3
      <4> DEFINE f == p * q
                 g == k * p
      <4>3. g + p <= f /\ f \in Nat /\ g \in Nat
        BY <1>3, <4>1, <4>2
      <4> HIDE DEF f, g
      <4>4. g <= f
        BY <4>3
      <4> QED BY <4>4 DEF f, g
    <3> QED BY <1>1, <3>1, <3>2
  <2> DEFINE f == p * q
             g == k * p
  <2> HIDE DEF f, g
  <2>2. a < g => ~(k <= q)
    BY <1>1, <1>3, <2>1 DEF f, g
  <2> QED BY <2>2 DEF g
<1>6. (k * p <= a => k <= q) /\ (a < k * p => q < k)
  <2>1. ~(q < k) => k <= q
    BY <1>1
  <2>2. ~(k <= q) => q < k
    BY <1>1
  <2> QED BY <1>4, <1>5, <2>1, <2>2
<1> QED BY <1>6 DEF q

(* The bits a step writes, of a state's value and a symbol's count: enough *)
(* to bring the value to at least the count and below its double.          *)
Brought(log, size, value, nb) ==
  /\ nb \in 0..log /\ (value \div Power(nb)) \in Nat
  /\ size <= value \div Power(nb) /\ value \div Power(nb) < 2 * size
  /\ highbit32(value \div Power(nb)) = log - nb
  /\ (value \div Power(nb)) * Power(nb) + (value % Power(nb)) = value

(* A value between two powers' multiples is brought to the power's bit.    *)
LEMMA BroughtBy ==
  ASSUME NEW log \in 0..15, NEW nb \in 0..log, NEW value \in Nat, NEW size \in Nat,
         Power(log) <= value, value < 2 * Power(log),
         size * Power(nb) <= value, value < (2 * size) * Power(nb)
  PROVE  Brought(log, size, value, nb)
<1> DEFINE h == log - nb
           p == Power(nb)
           x == value \div p
           r == value % p
<1>1. h \in 0..15 /\ h + nb = log /\ nb \in 0..15 /\ h \in 0..29 /\ nb \in 0..30 /\ h \in 0..30
      /\ h + 1 \in 0..30
  OBVIOUS
<1> HIDE DEF h
<1>2. Power(log) = Power(h) * p
  <2>1. Power(h + nb) = Power(h) * Power(nb)
    BY <1>1, PowerSum
  <2> QED BY <1>1, <2>1
<1>3. p \in Nat \ {0} /\ Power(h) \in Nat /\ Power(h + 1) \in Nat /\ Power(h + 1) = 2 * Power(h)
  <2>1. Power(nb) \in Nat /\ Power(nb) >= 1
    BY <1>1, PowerNat
  <2>2. Power(h) \in Nat /\ Power(h + 1) \in Nat
    BY <1>1, PowerNat
  <2>3. Power(h + 1) = 2 * Power(h)
    BY <1>1, PowerDoubles
  <2> QED BY <2>1, <2>2, <2>3
<1>4. size * p <= value /\ value < (2 * size) * p
  OBVIOUS
<1>5. Power(h) * p <= value
  BY <1>2
<1>6. value < Power(h + 1) * p
  <2> DEFINE a == Power(h)
  <2>1. a \in Nat /\ p \in Nat
    BY <1>3
  <2> HIDE DEF a, p
  <2>2. (2 * a) * p = 2 * (a * p)
    BY <2>1, Z3
  <2>3. value < 2 * (a * p)
    BY <1>2 DEF a
  <2>4. value < (2 * a) * p
    BY <2>2, <2>3, Zenon
  <2> QED BY <1>3, <2>4 DEF a
<1> HIDE DEF p
<1>7. x \in Nat /\ r \in Nat /\ value = p * x + r
  <2>1. value \div p \in Nat /\ value % p \in 0..p - 1 /\ value = p * (value \div p) + (value % p)
    BY <1>3, DivMod
  <2>2. r \in Nat
    BY <1>3, <2>1
  <2> QED BY <2>1, <2>2
<1>8. size <= x
  BY <1>3, <1>4, QuotientBounds
<1>9. x < 2 * size
  <2> DEFINE d == 2 * size
  <2>1. d \in Nat /\ value < d * p
    BY <1>4
  <2> HIDE DEF d
  <2>2. x < d
    BY <1>3, <2>1, QuotientBounds
  <2> QED BY <2>2 DEF d
<1>10. Power(h) <= x
  BY <1>3, <1>5, QuotientBounds
<1>11. x < Power(h + 1)
  BY <1>3, <1>6, QuotientBounds
<1>12. Power(h) >= 1
  BY <1>1, PowerNat
<1> HIDE DEF x, r
<1>13. highbit32(x) = h
  <2>1. x \in Nat \ {0}
    <3> DEFINE a == Power(h)
    <3>1. a \in Nat /\ a >= 1 /\ a <= x
      BY <1>3, <1>10, <1>12
    <3> HIDE DEF a
    <3> QED BY <1>7, <3>1
  <2> QED BY <1>1, <1>10, <1>11, <2>1, HighbitIs
<1>14. x * p + r = value
  <2>1. x * p = p * x
    BY <1>3, <1>7, Z3
  <2> QED BY <1>7, <2>1
<1> QED BY <1>7, <1>8, <1>9, <1>13, <1>14 DEF Brought, x, p, r, h

(* The high half of a number of bits.                                      *)
LEMMA HighHalf ==
  ASSUME NEW m \in 0..15, NEW d \in Int, 0 <= d, d <= 65535
  PROVE  (m * 65536 + d) \div 65536 = m
BY Z3

(* A count above one: the bits of its short and its long steps, and the    *)
(* count of states where the long ones begin.                              *)
CountSplit(log, count, m) ==
  /\ m \in 1..15 /\ m \in 1..log /\ m - 1 \in 0..log /\ m \in 0..log
  /\ DeltaNbBits(count, log) = m * 65536 - count * Power(m)
  /\ count * Power(m) \in Nat /\ Power(log) < count * Power(m)
  /\ count * Power(m) <= 2 * Power(log)
  /\ Power(m) \in Nat \ {0} /\ Power(m - 1) \in Nat \ {0} /\ Power(m) = 2 * Power(m - 1)

LEMMA CountBits ==
  ASSUME NEW log \in TableLogs, NEW count \in Int, count > 1, count <= Power(log)
  PROVE  \E m \in 1..log : CountSplit(log, count, m)
<1> DEFINE size == Power(log)
           c1 == count - 1
           h  == highbit32(c1)
           m  == log - h
           P  == Power(m)
<1>a. log \in 0..15 /\ log \in 0..30
  BY DEF TableLogs
<1>b. size \in Nat /\ size >= 1 /\ size <= 32768
  <2>1. Power(log) <= Power(15)
    BY <1>a, PowerGrows
  <2> QED BY <1>a, <2>1, PowerNat, PowerValues
<1>1. count \in Nat /\ c1 \in Nat \ {0} /\ count = c1 + 1
  OBVIOUS
<1>2. DeltaNbBits(count, log) = m * 65536 - count * P
  BY DEF DeltaNbBits, Power
<1> HIDE DEF c1
<1>3. h \in 0..30 /\ Power(h) <= c1 /\ (h = 30 \/ c1 < Power(h + 1))
  BY <1>1, HighbitOf
<1> HIDE DEF h
<1>4. h < log
  <2>1. log <= h => Power(log) <= Power(h)
    BY <1>a, <1>3, PowerGrows
  <2>2. Power(h) \in Nat
    BY <1>3, PowerNat
  <2> DEFINE a == Power(h)
  <2>3. a \in Nat /\ a < count /\ count <= size /\ (log <= h => size <= a)
    BY <1>1, <1>3, <2>1, <2>2
  <2> HIDE DEF a, size
  <2>4. ~(log <= h)
    BY <1>b, <1>1, <2>3
  <2> QED BY <1>a, <1>3, <2>4
<1>5. /\ m \in 1..15 /\ m \in 1..log /\ m - 1 \in 0..log /\ m \in 0..log /\ h + m = log
      /\ h \in 0..15 /\ h \in 0..29 /\ h # 30
      /\ m \in 0..15 /\ m - 1 \in 0..29 /\ (m - 1) + 1 = m
  BY <1>a, <1>3, <1>4
<1> HIDE DEF m
<1>6. size = Power(h) * P
  <2>1. Power(h + m) = Power(h) * Power(m)
    BY <1>5, PowerSum
  <2> QED BY <1>5, <2>1
<1>7. /\ P \in Nat \ {0} /\ Power(h) \in Nat /\ Power(m - 1) \in Nat \ {0}
      /\ P = 2 * Power(m - 1) /\ Power(h + 1) = 2 * Power(h) /\ Power(h + 1) \in Nat
  <2>1. m \in 0..30 /\ m - 1 \in 0..30 /\ h \in 0..30 /\ h + 1 \in 0..30
    BY <1>5
  <2>2. Power((m - 1) + 1) = 2 * Power(m - 1)
    BY <1>5, PowerDoubles
  <2>3. Power(h + 1) = 2 * Power(h)
    BY <1>5, PowerDoubles
  <2>4. Power(m) \in Nat /\ Power(m) >= 1 /\ Power(h) \in Nat /\ Power(h + 1) \in Nat
    BY <2>1, PowerNat
  <2>5. Power(m - 1) \in Nat /\ Power(m - 1) >= 1
    BY <2>1, PowerNat
  <2> QED BY <1>5, <2>2, <2>3, <2>4, <2>5
<1> DEFINE H == Power(h)
           D == Power(m - 1)
           K == count * P
<1>8. H < count /\ count <= 2 * H
  <2> DEFINE G == Power(h + 1)
  <2>1. G \in Nat /\ G = 2 * H /\ H <= c1 /\ c1 < G /\ H \in Nat
    BY <1>3, <1>5, <1>7
  <2> HIDE DEF G, H
  <2> QED BY <1>1, <2>1
<1>9. K \in Nat /\ size < K /\ K <= 2 * size
  <2> HIDE DEF H, P
  <2>1. \A x, y, z \in Nat : x < y /\ z # 0 => x * z < y * z
    BY Z3
  <2>2. \A x, y, z \in Nat : x <= 2 * y => x * z <= 2 * (y * z)
    BY Z3
  <2>3. H \in Nat /\ P \in Nat /\ P # 0
    BY <1>7 DEF H, P
  <2>4. H * P < count * P /\ count * P <= 2 * (H * P)
    BY <1>1, <1>8, <2>1, <2>2, <2>3
  <2>5. count * P \in Nat
    BY <1>1, <2>3, Z3
  <2> QED BY <1>6, <2>4, <2>5 DEF H, P
<1> QED BY <1>2, <1>5, <1>7, <1>9 DEF CountSplit, K, P, H, D

LEMMA StepBits ==
  ASSUME NEW log \in TableLogs, NEW count \in Int, count # 0, count >= -1,
         Abs(count) <= Power(log), NEW value \in Nat,
         Power(log) <= value, value < 2 * Power(log)
  PROVE  Brought(log, Abs(count), value, (value + DeltaNbBits(count, log)) \div 65536)
<1> DEFINE size == Power(log)
           A    == Abs(count)
           V    == value + DeltaNbBits(count, log)
           nb   == V \div 65536
<1>1. log \in 0..15 /\ log \in 0..30
  BY DEF TableLogs
<1>2. size \in Nat /\ size >= 1 /\ size <= 32768
  <2>1. Power(log) <= Power(15)
    BY <1>1, PowerGrows
  <2> QED BY <1>1, <2>1, PowerNat, PowerValues
<1>3. ASSUME count \in {-1, 1} PROVE Brought(log, A, value, nb)
  <2>1. A = 1
    BY <1>3 DEF Abs
  <2>2. DeltaNbBits(count, log) = log * 65536 - size
    BY <1>3 DEF DeltaNbBits, Power
  <2>3. nb = log
    <3> DEFINE a == DeltaNbBits(count, log)
               d == value - size
    <3>1. size <= value /\ value < 2 * size
      OBVIOUS
    <3>2. a = log * 65536 - size
      BY <2>2
    <3> HIDE DEF size, a
    <3>3. d \in Int /\ 0 <= d /\ d <= 65535 /\ value + a = log * 65536 + d
      BY <1>1, <1>2, <3>1, <3>2
    <3> HIDE DEF d
    <3>4. (log * 65536 + d) \div 65536 = log
      BY <1>1, <3>3, HighHalf
    <3> QED BY <3>3, <3>4 DEF a
  <2>4. 1 * Power(log) <= value /\ value < (2 * 1) * Power(log)
    BY <1>2
  <2>5. Brought(log, 1, value, log)
    <3>1. log \in 0..log
      BY <1>1
    <3> QED BY <1>1, <2>4, <3>1, BroughtBy
  <2> QED BY <2>1, <2>3, <2>5
<1>4. ASSUME count > 1 PROVE Brought(log, A, value, nb)
  <2>1. A = count /\ count \in Nat
    BY <1>4 DEF Abs
  <2>2. PICK m \in 1..log : CountSplit(log, count, m)
    BY <1>4, <2>1, CountBits
  <2> DEFINE P == Power(m)
             D == Power(m - 1)
             K == count * P
  <2>5. m \in 1..15 /\ m \in 1..log /\ m - 1 \in 0..log /\ m \in 0..log /\ m \in 0..15
    BY <2>2 DEF CountSplit
  <2>7. P \in Nat \ {0} /\ D \in Nat \ {0} /\ P = 2 * D
    BY <2>2 DEF CountSplit
  <2>9. K \in Nat /\ size < K /\ K <= 2 * size
    BY <2>2 DEF CountSplit
  <2>10. K = (2 * count) * D /\ (2 * count) * P = 2 * K
    <3> DEFINE d == Power(m - 1)
    <3>1. d \in Nat /\ P = 2 * d
      BY <2>7
    <3> HIDE DEF d, P
    <3>2. count * P = (2 * count) * d /\ (2 * count) * P = 2 * (count * P)
      BY <2>1, <3>1, Z3
    <3> QED BY <3>2 DEF d
  <2>11. V = value + m * 65536 - K
    BY <2>2 DEF CountSplit
  <2> HIDE DEF K, V, D, P
  <2>12. CASE K <= value
    <3>1. value < 2 * size
      OBVIOUS
    <3>2. nb = m
      <4> DEFINE d == value - K
      <4>1. d \in Int /\ 0 <= d /\ d <= 65535 /\ V = m * 65536 + d
        BY ONLY <1>2, <2>5, <2>9, <2>11, <2>12, <3>1, value \in Nat
      <4> HIDE DEF d
      <4>2. (m * 65536 + d) \div 65536 = m
        BY <2>5, <4>1, HighHalf
      <4> QED BY <4>1, <4>2
    <3>3. count * Power(m) <= value /\ value < (2 * count) * Power(m)
      <4>1. value < 2 * size
        OBVIOUS
      <4>2. value < 2 * K
        <5> HIDE DEF size
        <5> QED BY <1>2, <2>9, <4>1
      <4> QED BY <2>10, <2>12, <4>2 DEF K, P
    <3>4. Brought(log, count, value, m)
      BY <1>1, <2>1, <2>5, <3>3, BroughtBy
    <3> HIDE DEF nb, A
    <3> QED BY <2>1, <3>2, <3>4, Zenon
  <2>13. CASE ~(K <= value)
    <3>1. size <= value
      OBVIOUS
    <3>2. nb = m - 1
      <4> DEFINE d == 65536 - (K - value)
                 w == m - 1
      <4>1. d \in Int /\ 0 <= d /\ d <= 65535 /\ V = w * 65536 + d /\ w \in 0..15
        BY ONLY <1>2, <2>5, <2>9, <2>11, <2>13, <3>1, value \in Nat
      <4> HIDE DEF d, w
      <4>2. (w * 65536 + d) \div 65536 = w
        BY <4>1, HighHalf
      <4> QED BY <4>1, <4>2 DEF w
    <3>3. value < (2 * count) * Power(m - 1)
      <4>1. value < K
        BY <2>9, <2>13
      <4> QED BY <2>10, <4>1 DEF D
    <3>4. count * Power(m - 1) <= value
      <4>1. K <= 2 * size /\ size <= value /\ K = 2 * (count * D) /\ count * D \in Nat
        <5>1. D \in Nat
          BY <2>7 DEF D
        <5>2. (2 * count) * D = 2 * (count * D) /\ count * D \in Nat
          BY <2>1, <5>1, Z3
        <5> QED BY <2>9, <2>10, <5>2
      <4> DEFINE e == count * D
      <4> HIDE DEF e, size
      <4>2. e <= value
        BY <1>2, <4>1 DEF e
      <4> QED BY <4>2 DEF e, D
    <3> DEFINE w == m - 1
    <3>5. w \in 0..log /\ count * Power(w) <= value /\ value < (2 * count) * Power(w)
      BY <2>5, <3>3, <3>4
    <3> HIDE DEF w
    <3>6. Brought(log, count, value, w)
      BY <1>1, <2>1, <3>5, BroughtBy
    <3> HIDE DEF nb, A
    <3> QED BY <2>1, <3>2, <3>6, Zenon DEF w
  <2> HIDE DEF nb, A
  <2> QED BY <2>12, <2>13, Zenon
<1>5. count \in {-1, 1} \/ count > 1
  OBVIOUS
<1>6. Brought(log, A, value, nb)
  <2> HIDE DEF nb, A
  <2> QED BY <1>3, <1>4, <1>5, Zenon
<1> QED BY ONLY <1>6

(* A state to start from is brought to the count itself.  In a table of 15 *)
(* bits the rounding of init_state2 would take a count's step for a short  *)
(* one.                                                                    *)
StartBits(dnb) == (dnb + 32768) \div 65536

LEMMA StartIs ==
  ASSUME NEW log \in TableLogs, log <= 14, NEW count \in Int, count # 0, count >= -1,
         Abs(count) <= Power(log)
  PROVE  LET dnb == DeltaNbBits(count, log)
             nb  == StartBits(dnb)
         IN  nb \in 0..log /\ (nb * 65536 - dnb) \div Power(nb) = Abs(count)
<1> DEFINE size == Power(log)
           A    == Abs(count)
           dnb  == DeltaNbBits(count, log)
           nb   == StartBits(dnb)
           Start == nb \in 0..log /\ (nb * 65536 - dnb) \div Power(nb) = A
<1>1. log \in 0..14 /\ log \in 0..15 /\ log \in 0..30
  BY DEF TableLogs
<1>2. size \in Nat /\ size >= 1 /\ size <= 16384
  <2>1. Power(log) <= Power(14)
    BY <1>1, PowerGrows
  <2> QED BY <1>1, <2>1, PowerNat, PowerValues
<1>3. ASSUME NEW m \in 0..log, NEW K \in Nat, NEW c \in Nat, A = c, K <= 32768, 1 <= K,
             dnb = m * 65536 - K, K = c * Power(m), Power(m) \in Nat \ {0}
      PROVE  Start
  <2> HIDE DEF dnb
  <2>1. nb = m
    <3> DEFINE d == 32768 - K
    <3>1. d \in Int /\ 0 <= d /\ d <= 65535 /\ dnb + 32768 = m * 65536 + d /\ m \in 0..15
      BY <1>1, <1>3
    <3> HIDE DEF d
    <3>2. (m * 65536 + d) \div 65536 = m
      BY <3>1, HighHalf
    <3> QED BY <3>1, <3>2 DEF StartBits
  <2>2. m * 65536 - dnb = K
    BY <1>1, <1>3
  <2>3. K \div Power(m) = c
    <3> DEFINE P == Power(m)
               e == c + 1
    <3>1. P \in Nat \ {0} /\ K = c * P /\ e \in Nat
      BY <1>3
    <3> HIDE DEF P
    <3>2. c * P <= K
      BY <3>1
    <3>3. c <= K \div P
      BY <3>1, <3>2, QuotientBounds
    <3>4. K < e * P
      <4>1. (c + 1) * P = c * P + P
        BY <3>1, Z3
      <4> QED BY <3>1, <4>1
    <3> HIDE DEF e
    <3>5. K \div P < e
      BY <3>1, <3>4, QuotientBounds
    <3>6. K \div P \in Nat
      BY <3>1, DivMod
    <3>7. K \div P = c
      BY <3>3, <3>5, <3>6 DEF e
    <3> QED BY <3>7 DEF P
  <2> HIDE DEF nb, A
  <2> QED BY <1>3, <2>1, <2>2, <2>3
<1>4. ASSUME count \in {-1, 1} PROVE Start
  <2>1. A = 1
    BY <1>4 DEF Abs
  <2>2. dnb = log * 65536 - size
    BY <1>4 DEF DeltaNbBits, Power
  <2>3. log \in 0..log /\ size = 1 * Power(log) /\ Power(log) \in Nat \ {0}
    BY <1>1, <1>2
  <2>4. size \in Nat /\ size <= 32768 /\ 1 <= size
    BY <1>2
  <2> HIDE DEF Start, size, dnb, A
  <2> QED BY <1>3, <2>1, <2>2, <2>3, <2>4
<1>5. ASSUME count > 1 PROVE Start
  <2>1. A = count /\ count \in Nat
    BY <1>5 DEF Abs
  <2>2. PICK m \in 1..log : CountSplit(log, count, m)
    BY <1>5, <2>1, CountBits
  <2> DEFINE K == count * Power(m)
  <2>3. m \in 0..log /\ dnb = m * 65536 - K /\ Power(m) \in Nat \ {0}
    BY <2>2 DEF CountSplit
  <2>4. K \in Nat /\ K = count * Power(m)
    BY <2>2 DEF CountSplit
  <2>5. size < K /\ K <= 2 * size
    BY <2>2 DEF CountSplit
  <2> HIDE DEF K
  <2>6. K <= 32768 /\ 1 <= K
    <3> HIDE DEF size
    <3> QED BY <1>2, <2>4, <2>5
  <2> HIDE DEF Start, size, dnb, A
  <2> QED BY <1>3, <2>1, <2>3, <2>4, <2>6
<1>6. count \in {-1, 1} \/ count > 1
  OBVIOUS
<1>7. Start
  <2> HIDE DEF Start
  <2> QED BY <1>4, <1>5, <1>6, Zenon
<1> QED BY ONLY <1>7

(* The entries of the encoding table, and of the decoding table.           *)
All(counts) == Sums(Sizes(counts), Len(counts))
StateAt(counts, log, k) ==
  LET i == Taker(All(counts), Len(counts), k - 1)
  IN  2^log - 1 + CellOf(spread(counts, log), RanksOf(spread(counts, log)), i - 1,
                         k - 1 - All(counts)[i - 1])
FindState(counts, i) ==
  IF counts[i] = 0 THEN 0 ELSE All(counts)[i - 1] - Abs(counts[i])

LEMMA CtableIs ==
  ASSUME NEW counts, NEW log, Counted(counts, log)
  PROVE  LET n  == Len(counts)
             ct == build_ctable(counts, log)
         IN  /\ ct.log = log /\ DOMAIN ct.present = 1..n
             /\ \A i \in 1..n : /\ ct.present[i] = (counts[i] # 0)
                                /\ ct.delta_nb_bits[i] = DeltaNbBits(counts[i], log)
                                /\ ct.delta_find_state[i] = FindState(counts, i)
             /\ \A k \in 1..2^log : ct.states[k] = StateAt(counts, log, k)
<1> DEFINE n    == Len(counts)
           size == 2^log
           ct   == build_ctable(counts, log)
           St   == [k \in 1..size |-> StateAt(counts, log, k)]
           Nb   == [i \in 1..n |-> DeltaNbBits(counts[i], log)]
           Fs   == [i \in 1..n |-> FindState(counts, i)]
           Pr   == [i \in 1..n |-> counts[i] # 0]
<1>1. n \in Nat /\ size \in Nat
  BY CountsRun, WalkIs DEF Counted
<1>2. ct = [log |-> log, states |-> Listed(St), delta_nb_bits |-> Listed(Nb),
            delta_find_state |-> Listed(Fs), present |-> Listed(Pr)]
  BY DEF build_ctable, StateAt, FindState, All, Sizes, RanksOf
<1>3. Listed(St) = St
  <2>1. DOMAIN St = 1..size /\ St = [k \in 1..size |-> St[k]]
    OBVIOUS
  <2> HIDE DEF St, size
  <2> QED BY <1>1, <2>1, ListedIs
<1>4. Listed(Nb) = Nb
  <2>1. DOMAIN Nb = 1..n /\ Nb = [k \in 1..n |-> Nb[k]]
    OBVIOUS
  <2> HIDE DEF Nb, n
  <2> QED BY <1>1, <2>1, ListedIs
<1>5. Listed(Fs) = Fs
  <2>1. DOMAIN Fs = 1..n /\ Fs = [k \in 1..n |-> Fs[k]]
    OBVIOUS
  <2> HIDE DEF Fs, n
  <2> QED BY <1>1, <2>1, ListedIs
<1>6. Listed(Pr) = Pr
  <2>1. DOMAIN Pr = 1..n /\ Pr = [k \in 1..n |-> Pr[k]]
    OBVIOUS
  <2> HIDE DEF Pr, n
  <2> QED BY <1>1, <2>1, ListedIs
<1>7. /\ ct.log = log /\ ct.states = St /\ ct.delta_nb_bits = Nb
      /\ ct.delta_find_state = Fs /\ ct.present = Pr
  <2> HIDE DEF ct, St, Nb, Fs, Pr
  <2> QED BY <1>2, <1>3, <1>4, <1>5, <1>6
<1>8. /\ \A k \in 1..size : St[k] = StateAt(counts, log, k)
      /\ \A i \in 1..n : Nb[i] = DeltaNbBits(counts[i], log) /\ Fs[i] = FindState(counts, i)
                         /\ Pr[i] = (counts[i] # 0)
      /\ DOMAIN Pr = 1..n
  <2> HIDE DEF size, n
  <2> QED BY Zenon
<1> HIDE DEF St, Nb, Fs, Pr, ct
<1> QED BY <1>7, <1>8, Zenon DEF ct, n, size

LEMMA DtableIs ==
  ASSUME NEW counts, NEW log, Counted(counts, log)
  PROVE  LET dt == build_dtable(counts, log)
         IN  /\ dt.log = log
             /\ \A u \in 0..(2^log - 1) :
                  dt.entries[u] = DecodeEntry(counts, log, spread(counts, log), u)
<1> DEFINE size == 2^log
           Ds   == [u \in 0..(size - 1) |-> DecodeEntry(counts, log, spread(counts, log), u)]
           dt   == build_dtable(counts, log)
<1>1. dt = [log |-> log, entries |-> Ds]
  BY DEF build_dtable, Counted
<1>2. dt.log = log /\ dt.entries = Ds
  <2> HIDE DEF Ds, dt
  <2> QED BY <1>1
<1>3. \A u \in 0..(size - 1) : Ds[u] = DecodeEntry(counts, log, spread(counts, log), u)
  <2> HIDE DEF size
  <2> QED OBVIOUS
<1> HIDE DEF Ds, dt
<1> QED BY <1>2, <1>3 DEF dt, size

(* A symbol's transitions lead to its cells: the r-th to the cell that has *)
(* r of them before it.                                                    *)
LEMMA StateIs ==
  ASSUME NEW counts, NEW log, Counted(counts, log), NEW i \in 1..Len(counts),
         NEW r \in 0..(Abs(counts[i]) - 1), counts[i] # 0
  PROVE  LET cells == spread(counts, log)
             k     == All(counts)[i - 1] + r + 1
         IN  /\ All(counts)[i - 1] \in Nat /\ k \in 1..2^log
             /\ \E c \in 1..2^log : /\ StateAt(counts, log, k) = 2^log - 1 + c
                                    /\ cells[c] = i - 1 /\ Cardinality(Earlier(cells, c)) = r
<1> DEFINE n     == Len(counts)
           size  == 2^log
           cells == spread(counts, log)
           all   == All(counts)
           A     == Abs(counts[i])
           j     == all[i - 1] + r
           k     == j + 1
           c     == CellOf(cells, RanksOf(cells), i - 1, r)
<1>1. Sizes(counts) \in [1..n -> Nat] /\ Running(all, Sizes(counts), n) /\ all[n] = size
  BY SizesRun DEF All
<1>2. n \in Nat /\ size \in Nat \ {0} /\ A \in Nat \ {0}
  BY CountsRun, WalkIs, CellsOf DEF Counted
<1>3. c \in 1..size /\ cells[c] = i - 1 /\ Cardinality(Earlier(cells, c)) = r
  BY CellIs
<1>4. i - 1 \in 0..n /\ i \in 0..n /\ n \in 0..n /\ i <= n /\ i \in 1..n
  BY <1>2
<1>5. Sizes(counts)[i] = A
  BY <1>4 DEF Sizes
<1> HIDE DEF n, size, all, A
<1>6. all[i - 1] \in Nat /\ all[i] = all[i - 1] + A
  BY <1>1, <1>4, <1>5 DEF Running
<1>7. all[i] <= size
  BY <1>1, <1>2, <1>4, RunningGrows
<1>8. r \in 0..(A - 1)
  BY DEF A
<1>9. j \in Nat /\ all[i - 1] <= j /\ j < all[i] /\ j < size
  BY <1>2, <1>6, <1>7, <1>8
<1>10. k \in 1..size /\ k - 1 = j /\ k - 1 - all[i - 1] = r
  BY <1>2, <1>6, <1>8, <1>9
<1> HIDE DEF c
<1>11. Taker(all, n, j) = i
  <2> HIDE DEF j
  <2>1. Takes(all, i, j)
    BY <1>9 DEF Takes
  <2>2. j < all[n]
    BY <1>1, <1>9
  <2>3. /\ \A a, b \in 1..n : Takes(all, a, j) /\ Takes(all, b, j) => a = b
        /\ Taker(all, n, j) \in 1..n /\ Takes(all, Taker(all, n, j), j)
    BY <1>1, <1>2, <1>9, <2>2, TakerIs
  <2> QED BY <1>4, <2>1, <2>3, Zenon
<1>12. StateAt(counts, log, k) = size - 1 + c
  <2> HIDE DEF k, j
  <2>1. Taker(all, n, k - 1) = i
    BY <1>10, <1>11
  <2>2. StateAt(counts, log, k) = size - 1 + CellOf(cells, RanksOf(cells), i - 1, k - 1 - all[i - 1])
    BY <2>1 DEF StateAt, all, n, size
  <2>3. k - 1 - all[i - 1] = r
    BY <1>10
  <2> QED BY <2>2, <2>3 DEF c
<1> QED BY <1>3, <1>6, <1>10, <1>12 DEF size, all

(* The states of a table, and one step of the encoder, undone by the       *)
(* decoder's table.                                                        *)
States(log) == 2^log..(2^(log + 1) - 1)
Undone(ct, dt, i, value, nb, e) ==
  e.symbol = i - 1 /\ e.num_bits = nb /\ e.base + (value % 2^nb) = value - 2^ct.log

LEMMA StatesAre ==
  ASSUME NEW log \in TableLogs
  PROVE  /\ 2^log = Power(log) /\ 2^log \in Nat \ {0} /\ log \in 0..29
         /\ \A value : value \in States(log) <=>
              value \in Nat /\ Power(log) <= value /\ value < 2 * Power(log)
<1>1. log \in 0..29 /\ log \in 0..30
  BY DEF TableLogs
<1>2. Power(log + 1) = 2 * Power(log)
  BY <1>1, PowerDoubles
<1>3. 2^log = Power(log) /\ 2^(log + 1) = Power(log + 1)
  BY DEF Power
<1>4. Power(log) \in Nat /\ Power(log) >= 1
  BY <1>1, PowerNat
<1> DEFINE a == Power(log)
<1>5. States(log) = a..(2 * a - 1)
  BY <1>2, <1>3 DEF States
<1>6. a \in Nat /\ a >= 1
  BY <1>4
<1> HIDE DEF a
<1>7. \A value : value \in States(log) <=> value \in Nat /\ a <= value /\ value < 2 * a
  BY <1>5, <1>6
<1> QED BY <1>1, <1>3, <1>4, <1>7 DEF a

(* No count is greater than the size.                                      *)
LEMMA CountFits ==
  ASSUME NEW counts, NEW log, Counted(counts, log), NEW i \in 1..Len(counts), counts[i] # 0
  PROVE  Abs(counts[i]) <= Power(log)
<1> DEFINE n    == Len(counts)
           size == 2^log
           A    == Abs(counts[i])
           all  == All(counts)
<1>1. n \in Nat /\ size \in Nat /\ size = Power(log) /\ A \in Nat /\ i \in 1..n
  <2>1. n \in Nat
    BY CountsRun
  <2>2. A \in Nat
    BY CellsOf
  <2>3. log \in TableLogs
    BY DEF Counted
  <2>4. size = Power(log) /\ size \in Nat
    BY <2>3, StatesAre
  <2> QED BY <2>1, <2>2, <2>4
<1>2. Sizes(counts) \in [1..n -> Nat] /\ Running(all, Sizes(counts), n) /\ all[n] = size
  BY SizesRun DEF All
<1>3. Sizes(counts)[i] = A
  BY DEF Sizes
<1> HIDE DEF all, size, n, A
<1>4. i - 1 \in 0..n /\ i \in 0..n /\ n \in 0..n /\ i <= n
  BY <1>1
<1>5. all[i - 1] \in Nat /\ all[i] = all[i - 1] + A
  BY <1>1, <1>2, <1>3, <1>4 DEF Running
<1>6. all[i] <= size
  BY <1>1, <1>2, <1>4, RunningGrows
<1>7. A <= Power(log)
  BY <1>1, <1>5, <1>6
<1> QED BY <1>7 DEF A

LEMMA StepUndone ==
  ASSUME NEW counts, NEW log, Counted(counts, log), NEW i \in 1..Len(counts), counts[i] # 0,
         NEW value \in States(log)
  PROVE  LET ct == build_ctable(counts, log)
             dt == build_dtable(counts, log)
             nb == NbBitsOut(ct, value, i - 1)
         IN  /\ NextState(ct, value, nb, i - 1) \in States(log)
             /\ Undone(ct, dt, i, value, nb,
                       dt.entries[NextState(ct, value, nb, i - 1) - 2^ct.log])
<1> DEFINE n    == Len(counts)
           size == 2^log
           ct   == build_ctable(counts, log)
           dt   == build_dtable(counts, log)
           cells == spread(counts, log)
           A    == Abs(counts[i])
           nb   == NbBitsOut(ct, value, i - 1)
           x    == value \div Power(nb)
           from == All(counts)[i - 1]
           r    == x - A
           k    == from + r + 1
<1>1. /\ n \in Nat /\ size \in Nat \ {0} /\ A \in Nat \ {0} /\ counts[i] \in Int /\ counts[i] >= -1
      /\ log \in TableLogs /\ log \in 0..29 /\ i \in 1..n /\ (i - 1) + 1 = i
  <2>1. counts[i] \in Int /\ counts[i] >= -1 /\ n \in Nat
    BY CountsRun
  <2>2. A \in Nat \ {0}
    BY CellsOf
  <2>3. size \in Nat \ {0} /\ log \in TableLogs
    BY WalkIs DEF Counted
  <2>4. log \in 0..29
    BY <2>3 DEF TableLogs
  <2> HIDE DEF A, size
  <2> QED BY <2>1, <2>2, <2>3, <2>4
<1>2. /\ ct.log = log /\ ct.delta_nb_bits[i] = DeltaNbBits(counts[i], log)
      /\ ct.delta_find_state[i] = from - A
      /\ \A q \in 1..size : ct.states[q] = StateAt(counts, log, q)
  <2>1. /\ ct.log = log /\ ct.delta_nb_bits[i] = DeltaNbBits(counts[i], log)
        /\ ct.delta_find_state[i] = FindState(counts, i)
        /\ \A q \in 1..size : ct.states[q] = StateAt(counts, log, q)
    BY CtableIs
  <2>2. FindState(counts, i) = from - A
    BY DEF FindState
  <2> QED BY <2>1, <2>2, Zenon
<1>3. \A u \in 0..(size - 1) : dt.entries[u] = DecodeEntry(counts, log, cells, u)
  BY DtableIs
<1> HIDE DEF ct, dt, cells
<1>4. size = Power(log) /\ value \in Nat /\ Power(log) <= value /\ value < 2 * Power(log)
  BY <1>1, StatesAre
<1>5. A <= Power(log)
  BY CountFits
<1>6. Brought(log, A, value, nb)
  <2>1. nb = (value + DeltaNbBits(counts[i], log)) \div 65536
    BY <1>1, <1>2 DEF NbBitsOut
  <2> HIDE DEF nb
  <2>2. Brought(log, A, value, (value + DeltaNbBits(counts[i], log)) \div 65536)
    <3> DEFINE count == counts[i]
    <3>1. count \in Int /\ count >= -1 /\ count # 0 /\ Abs(count) <= Power(log)
      BY <1>1, <1>5
    <3> HIDE DEF count
    <3>2. Brought(log, Abs(count), value, (value + DeltaNbBits(count, log)) \div 65536)
      BY <1>1, <1>4, <3>1, StepBits
    <3> QED BY <3>2 DEF count
  <2> QED BY <2>1, <2>2
<1> HIDE DEF nb
<1>7. /\ nb \in 0..log /\ x \in Nat /\ A <= x /\ x < 2 * A /\ highbit32(x) = log - nb
      /\ x * Power(nb) + (value % Power(nb)) = value
  BY <1>6 DEF Brought
<1>8. 2^nb = Power(nb)
  BY DEF Power
<1> HIDE DEF x, A, size
<1>9. r \in 0..(A - 1) /\ A + r = x
  BY <1>1, <1>7
<1> HIDE DEF r
<1>10. /\ from \in Nat /\ k \in 1..size
       /\ \E c \in 1..size : /\ StateAt(counts, log, k) = size - 1 + c
                             /\ cells[c] = i - 1 /\ Cardinality(Earlier(cells, c)) = r
  <2>1. r \in 0..(Abs(counts[i]) - 1)
    BY <1>9 DEF A
  <2> QED BY <2>1, StateIs DEF size, cells
<1>11. PICK c \in 1..size : /\ StateAt(counts, log, k) = size - 1 + c
                            /\ cells[c] = i - 1 /\ Cardinality(Earlier(cells, c)) = r
  BY <1>10, Zenon
<1> HIDE DEF from
<1>12. NextState(ct, value, nb, i - 1) = size - 1 + c
  <2>1. NextState(ct, value, nb, i - 1) = ct.states[x + ct.delta_find_state[i] + 1]
    BY <1>1, <1>8 DEF NextState, x
  <2>2. x + ct.delta_find_state[i] + 1 = k
    BY <1>1, <1>2, <1>9, <1>10
  <2> HIDE DEF k
  <2>3. ct.states[k] = StateAt(counts, log, k)
    BY <1>2, <1>10
  <2> QED BY <1>11, <2>1, <2>2, <2>3
<1> DEFINE u == c - 1
<1>13. u \in 0..(size - 1) /\ u + 1 = c /\ NextState(ct, value, nb, i - 1) - size = u
  BY <1>1, <1>12
<1> HIDE DEF u
<1> DEFINE e == dt.entries[u]
<1>14. e = [symbol |-> i - 1, num_bits |-> nb, base |-> x * 2^nb - size]
  <2>1. e = DecodeEntry(counts, log, cells, u)
    BY <1>3, <1>13
  <2>2. DecodeEntry(counts, log, cells, u)
          = [symbol |-> i - 1, num_bits |-> log - highbit32(A + r),
             base |-> (A + r) * 2^(log - highbit32(A + r)) - size]
    BY <1>1, <1>11, <1>13 DEF DecodeEntry, A, size
  <2>3. log - highbit32(x) = nb
    BY <1>1, <1>7
  <2> HIDE DEF e
  <2> QED BY <1>9, <2>1, <2>2, <2>3
<1> HIDE DEF e
<1>15. e.symbol = i - 1 /\ e.num_bits = nb /\ e.base = x * 2^nb - size
  BY <1>14
<1>16. e.base + (value % 2^nb) = value - size
  <2> DEFINE a == x * 2^nb
             b == value % 2^nb
  <2>1. a + b = value
    BY <1>7, <1>8
  <2>2. a \in Nat /\ b \in Nat
    <3>1. Power(nb) \in Nat /\ Power(nb) >= 1
      <4>1. nb \in 0..30
        BY <1>1, <1>7
      <4> QED BY <4>1, PowerNat
    <3> DEFINE P == Power(nb)
    <3>2. P \in Nat \ {0}
      BY <3>1
    <3> HIDE DEF P
    <3>3. value % P \in 0..(P - 1) /\ x * P \in Nat
      <4>1. x * P \in Nat
        BY <1>7, <3>2, Z3
      <4>2. value % P \in 0..(P - 1)
        BY <1>4, <3>2, DivMod
      <4> QED BY <4>1, <4>2
    <3>4. value % P \in Nat
      BY <3>2, <3>3
    <3> QED BY <1>8, <3>3, <3>4 DEF P
  <2>3. e.base = a - size
    BY <1>15
  <2> HIDE DEF a, b
  <2>4. e.base + b = value - size
    BY <1>1, <2>1, <2>2, <2>3
  <2> QED BY <2>4 DEF b
<1>17. dt.entries[NextState(ct, value, nb, i - 1) - 2^ct.log] = e
  <2>1. 2^ct.log = size
    BY <1>2 DEF size
  <2> QED BY <1>13, <2>1 DEF e
<1>18. 2^ct.log = size
  BY <1>2 DEF size
<1>19. Undone(ct, dt, i, value, nb, e)
  BY <1>15, <1>16, <1>18 DEF Undone
<1>20. NextState(ct, value, nb, i - 1) \in States(log)
  <2> DEFINE v == NextState(ct, value, nb, i - 1)
  <2>1. v \in Nat /\ size <= v /\ v < 2 * size
    BY <1>1, <1>12
  <2> HIDE DEF v
  <2>2. v \in States(log)
    BY <1>1, <1>4, <2>1, StatesAre
  <2> QED BY <2>2 DEF v
<1> QED BY <1>17, <1>19, <1>20 DEF ct, dt, nb

(* The state to start from is a state of the table, at a cell of its       *)
(* symbol.                                                                 *)
Begins(ct, dt, i) ==
  /\ init_state2(ct, i - 1) \in States(ct.log)
  /\ dt.entries[init_state2(ct, i - 1) - 2^ct.log].symbol = i - 1

LEMMA StartUndone ==
  ASSUME NEW counts, NEW log, Counted(counts, log), log <= 14,
         NEW i \in 1..Len(counts), counts[i] # 0
  PROVE  Begins(build_ctable(counts, log), build_dtable(counts, log), i)
<1> DEFINE size == 2^log
           ct   == build_ctable(counts, log)
           dt   == build_dtable(counts, log)
           cells == spread(counts, log)
           A    == Abs(counts[i])
           dnb  == DeltaNbBits(counts[i], log)
           nb   == StartBits(dnb)
           from == All(counts)[i - 1]
           k    == from + 0 + 1
           v    == init_state2(ct, i - 1)
<1>1. /\ A \in Nat \ {0} /\ counts[i] \in Int /\ counts[i] >= -1 /\ log \in TableLogs
      /\ size = Power(log) /\ size \in Nat \ {0} /\ (i - 1) + 1 = i
  <2>1. counts[i] \in Int /\ counts[i] >= -1
    BY CountsRun
  <2>2. A \in Nat \ {0}
    BY CellsOf
  <2>3. log \in TableLogs
    BY DEF Counted
  <2>4. size = Power(log) /\ size \in Nat \ {0}
    BY <2>3, StatesAre
  <2>5. Len(counts) \in Nat
    BY CountsRun
  <2>6. (i - 1) + 1 = i
    BY <2>5
  <2> QED BY <2>1, <2>2, <2>3, <2>4, <2>6, Zenon
<1>2. /\ ct.log = log /\ ct.delta_nb_bits[i] = dnb
      /\ ct.delta_find_state[i] = from - A
      /\ \A q \in 1..size : ct.states[q] = StateAt(counts, log, q)
  <2>1. /\ ct.log = log /\ ct.delta_nb_bits[i] = DeltaNbBits(counts[i], log)
        /\ ct.delta_find_state[i] = FindState(counts, i)
        /\ \A q \in 1..size : ct.states[q] = StateAt(counts, log, q)
    BY CtableIs
  <2>2. FindState(counts, i) = from - A
    BY DEF FindState
  <2> QED BY <2>1, <2>2, Zenon
<1>3. \A u \in 0..(size - 1) : dt.entries[u] = DecodeEntry(counts, log, cells, u)
  BY DtableIs
<1>4. A <= Power(log)
  BY CountFits
<1>5. (nb * 65536 - dnb) \div Power(nb) = A
  <2> DEFINE count == counts[i]
  <2>1. count \in Int /\ count >= -1 /\ count # 0 /\ Abs(count) <= Power(log)
    BY <1>1, <1>4
  <2> HIDE DEF count
  <2>2. LET d == DeltaNbBits(count, log)
            b == StartBits(d)
        IN  (b * 65536 - d) \div Power(b) = Abs(count)
    BY <1>1, <2>1, StartIs
  <2> QED BY <2>2 DEF count
<1>6. /\ from \in Nat /\ k \in 1..size
      /\ \E c \in 1..size : /\ StateAt(counts, log, k) = size - 1 + c
                            /\ cells[c] = i - 1 /\ Cardinality(Earlier(cells, c)) = 0
  <2>1. 0 \in 0..(Abs(counts[i]) - 1)
    BY <1>1
  <2> QED BY <2>1, StateIs
<1> HIDE DEF ct, dt, cells
<1>7. PICK c \in 1..size : StateAt(counts, log, k) = size - 1 + c /\ cells[c] = i - 1
  BY <1>6, Zenon
<1>8. v = ct.states[A + ct.delta_find_state[i] + 1]
  <2>1. 2^nb = Power(nb)
    BY DEF Power
  <2>2. v = ct.states[((nb * 65536 - dnb) \div 2^nb) + ct.delta_find_state[i] + 1]
    BY <1>1, <1>2 DEF init_state2, NextState, StartBits
  <2> HIDE DEF nb, dnb
  <2> QED BY <1>5, <2>1, <2>2
<1> HIDE DEF size, from, A, dnb, nb
<1>9. v = size - 1 + c
  <2>1. A + ct.delta_find_state[i] + 1 = k
    BY <1>1, <1>2, <1>6
  <2> HIDE DEF k
  <2>2. ct.states[k] = StateAt(counts, log, k)
    BY <1>2, <1>6
  <2> QED BY <1>7, <1>8, <2>1, <2>2
<1> HIDE DEF v
<1>10. v \in States(log)
  <2>1. v \in Nat /\ size <= v /\ v < 2 * size
    BY <1>1, <1>9
  <2> QED BY <1>1, <2>1, StatesAre
<1>11. dt.entries[v - size].symbol = i - 1
  <2> DEFINE u == c - 1
  <2>1. u \in 0..(size - 1) /\ u + 1 = c /\ v - size = u
    BY <1>1, <1>9
  <2> HIDE DEF u
  <2>2. dt.entries[u] = DecodeEntry(counts, log, cells, u)
    BY <1>3, <2>1
  <2>3. DecodeEntry(counts, log, cells, u).symbol = i - 1
    BY <1>7, <2>1 DEF DecodeEntry
  <2> QED BY <2>1, <2>2, <2>3
<1> QED BY <1>2, <1>10, <1>11 DEF Begins, v, size, ct, dt

(* What build_ctable and build_dtable promise of the tables they make from *)
(* the same counts.                                                        *)
Stays(ct) ==
  \A i \in DOMAIN ct.present : ct.present[i] =>
    \A value \in States(ct.log) :
      NextState(ct, value, NbBitsOut(ct, value, i - 1), i - 1) \in States(ct.log)
TablesInvert ==
  \A log \in TableLogs : \A counts \in Seq(Int) :
    LET ct == build_ctable(counts, log)
        dt == build_dtable(counts, log)
    IN  (\A i \in 1..Len(counts) : counts[i] >= -1) /\ dt # None =>
          /\ Matches(ct, dt) /\ Stays(ct)
          /\ log <= 14 => \A i \in DOMAIN ct.present : ct.present[i] => Begins(ct, dt, i)

(* The two tables of the same counts are exact inverses: whatever state    *)
(* the encoder is in, its step for a symbol ends in a state of the table,  *)
(* and the entry there gives back the symbol, as many bits, and the state; *)
(* the state a stream starts from is the symbol's (build_ctable,           *)
(* encode_symbol, init_state2 against build_dtable).                       *)
THEOREM TablesAreInverse == TablesInvert
<1> SUFFICES ASSUME NEW log \in TableLogs, NEW counts \in Seq(Int),
                    \A i \in 1..Len(counts) : counts[i] >= -1,
                    build_dtable(counts, log) # None
             PROVE  LET ct == build_ctable(counts, log)
                        dt == build_dtable(counts, log)
                    IN  /\ Matches(ct, dt) /\ Stays(ct)
                        /\ log <= 14 =>
                             \A i \in DOMAIN ct.present : ct.present[i] => Begins(ct, dt, i)
  BY Zenon DEF TablesInvert
<1> DEFINE ct == build_ctable(counts, log)
           dt == build_dtable(counts, log)
<1>1. Counted(counts, log)
  <2>1. Covers(counts, log)
    BY DEF build_dtable
  <2> QED BY <2>1 DEF Counted
<1>2. ct.log = log /\ dt.log = log /\ DOMAIN ct.present = 1..Len(counts)
  BY <1>1, CtableIs, DtableIs
<1>3. \A i \in DOMAIN ct.present : ct.present[i] => i \in 1..Len(counts) /\ counts[i] # 0
  <2>1. \A i \in 1..Len(counts) : ct.present[i] = (counts[i] # 0)
    BY <1>1, CtableIs
  <2> HIDE DEF ct
  <2> QED BY <1>2, <2>1
<1>4. ASSUME NEW i \in DOMAIN ct.present, ct.present[i], NEW value \in States(log)
      PROVE  LET nb == NbBitsOut(ct, value, i - 1)
             IN  /\ NextState(ct, value, nb, i - 1) \in States(log)
                 /\ Undone(ct, dt, i, value, nb,
                           dt.entries[NextState(ct, value, nb, i - 1) - 2^ct.log])
  <2>1. i \in 1..Len(counts) /\ counts[i] # 0
    BY <1>3, <1>4
  <2> QED BY <1>1, <2>1, StepUndone
<1>5. ASSUME log <= 14, NEW i \in DOMAIN ct.present, ct.present[i]
      PROVE  Begins(ct, dt, i)
  <2>1. i \in 1..Len(counts) /\ counts[i] # 0
    BY <1>3, <1>5
  <2> QED BY <1>1, <1>5, <2>1, StartUndone
<1> HIDE DEF ct, dt
<1>6. Matches(ct, dt)
  <2>1. ct.log = dt.log
    BY <1>2
  <2>2. \A i \in DOMAIN ct.present : ct.present[i] =>
          \A value \in States(ct.log) :
            LET nb == NbBitsOut(ct, value, i - 1)
            IN  Undone(ct, dt, i, value, nb,
                       dt.entries[NextState(ct, value, nb, i - 1) - 2^ct.log])
    BY <1>2, <1>4
  <2> QED BY <2>1, <2>2 DEF Matches, Undone, States
<1>7. Stays(ct)
  BY <1>2, <1>4 DEF Stays
<1> QED BY <1>5, <1>6, <1>7 DEF ct, dt
=============================================================================

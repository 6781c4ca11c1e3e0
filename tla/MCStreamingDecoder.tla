------------------------- MODULE MCStreamingDecoder -------------------------
(***************************************************************************)
(* StreamingDecoder on every frame of up to MaxBlocks blocks drawn from a  *)
(* small stock, with and without dictionaries, compared with the one-shot  *)
(* decoder on the same input.                                              *)
(***************************************************************************)
EXTENDS DecoderContract

CONSTANTS MaxBlocks, Windows, Ids

Seq1(ll, ml, ov) == [ll |-> ll, ml |-> ml, ov |-> ov]
Plain(type, size, lits) ==
  [type |-> type, last |-> FALSE, size |-> size, malformed |-> FALSE,
   lits |-> lits, lit |-> "raw", repeat |-> FALSE, seqs |-> <<>>]
Comp(lit, lits, repeat, seqs) ==
  [type |-> "comp", last |-> FALSE, size |-> 1, malformed |-> FALSE,
   lits |-> lits, lit |-> lit, repeat |-> repeat, seqs |-> seqs]

(* Blocks a frame is made of: plain ones (one of them empty), matches at   *)
(* explicit and repeated offsets near and far, overlapping ones, a match   *)
(* at the far edge of the window, and two that do not decode.              *)
Stock ==
  { Plain("raw", 0, <<>>), Plain("raw", 2, <<0, 1>>), Plain("rle", 2, <<1>>),
    Comp("huff", <<0>>, FALSE, <<Seq1(1, 2, 4)>>),
    Comp("raw", <<>>, FALSE, <<Seq1(0, 1, 5)>>),
    Comp("treeless", <<1>>, TRUE, <<Seq1(1, 1, 6), Seq1(0, 1, 1)>>),
    Comp("raw", <<1>>, TRUE, <<Seq1(0, 1, 7)>>),
    Comp("raw", <<1>>, FALSE, <<Seq1(0, 1, 2), Seq1(1, 0, 1)>>),
    Comp("raw", <<0, 0>>, FALSE, <<Seq1(1, 2, 4)>>),
    [Plain("raw", 1, <<0>>) EXCEPT !.malformed = TRUE] }

EndFrame(bs) ==
  [i \in 1..Len(bs) |-> [bs[i] EXCEPT !.last = (i = Len(bs))]]

Bodies == UNION {[1..n -> Stock] : n \in 1..MaxBlocks}
FrameOf(w, id, bs) ==
  [window |-> w, content_size |-> None, dictionary_id |-> id,
   blocks |-> EndFrame(bs), has_checksum |-> FALSE, stored |-> None]
Base == {FrameOf(w, id, bs) : w \in Windows, id \in Ids, bs \in Bodies}

(* An empty window (a single-segment frame of no content) and one beyond   *)
(* the ceiling.                                                            *)
Odd == {FrameOf(w, 0, <<b>>) : w \in {0, WindowMax + 1}, b \in Stock}

(* The same with a pledge or a checksum that fits the content or does not, *)
(* and with the end of the frame cut off.                                  *)
Short == {f \in Base : Len(f.blocks) <= 2 /\ f.dictionary_id = 0}
Checked ==
  UNION {{[f EXCEPT !.content_size = n] : n \in 1..3} : f \in Short}
  \cup UNION {{[f EXCEPT !.has_checksum = TRUE, !.stored = h] :
                h \in {None, <<0, 1>>, <<1, 1, 0, 1>>}} : f \in Short}
  \cup {[f EXCEPT !.blocks = [i \in 1..Len(@) |-> [@[i] EXCEPT !.last = FALSE]]] :
          f \in Short}

MCFrames == Base \cup Odd \cup Checked
MCDicts ==
  { [id |-> 0, content |-> <<1, 0, 0, 1, 1>>, entropy |-> FALSE, rep |-> DefaultRep],
    [id |-> 7, content |-> <<0, 1, 1>>, entropy |-> TRUE, rep |-> <<3, 1, 2>>] }

MCSpec == ContractSpec /\ Fairness
=============================================================================

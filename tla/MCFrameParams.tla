--------------------------- MODULE MCFrameParams ---------------------------
(***************************************************************************)
(* FrameParams with sizes around every boundary: nothing, one byte, the    *)
(* smallest window, a block, the portable window and the long-distance     *)
(* window.                                                                 *)
(***************************************************************************)
EXTENDS FrameParams

(* 3 GiB; a little more and much more than 4 GiB; 1 TiB, the sixth byte.   *)
MCHugeSizes == {Size(3 * 2^20, 0), Size(2^22, 1), Size(2^22 + 2^21, 7), Size(2^30 + 2^22, 3)}
Around(n) == {Minus1(n), n, Plus(n, Size(0, 1))}
MCSizes ==
  {Size(0, 0), Size(0, 1), Size(0, 2)} \cup Around(Pow2(10)) \cup Around(Pow2(17))
    \cup Around(Pow2(23)) \cup Around(Pow2(27)) \cup MCHugeSizes
MCDictSizes == {Size(0, 8), Size(0, 1023), Plus(Pow2(20), Size(0, 1)), Pow2(24)}
MCDictIds == {<<0, 0, 0, 0>>, <<255, 0, 0, 0>>, <<0, 1, 0, 0>>, <<7, 0, 1, 9>>}
=============================================================================

------------------------- MODULE MCStreamingEncoder -------------------------
(***************************************************************************)
(* StreamingEncoder with blocks of one and two bytes: a single-slot finder *)
(* (period 1), rings smaller than, equal to and larger than the window,    *)
(* and a long-distance index that reaches beyond the regular finder.       *)
(***************************************************************************)
EXTENDS StreamingEncoder

Conf(b, w, r, p) == [block |-> b, window |-> w, reach |-> r, period |-> p]

RegularConfigs ==
  {Conf(1, 2, 2, 1), Conf(1, 2, 2, 2), Conf(1, 2, 2, 4), Conf(2, 2, 2, 4)}
LongConfigs == {Conf(1, 2, 1, 1), Conf(1, 3, 2, 2)}
MCConfigs   == RegularConfigs \cup LongConfigs

(* The long-distance index is on only where it reaches further, and the    *)
(* input is a byte shorter there.                                          *)
LongBounds ==
  IF conf \in RegularConfigs THEN \A k \in Keys : ref.ldm[k] = -1 ELSE pushed < MaxInput
=============================================================================

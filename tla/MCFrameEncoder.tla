--------------------------- MODULE MCFrameEncoder ---------------------------
(***************************************************************************)
(* FrameEncoder on inputs of up to seven bytes in blocks of two, windows   *)
(* of two and four bytes and up to three threads.                          *)
(***************************************************************************)
EXTENDS FrameEncoder

MCDatas == {<<>>, <<1>>, <<1, 2, 1>>, <<1, 1, 1, 2>>, <<1, 2, 1, 1, 2, 1, 1>>}
MCDicts == {<<2, 1>>, <<1, 2, 1>>}
=============================================================================

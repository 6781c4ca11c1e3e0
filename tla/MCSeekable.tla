----------------------------- MODULE MCSeekable -----------------------------
(***************************************************************************)
(* Seekable on inputs of up to three bytes, chunks of one and two, and one  *)
(* or two faults in the stored archive.                                    *)
(***************************************************************************)
EXTENDS Seekable

MCDatas == {<<>>, <<1>>, <<1, 2, 1>>}
=============================================================================

----------------------------- MODULE MCTrainer ------------------------------
(***************************************************************************)
(* Trainer with dmers of two bytes and segments of three: every corpus of  *)
(* up to three samples of up to four bytes, of which one may be empty or   *)
(* too short for a segment or a dmer.                                      *)
(***************************************************************************)
EXTENDS Trainer

Samples == {<<>>, <<1>>, <<1, 2>>, <<1, 1, 1>>, <<2, 1, 2>>, <<1, 1, 2, 2>>, <<2, 2, 1, 3>>,
            <<3, 1, 1, 2, 1>>}
MCCorpora == {<<>>} \cup {<<a>> : a \in Samples} \cup {<<a, b>> : a, b \in Samples}
               \cup {<<a, b, c>> : a, b, c \in Samples}
=============================================================================

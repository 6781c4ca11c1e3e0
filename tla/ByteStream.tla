----------------------------- MODULE ByteStream -----------------------------
(***************************************************************************)
(* What a decoder behind std::io::Read promises its caller, whatever the   *)
(* sizes of the buffers the caller passes: it hands over successive pieces *)
(* of one byte sequence; it reports end of stream only after all of it,    *)
(* and only if that sequence is the complete content; once it has failed   *)
(* it hands over nothing more.                                             *)
(***************************************************************************)
EXTENDS Naturals, Sequences

CONSTANT Byte  \* the values of a byte

VARIABLES
  bytes,      \* the content, fixed from the start
  complete,   \* whether bytes is the whole content of an acceptable input
  fallible,   \* whether the decoder may give up on this input
  delivered,  \* what the caller has received
  status      \* "open" | "eof" | "failed"

input == <<bytes, complete, fallible>>

Init ==
  /\ bytes \in Seq(Byte) /\ complete \in BOOLEAN /\ fallible \in BOOLEAN
  /\ delivered = <<>> /\ status = "open"

Piece ==
  /\ status = "open"
  /\ \E n \in 0..Len(bytes) :
       n >= Len(delivered) /\ delivered' = SubSeq(bytes, 1, n)
  /\ UNCHANGED <<input, status>>

EndOfStream ==
  /\ status = "open" /\ complete /\ delivered = bytes
  /\ status' = "eof" /\ UNCHANGED <<input, delivered>>

Fail ==
  /\ status = "open" /\ fallible
  /\ status' = "failed" /\ UNCHANGED <<input, delivered>>

Next == Piece \/ EndOfStream \/ Fail
Spec == Init /\ [][Next]_<<input, delivered, status>>
=============================================================================

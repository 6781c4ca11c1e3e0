-------------------------- MODULE DecoderContract ---------------------------
(***************************************************************************)
(* What StreamingDecoder promises: it is a ByteStream over what the        *)
(* one-shot decoder makes of the same input.                               *)
(***************************************************************************)
EXTENDS StreamingDecoder, OneShotDecoder

(* The output of a frame fits an address space.                            *)
ASSUME UnlimitedAssumption ==
  /\ Unlimited \in Nat
  /\ \A f \in Frames : Len(f.blocks) * MaxBlockSize <= Unlimited

(* with_options does not ask for the dictionary a frame names: given none, *)
(* it reads the frame as one that names none.                              *)
Input == IF dict = None THEN [frame EXCEPT !.dictionary_id = 0] ELSE frame

(* What the one-shot decoder makes of it.                                  *)
OneShot ==
  LET d == decode_frame(Input, dict, Unlimited)
  IN  [ok |-> d.ok, near |-> d.near, legal |-> d.legal, bytes |-> Content(Input, dict)]

VARIABLE oneshot  \* OneShot, which the decoder's steps do not change

ContractInit == Init /\ oneshot = OneShot
ContractNext == Next /\ UNCHANGED oneshot
ContractSpec == ContractInit /\ [][ContractNext]_<<vars, oneshot>>

(* How the caller sees the decoder.                                        *)
Status == IF ret = "eof" THEN "eof" ELSE IF poisoned THEN "failed" ELSE "open"

(* For every sequence of buffer sizes, StreamingDecoder is a ByteStream    *)
(* over the bytes the one-shot decoder produces: it ends cleanly only if   *)
(* decode_frame accepts the frame, after exactly its output, and it gives  *)
(* up only if decode_frame does or a match reaches beyond the window.      *)
Contract == INSTANCE ByteStream WITH
  bytes     <- oneshot.bytes,
  complete  <- oneshot.ok,
  fallible  <- ~oneshot.ok \/ ~oneshot.near,
  delivered <- delivered,
  status    <- Status
ReadContract == Contract!Spec

(* The comment on compact: what it drops is "no longer reachable by a      *)
(* back-reference".  A frame whose every match is one RFC 8878 allows, and *)
(* that the one-shot decoder accepts, is not refused.                      *)
EvictedUnreachable == poisoned => ~(oneshot.ok /\ oneshot.legal)
=============================================================================

------------------------------ MODULE MCHasher ------------------------------
(***************************************************************************)
(* Hasher with the program's stripe of 32 bytes and pieces around every    *)
(* boundary of the buffer; no two pieces have a byte in common.            *)
(***************************************************************************)
EXTENDS Hasher

MCByte == 0..10000
MCPieces == {[i \in 1..n |-> 100 * n + i] : n \in {0, 1, 4, 15, 28, 31, 32, 33, 63, 96}}
=============================================================================

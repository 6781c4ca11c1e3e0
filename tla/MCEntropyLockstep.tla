------------------------- MODULE MCEntropyLockstep -------------------------
(***************************************************************************)
(* EntropyLockstep from a cold start, from a structured dictionary, and    *)
(* from one whose Huffman table the encoder could not rebuild.             *)
(***************************************************************************)
EXTENDS EntropyLockstep, FiniteSets, TLC

Cold == [rep |-> DefaultRep, seq |-> [c \in Channels |-> None], lit |-> None]
Warm(t) == [rep |-> <<3, 2, 5>>, seq |-> [c \in Channels |-> t], lit |-> t]

MCInitStates ==
  {[enc |-> Cold, dec |-> Cold]}
  \cup {[enc |-> Warm(t), dec |-> Warm(t)] : t \in Tables}
  \cup {[enc |-> [Warm(t) EXCEPT !.lit = None], dec |-> Warm(t)] : t \in Tables}

(* Offsets and tables do not interact: while two tables are about or a     *)
(* chunk is split, all its matches have one distance.                      *)
TablesOf(s) == {s.lit} \cup {s.seq[c] : c \in Channels}
TablesAbout ==
  (TablesOf(enc) \cup TablesOf(dec) \cup TablesOf(cur)
   \cup {blocks[i].lit.table : i \in 1..Len(blocks)}
   \cup {blocks[i].plan[c].table : i \in 1..Len(blocks), c \in Channels})
  \ {None}
OneAtATime ==
  Cardinality(TablesAbout) > 1 \/ Len(blocks) > 1 =>
    chunks < 3 /\ \A i \in 1..Len(seqs) : seqs[i].offset = 4

AnyTable == Permutations(Tables)
=============================================================================

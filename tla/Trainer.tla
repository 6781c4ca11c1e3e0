------------------------------ MODULE Trainer -------------------------------
(***************************************************************************)
(* The dictionary trainer of src/encode/train.rs: greedy COVER with its    *)
(* sliding window, and the structured dictionary made of its content.      *)
(*                                                                         *)
(* Positions in the concatenated samples count from 0, as in the code.     *)
(***************************************************************************)
EXTENDS Integers, Sequences, FiniteSets, FiniteSetsExt, SequencesExt

CONSTANTS
  Byte,
  Corpora,     \* sequences of samples
  D,           \* length of a dmer
  SegmentLen,  \* requested length of a segment
  MaxSizes,
  Headers,     \* lengths of the entropy header a structured dictionary may get
  LargestRep   \* the largest default repeat offset: 8

ASSUME TrainerAssumption ==
  /\ Corpora \subseteq Seq(Seq(Byte))
  /\ D \in Nat \ {0} /\ SegmentLen \in Nat
  /\ MaxSizes \subseteq Nat /\ Headers \subseteq Nat /\ LargestRep \in Nat

VARIABLES
  samples, max_size, entry,  \* the call: train_dictionary or train_dictionary_structured
  pc,           \* "begin", "round", "slide", "trained", "done"
  freq,         \* what a dmer is still worth
  start,        \* where the window stands
  wcount,       \* how often each dmer occurs in it
  score,
  best_score, best_start,
  selected,     \* starts of the picked segments, best first
  content,
  result        \* [header, content]

vars == <<samples, max_size, entry, pc, freq, start, wcount, score, best_score, best_start,
          selected, content, result>>

-----------------------------------------------------------------------------
buf       == FlattenSeq(samples)
total     == Len(buf)
bounds(w) == Len(FlattenSeq(SubSeq(samples, 1, w - 1)))

(* "valid" and "valid_seg": n bytes from i on lie in a single sample.      *)
Within(i, n) == \E w \in DOMAIN samples : bounds(w) <= i /\ i + n <= bounds(w) + Len(samples[w])

dmer_at(i) == SubSeq(buf, i + 1, i + D)
Dmers      == {dmer_at(i) : i \in {j \in 0..(total - D) : Within(j, D)}}

k          == LET longest == Max({0} \cup {Len(samples[w]) : w \in DOMAIN samples})
              IN  Max({Min({SegmentLen, longest}), D})
seg_dmers  == k - D + 1
last_start == total - k

(* Counted once per sample.                                                *)
CountFreq ==
  [dm \in Dmers |-> Cardinality({w \in DOMAIN samples :
                       \E i \in bounds(w)..(bounds(w) + Len(samples[w]) - D) : dmer_at(i) = dm})]

Init ==
  /\ samples \in Corpora /\ max_size \in MaxSizes
  /\ entry \in {"train_dictionary", "train_dictionary_structured"}
  /\ pc = "begin" /\ freq = <<>> /\ start = 0 /\ wcount = <<>> /\ score = 0
  /\ best_score = 0 /\ best_start = 0 /\ selected = <<>>
  /\ content = <<>> /\ result = [header |-> 0, content |-> <<>>]

(* A corpus without a dmer, or no room, gives nothing.                     *)
Begin ==
  /\ pc = "begin"
  /\ pc' = IF max_size = 0 \/ total < D \/ total < k THEN "trained" ELSE "round"
  /\ freq' = IF pc' = "round" THEN CountFreq ELSE freq
  /\ UNCHANGED <<samples, max_size, entry, start, wcount, score, best_score, best_start, selected,
                 content, result>>

(* A dmer enters or leaves the window: only its first occurrence counts.   *)
Entering(win, i) ==
  IF ~Within(i, D) THEN win
  ELSE [count |-> [win.count EXCEPT ![dmer_at(i)] = @ + 1],
        score |-> win.score + (IF win.count[dmer_at(i)] = 0 THEN freq[dmer_at(i)] ELSE 0)]
Leaving_Each(win, i) ==  \* mutant: every occurrence is taken off
  IF ~Within(i, D) THEN win
  ELSE [count |-> [win.count EXCEPT ![dmer_at(i)] = @ - 1], score |-> win.score - freq[dmer_at(i)]]
Leaving(win, i) ==
  IF ~Within(i, D) \/ win.count[dmer_at(i)] = 0 THEN win
  ELSE [count |-> [win.count EXCEPT ![dmer_at(i)] = @ - 1],
        score |-> win.score - (IF win.count[dmer_at(i)] = 1 THEN freq[dmer_at(i)] ELSE 0)]

Window(win) == wcount' = win.count /\ score' = win.score

(* A round of the greedy loop begins with the window at the start.         *)
SeedBest(s) == IF Within(0, k) THEN s ELSE 0
Round ==
  /\ pc = "round" /\ Len(selected) * k < max_size
  /\ Window(FoldLeft(Entering, [count |-> [dm \in Dmers |-> 0], score |-> 0],
                     [i \in 1..seg_dmers |-> i - 1]))
  /\ best_score' = SeedBest(score') /\ best_start' = 0 /\ start' = 0
  /\ pc' = "slide"
  /\ UNCHANGED <<samples, max_size, entry, freq, selected, content, result>>

Better_Anywhere(at, s) == s > best_score  \* mutant: also a window across samples
Better(at, s) == Within(at, k) /\ s > best_score
Slide ==
  /\ pc = "slide" /\ start < last_start
  /\ start' = start + 1
  /\ Window(Entering(Leaving([count |-> wcount, score |-> score], start), start + seg_dmers))
  /\ best_score' = IF Better(start + 1, score') THEN score' ELSE best_score
  /\ best_start' = IF Better(start + 1, score') THEN start + 1 ELSE best_start
  /\ UNCHANGED <<samples, max_size, entry, pc, freq, selected, content, result>>

(* The dmers of the picked segment are worth nothing from now on.          *)
Covered(s) == {dmer_at(i) : i \in {j \in s..(s + seg_dmers - 1) : Within(j, D)}}
Spent_None(s) == freq  \* mutant: they stay
Spent(s) == [dm \in Dmers |-> IF dm \in Covered(s) THEN 0 ELSE freq[dm]]
Pick ==
  /\ pc = "slide" /\ start = last_start /\ best_score > 0
  /\ selected' = Append(selected, best_start)
  /\ freq' = Spent(best_start)
  /\ pc' = "round"
  /\ UNCHANGED <<samples, max_size, entry, start, wcount, score, best_score, best_start, content,
                 result>>

(* Enough, or nothing left worth covering: the best segment comes last,    *)
(* and what is too much is cut off in front.                               *)
Segments == FlattenSeq(Reverse([i \in DOMAIN selected |->
                                  SubSeq(buf, selected[i] + 1, selected[i] + k)]))
LastOf(s, n) == SubSeq(s, Len(s) - n + 1, Len(s))
Concatenate ==
  /\ \/ pc = "round" /\ Len(selected) * k >= max_size
     \/ pc = "slide" /\ start = last_start /\ best_score = 0
  /\ content' = LastOf(Segments, Min({Len(Segments), max_size}))
  /\ pc' = "trained"
  /\ UNCHANGED <<samples, max_size, entry, freq, start, wcount, score, best_score, best_start,
                 selected, result>>

(* The raw content, also where a structured dictionary cannot be made of   *)
(* it: too little content, literals that form no alphabet ("sparse"), or a *)
(* header that leaves no room for what the repeat offsets reach.           *)
TooLittleRoom_Header(header) == header > max_size  \* mutant: room for the header is enough
TooLittleRoom(header) == header + LargestRep > max_size
Raw(sparse, header) ==
  \/ entry = "train_dictionary" \/ Len(content) < LargestRep
  \/ sparse \/ TooLittleRoom(header)
Kept(header) == Min({Len(content), max_size - header})
Finish ==
  /\ pc = "trained"
  /\ \E sparse \in BOOLEAN, header \in Headers :
       result' = IF Raw(sparse, header) THEN [header |-> 0, content |-> content]
                 ELSE [header |-> header, content |-> SubSeq(content, 1, Kept(header))]
  /\ pc' = "done"
  /\ UNCHANGED <<samples, max_size, entry, freq, start, wcount, score, best_score, best_start,
                 selected, content>>

Next == Begin \/ Round \/ Slide \/ Pick \/ Concatenate \/ Finish
Spec == Init /\ [][Next]_vars

-----------------------------------------------------------------------------
(* Properties.                                                             *)

(* What a window would score if it were counted afresh: each distinct      *)
(* dmer once.                                                              *)
SumOf(f, S) == MapThenSumSet(LAMBDA dm : f[dm], S)
ScoreOf(s)  == SumOf(freq, Covered(s))

(* The running score is the true one at every position of the window.      *)
ScoreExact == pc = "slide" => score = ScoreOf(start)

(* The best start so far is a segment inside one sample, and no segment    *)
(* inside one sample that the window has seen is worth more.               *)
BestSoFar ==
  pc = "slide" =>
    /\ \A s \in 0..start : Within(s, k) => ScoreOf(s) <= best_score
    /\ best_score > 0 => Within(best_start, k) /\ ScoreOf(best_start) = best_score

(* The search of a round is exact although it slides.                      *)
SearchExact == ScoreExact /\ BestSoFar

(* "Segments never straddle a sample boundary": a byte sequence that no    *)
(* input contains does not get into the dictionary.                        *)
SegmentsWithin == \A i \in DOMAIN selected : Within(selected[i], k)

(* "Later picks add new coverage rather than repeat it."                   *)
NewCoverage ==
  \A j \in DOMAIN selected :
    ~(Covered(selected[j]) \subseteq UNION {Covered(selected[i]) : i \in 1..(j - 1)})

(* "At most max_size bytes", with the header of a structured dictionary.   *)
SizeHonored == pc = "done" => result.header + Len(result.content) <= max_size

(* A structured dictionary has the content its repeat offsets reach into,  *)
(* or Dictionary::parse refuses it.                                        *)
Loadable == pc = "done" /\ result.header > 0 => Len(result.content) >= LargestRep

(* The dictionary returned can be used as the caller asked for it.         *)
DictFits == SizeHonored /\ Loadable
=============================================================================

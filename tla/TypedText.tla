----------------------------- MODULE TypedText ------------------------------
(***************************************************************************)
(* What the player of a typing game has typed: VnComposer of               *)
(* src/src/core/VnComposer.hpp over a passage, and the plain index of the  *)
(* English games.  The text engine is left open: for a key it may replace  *)
(* the letters of its current word by any word, for a space it may restore *)
(* that word first.  Backspace takes one letter of the text and gives the  *)
(* engine a fresh word.                                                    *)
(***************************************************************************)
EXTENDS Integers, Sequences, SequencesExt

CONSTANTS
  Target,      \* the passage: symbols, a blank between words
  Base,        \* the tone-less base of every letter
  MaxWord,     \* bound: letters of the engine's word
  MaxText      \* bound: symbols typed

Letters == DOMAIN Base
Blank == "_"     \* the space between words
Symbols == Letters \cup {Blank}

\* Passages are not empty (Arcade.cpp's streams, the prompts of fish).
ASSUME TextAssumption ==
  /\ Blank \notin Letters
  /\ Target \in Seq(Symbols) \ {<<>>}
  /\ MaxWord \in Nat /\ MaxText \in Nat

Words == UNION {[1 .. n -> Letters] : n \in 1 .. MaxWord}

\* m_composed, and how much of it lies before the engine's current word
Nothing == [text |-> <<>>, from |-> 0]

Settled(c) == SubSeq(c.text, 1, c.from)

\* feedProduced, feedChar: the texts a letter key can lead to
FeedLetter(c) ==
  {t \in {[text |-> Settled(c) \o w, from |-> c.from] : w \in Words} :
     /\ Len(t.text) <= MaxText /\ t.text # c.text
     /\ Len(t.text) <= Len(c.text) + 1}

\* The keys of a word, which a restore brings back, are letters without tone.
RawWords == {w \in Words : \A i \in DOMAIN w : Base[w[i]] = w[i]}

\* feedSpace
FeedSpace(c) ==
  LET Spaced(w) == LET t == Settled(c) \o w \o <<Blank>> IN [text |-> t, from |-> Len(t)]
      word == SubSeq(c.text, c.from + 1, Len(c.text))
  IN {t \in {Spaced(w) : w \in {word} \cup (IF word = <<>> THEN {} ELSE RawWords)} :
        Len(t.text) <= MaxText}

\* feedBackspace
FeedBackspace(c) ==
  LET t == IF c.text = <<>> THEN <<>> ELSE Front(c.text) IN [text |-> t, from |-> Len(t)]

\* matchLength
MatchLength(c) == Len(LongestCommonPrefix({c.text, Target}))

\* tonelessBase, finalWordDefinitivelyWrong: no key but Backspace can still
\* make the text the passage
BaseOf(s) == IF s \in Letters THEN Base[s] ELSE s

DefinitivelyWrong(c) ==
  \/ Len(c.text) > Len(Target)
  \/ LET k == MatchLength(c) IN
       /\ k < Len(c.text) /\ k < Len(Target)
       /\ BaseOf(c.text[k + 1]) # BaseOf(Target[k + 1])
=============================================================================

----------------------------- MODULE GamesProof -----------------------------
(***************************************************************************)
(* The arcade's games, the flexing page and the Chaos Lab, for boards and  *)
(* roads of every size, passages of every length over every alphabet, and  *)
(* every chart: what each promises, from an invariant of its own.  Each    *)
(* part proves that its invariant holds at the start, is kept by every     *)
(* operation and while nothing happens, and holds what the game states.    *)
(***************************************************************************)
EXTENDS SnakeGame, TetrisGame, RhythmGame, FishingGame, PassageGames, WasdRaceGame, ChaosLab,
        DataFacts, FiniteSetTheorems

(***************************************************************************)
(* Runs: begun, paused, ended, begun anew.                                 *)
(***************************************************************************)
\* What the keys and the ends of runs do to a life
LEMMA LifeIs ==
  ASSUME NEW l \in LifeState
  PROVE  /\ Started \in LifeState /\ ~ Started.over /\ ~ Started.exiting
         /\ Restarted(l) \in LifeState /\ ~ Restarted(l).over
         /\ Ended(l) \in LifeState /\ Ended(l).over
         /\ \A k \in {ExitKey(l), PauseKey(l), Polled(l)} : k \in LifeState /\ k.over = l.over
         /\ Running(l) => ~ l.over
BY DEF LifeState, Started, Restarted, Ended, ExitKey, PauseKey, Polled, Running

\* A life begins without an end.
LEMMA StartedIs == Started \in LifeState /\ ~ Started.over
BY DEF LifeState, Started

(***************************************************************************)
(* The text that is typed against a passage.                               *)
(***************************************************************************)
\* What is typed: a text over the alphabet of the passage
WellTyped(c) ==
  /\ c = [text |-> c.text, from |-> c.from]
  /\ c.text \in Seq(Symbols) /\ c.from \in 0 .. Len(c.text)
  /\ \A i \in c.from + 1 .. Len(c.text) : c.text[i] \in Letters

\* A text and the passage agree in their first n symbols.
Agree(s, n) == n <= Len(s) /\ n <= Len(Target) /\ \A i \in 1 .. n : s[i] = Target[i]

\* The passage is a text of symbols that is not empty.
LEMMA TargetIs == Target \in Seq(Symbols) /\ Len(Target) \in Nat \ {0}
BY TextAssumption

\* Two texts share a prefix of n when they agree on their first n symbols.
LEMMA PrefixAgrees ==
  ASSUME NEW s \in Seq(Symbols), NEW n \in Nat
  PROVE  Agree(s, n) <=>
           \E p \in CommonPrefixes({s, Target}) : Len(p) = n
<1>0. Len(s) \in Nat /\ Len(Target) \in Nat  BY TargetIs
<1>1. ASSUME Agree(s, n) PROVE \E p \in CommonPrefixes({s, Target}) : Len(p) = n
  <2> DEFINE p == SubSeq(s, 1, n)
  <2>1. n <= Len(s) /\ n <= Len(Target) /\ \A i \in 1 .. n : s[i] = Target[i]
    BY <1>1 DEF Agree
  <2>2. p = SubSeq(Target, 1, n)
    <3>1. p \in Seq(Symbols) /\ Len(p) = n /\ \A i \in 1 .. n : p[i] = s[i]  BY <1>0, <2>1
    <3>2. /\ SubSeq(Target, 1, n) \in Seq(Symbols) /\ Len(SubSeq(Target, 1, n)) = n
          /\ \A i \in 1 .. n : SubSeq(Target, 1, n)[i] = Target[i]
      BY <1>0, <2>1, TargetIs
    <3> HIDE DEF p
    <3> DEFINE q == SubSeq(Target, 1, n)
    <3> HIDE DEF q
    <3>3. q \in Seq(Symbols) /\ Len(q) = n /\ \A i \in 1 .. n : p[i] = q[i]
      BY <2>1, <3>1, <3>2 DEF q
    <3> QED  BY <3>1, <3>3 DEF q
  <2>3. Len(p) = n /\ SubSeq(p, 1, n) = p  BY <1>0, <2>1
  <2>4. p \in Prefixes(s)  BY <1>0, <2>1 DEF Prefixes
  <2>5. IsPrefix(p, s) /\ IsPrefix(p, Target)  BY <2>1, <2>2, <2>3, Zenon DEF IsPrefix
  <2> HIDE DEF p
  <2> QED  BY <2>3, <2>4, <2>5 DEF CommonPrefixes
<1>2. ASSUME NEW p \in CommonPrefixes({s, Target}), Len(p) = n PROVE Agree(s, n)
  <2>1. IsPrefix(p, s) /\ IsPrefix(p, Target)  BY <1>2 DEF CommonPrefixes
  <2>2. n <= Len(s) /\ n <= Len(Target) /\ SubSeq(s, 1, n) = SubSeq(Target, 1, n)
    BY <1>2, <2>1, Zenon DEF IsPrefix
  <2>3. \A i \in 1 .. n : SubSeq(s, 1, n)[i] = s[i] /\ SubSeq(Target, 1, n)[i] = Target[i]
    BY <1>0, <2>2, TargetIs
  <2> QED  BY <2>2, <2>3 DEF Agree
<1> QED  BY <1>1, <1>2

\* What matches is the longest beginning that agrees.
LEMMA MatchIs ==
  ASSUME NEW c, c.text \in Seq(Symbols)
  PROVE  /\ MatchLength(c) \in Nat /\ Agree(c.text, MatchLength(c))
         /\ \A n \in Nat : Agree(c.text, n) => n <= MatchLength(c)
<1> DEFINE s == c.text
           P == CommonPrefixes({s, Target})
           N == {n \in 0 .. Len(s) : Agree(s, n)}
<1>1. Len(s) \in Nat /\ 0 \in N
  <2>1. Len(s) \in Nat /\ Len(Target) \in Nat  BY TargetIs
  <2> QED  BY <2>1 DEF Agree
<1>2. PICK m \in N : \A n \in N : n <= m  BY <1>1, GreatestNumber, Zenon, N \subseteq 0 .. Len(s)
<1>3. \A p \in P : Len(p) \in N
  <2> SUFFICES ASSUME NEW p \in P PROVE Len(p) \in N
    OBVIOUS
  <2>1. Len(p) \in Nat
    <3>1. p \in Prefixes(s) \/ p \in Prefixes(Target)  BY DEF CommonPrefixes
    <3>2. ASSUME NEW t \in Seq(Symbols), p \in Prefixes(t) PROVE Len(p) \in Nat
      BY <3>2 DEF Prefixes
    <3> QED  BY <3>1, <3>2, TargetIs
  <2>2. Agree(s, Len(p))  BY <2>1, PrefixAgrees, Zenon
  <2>3. Len(p) <= Len(s)  BY <2>2 DEF Agree
  <2> QED  BY <1>1, <2>1, <2>2, <2>3
<1>4. PICK p \in P : Len(p) = m
  <2>1. m \in Nat /\ Agree(s, m)  BY <1>1, <1>2
  <2> QED  BY <2>1, PrefixAgrees, Zenon
<1>5. \A q \in P : Len(q) <= Len(p)  BY <1>2, <1>3, <1>4, Zenon
<1>6. LET l == LongestCommonPrefix({s, Target})
      IN  l \in P /\ \A q \in P : Len(q) <= Len(l)
  BY <1>5, Zenon DEF LongestCommonPrefix
<1>7. MatchLength(c) = m
  <2> DEFINE l == LongestCommonPrefix({s, Target})
  <2>1. Len(l) \in N /\ Len(l) <= m /\ m <= Len(l)  BY <1>2, <1>3, <1>4, <1>6, Zenon
  <2>2. Len(l) = m  BY <1>1, <2>1
  <2> QED  BY <2>2, Zenon DEF MatchLength
<1>8. ASSUME NEW n \in Nat, Agree(s, n) PROVE n <= m
  <2>1. n \in N  BY <1>1, <1>8 DEF Agree
  <2> QED  BY <1>2, <2>1
<1> QED  BY <1>1, <1>2, <1>7, <1>8

\* What matches is within the passage and within the text.
LEMMA MatchRange ==
  ASSUME NEW c, c.text \in Seq(Symbols)
  PROVE  /\ MatchLength(c) \in 0 .. Len(Target) /\ MatchLength(c) <= Len(c.text)
         /\ Len(c.text) \in Nat
<1>1. MatchLength(c) \in Nat /\ Agree(c.text, MatchLength(c))  BY MatchIs
<1> QED  BY <1>1, TargetIs DEF Agree

\* The composer begins empty, and nothing matches.
LEMMA NothingIs == WellTyped(Nothing) /\ MatchLength(Nothing) = 0 /\ Nothing.text = <<>>
<1>1. WellTyped(Nothing) /\ Nothing.text = <<>>  BY DEF WellTyped, Nothing
<1>2. Nothing.text \in Seq(Symbols) /\ Len(Nothing.text) = 0  BY <1>1
<1>3. /\ MatchLength(Nothing) \in 0 .. Len(Target)
      /\ MatchLength(Nothing) <= Len(Nothing.text)
  BY <1>2, MatchRange, Zenon
<1> QED  BY <1>1, <1>2, <1>3, TargetIs

\* Backspace takes the last symbol, and what no longer agrees no longer may.
LEMMA BackspaceIs ==
  ASSUME NEW c, WellTyped(c)
  PROVE  /\ WellTyped(FeedBackspace(c))
         /\ MatchLength(FeedBackspace(c)) <= MatchLength(c)
         /\ FeedBackspace(c).text = IF c.text = <<>> THEN <<>> ELSE Front(c.text)
<1> DEFINE t == FeedBackspace(c)
           s == IF c.text = <<>> THEN <<>> ELSE Front(c.text)
<1>1. c.text \in Seq(Symbols) /\ Len(c.text) \in Nat  BY DEF WellTyped
<1>2. /\ s \in Seq(Symbols) /\ Len(s) \in Nat /\ Len(s) <= Len(c.text)
      /\ \A i \in 1 .. Len(s) : s[i] = c.text[i]
  BY <1>1 DEF Front
<1>3. t = [text |-> s, from |-> Len(s)]  BY Zenon DEF FeedBackspace
<1> HIDE DEF s, t
<1>4. t.text = s /\ t.from = Len(s)  BY <1>3
<1>5. WellTyped(t)  BY <1>2, <1>3, <1>4 DEF WellTyped
<1>6. MatchLength(t) <= MatchLength(c)
  <2> DEFINE k == MatchLength(t)
  <2>1. k \in Nat /\ Agree(s, k)  BY <1>2, <1>4, MatchIs
  <2>2. Agree(c.text, k)  BY <1>1, <1>2, <2>1 DEF Agree
  <2> HIDE DEF k
  <2> QED  BY <1>1, <2>1, <2>2, MatchIs DEF k
<1> QED  BY <1>4, <1>5, <1>6 DEF s, t

\* What is settled is the text before the word under the caret.
LEMMA SettledIs ==
  ASSUME NEW c, WellTyped(c)
  PROVE  /\ Settled(c) \in Seq(Symbols) /\ Len(Settled(c)) = c.from /\ c.from \in Nat
         /\ \A i \in 1 .. c.from : Settled(c)[i] = c.text[i]
<1>1. c.text \in Seq(Symbols) /\ c.from \in 0 .. Len(c.text) /\ Len(c.text) \in Nat
  BY DEF WellTyped
<1> QED  BY <1>1 DEF Settled

\* A word is made of letters.
LEMMA WordIs == \A w \in Words : w \in Seq(Symbols) /\ \A i \in 1 .. Len(w) : w[i] \in Letters
<1> SUFFICES ASSUME NEW w \in Words
             PROVE  w \in Seq(Symbols) /\ \A i \in 1 .. Len(w) : w[i] \in Letters
  OBVIOUS
<1>1. PICK n \in 1 .. MaxWord : w \in [1 .. n -> Letters]  BY DEF Words
<1>2. n \in Nat  BY TextAssumption
<1>3. Len(w) = n /\ w \in Seq(Letters)  BY <1>1, <1>2
<1> QED  BY <1>1, <1>2, <1>3 DEF Symbols

\* A letter leaves what is settled and has letters behind it.
LEMMA LetterIs ==
  ASSUME NEW c, WellTyped(c), NEW t \in FeedLetter(c)
  PROVE  /\ WellTyped(t) /\ t.from = c.from
         /\ \A i \in 1 .. c.from : t.text[i] = c.text[i]
<1>1. PICK w \in Words : t = [text |-> Settled(c) \o w, from |-> c.from]  BY Zenon DEF FeedLetter
<1>2. t.text = Settled(c) \o w /\ t.from = c.from  BY <1>1
<1>3. w \in Seq(Symbols) /\ \A i \in 1 .. Len(w) : w[i] \in Letters  BY WordIs
<1>4. /\ Settled(c) \in Seq(Symbols) /\ Len(Settled(c)) = c.from /\ c.from \in Nat
      /\ \A i \in 1 .. c.from : Settled(c)[i] = c.text[i]
  BY SettledIs
<1> DEFINE s == Settled(c)
<1> HIDE DEF s
<1>5. /\ s \o w \in Seq(Symbols) /\ Len(s \o w) = Len(s) + Len(w) /\ Len(w) \in Nat
      /\ \A i \in 1 .. Len(s) : (s \o w)[i] = s[i]
      /\ \A i \in Len(s) + 1 .. Len(s) + Len(w) : (s \o w)[i] = w[i - Len(s)]
  BY <1>3, <1>4 DEF s
<1>6. \A i \in c.from + 1 .. Len(t.text) : t.text[i] \in Letters
  BY <1>2, <1>3, <1>4, <1>5 DEF s
<1> QED  BY <1>1, <1>2, <1>4, <1>5, <1>6 DEF WellTyped, s

\* The end of a text
LEMMA TailIs ==
  ASSUME NEW S, NEW s \in Seq(S), NEW k \in 0 .. Len(s), NEW w, w = SubSeq(s, k + 1, Len(s))
  PROVE  /\ w \in Seq(S) /\ Len(w) = Len(s) - k
         /\ \A i \in 1 .. Len(w) : w[i] = s[k + i]
<1>1. w \in Seq(S) /\ Len(w) = Len(s) - k  OBVIOUS
<1>2. ASSUME NEW i \in 1 .. Len(w) PROVE w[i] = s[k + i]
  <2>1. i \in 1 .. Len(s) - k /\ Len(s) \in Nat  BY <1>1
  <2>2. (k + 1) + i - 1 = k + i  BY <2>1
  <2>3. w[i] = s[(k + 1) + i - 1]  BY <2>1
  <2> QED  BY <2>2, <2>3
<1> QED  BY <1>1, <1>2

\* A text, a word and a symbol
LEMMA ThreeIs ==
  ASSUME NEW S, NEW s \in Seq(S), NEW w \in Seq(S), NEW b \in S, NEW s1, s1 = s \o w \o <<b>>
  PROVE  /\ s1 \in Seq(S) /\ Len(s1) = Len(s) + Len(w) + 1 /\ Len(w) \in Nat /\ Len(s) \in Nat
         /\ \A i \in 1 .. Len(s) : s1[i] = s[i]
         /\ \A i \in Len(s) + 1 .. Len(s) + Len(w) : s1[i] = w[i - Len(s)]
         /\ s1[Len(s) + Len(w) + 1] = b
<1> DEFINE s2 == s \o w
<1>1. /\ s2 \in Seq(S) /\ Len(s2) = Len(s) + Len(w) /\ Len(w) \in Nat /\ Len(s) \in Nat
      /\ \A i \in 1 .. Len(s) : s2[i] = s[i]
      /\ \A i \in Len(s) + 1 .. Len(s) + Len(w) : s2[i] = w[i - Len(s)]
  OBVIOUS
<1>2. s1 = s2 \o <<b>>  OBVIOUS
<1> HIDE DEF s2
<1>3. /\ s1 \in Seq(S) /\ Len(s1) = Len(s2) + 1
      /\ \A i \in 1 .. Len(s2) : s1[i] = s2[i]
      /\ s1[Len(s2) + 1] = b
  BY <1>1, <1>2
<1> QED  BY <1>1, <1>3

\* A space settles the word, or the keys the word was typed with.
LEMMA SpaceIs ==
  ASSUME NEW c, WellTyped(c), NEW t \in FeedSpace(c)
  PROVE  /\ WellTyped(t) /\ t.from = Len(t.text) /\ t.from > c.from /\ Len(t.text) \in Nat
         /\ t.text[Len(t.text)] = Blank
         /\ \A i \in 1 .. c.from : t.text[i] = c.text[i]
         /\ \A i \in c.from + 1 .. Len(t.text) - 1 : t.text[i] \in Letters
         /\ \/ Len(t.text) = Len(c.text) + 1 /\ \A i \in 1 .. Len(c.text) : t.text[i] = c.text[i]
            \/ \A i \in c.from + 1 .. Len(t.text) - 1 : Base[t.text[i]] = t.text[i]
<1> DEFINE word == SubSeq(c.text, c.from + 1, Len(c.text))
           s == Settled(c)
           Spaced(w) == s \o w \o <<Blank>>
<1>1. PICK w \in {word} \cup RawWords : t = [text |-> Spaced(w), from |-> Len(Spaced(w))]
  <2>1. \E w \in {word} \cup (IF word = <<>> THEN {} ELSE RawWords) :
          t = [text |-> Spaced(w), from |-> Len(Spaced(w))]
    BY Zenon DEF FeedSpace
  <2> QED  BY <2>1, Zenon
<1>2. t.text = Spaced(w) /\ t.from = Len(Spaced(w))  BY <1>1
<1>3. c.text \in Seq(Symbols) /\ c.from \in 0 .. Len(c.text) /\ Len(c.text) \in Nat
      /\ \A i \in c.from + 1 .. Len(c.text) : c.text[i] \in Letters
  BY DEF WellTyped
<1>4. s \in Seq(Symbols) /\ Len(s) = c.from /\ \A i \in 1 .. c.from : s[i] = c.text[i]
  BY SettledIs
<1>5. /\ word \in Seq(Symbols) /\ Len(word) = Len(c.text) - c.from
      /\ \A i \in 1 .. Len(word) : word[i] = c.text[c.from + i]
  <2>1. word = SubSeq(c.text, c.from + 1, Len(c.text))  OBVIOUS
  <2> HIDE DEF word
  <2> QED  BY <1>3, <2>1, TailIs, SMTT(30)
<1>6. /\ w \in Seq(Symbols) /\ \A i \in 1 .. Len(w) : w[i] \in Letters
      /\ w = word \/ \A i \in 1 .. Len(w) : Base[w[i]] = w[i]
  <2>1. CASE w = word
    <3>1. \A i \in 1 .. Len(word) : c.from + i \in c.from + 1 .. Len(c.text)  BY <1>3, <1>5
    <3> QED  BY <1>3, <1>5, <2>1, <3>1, Zenon
  <2>2. CASE w \in RawWords
    <3>1. w \in Words /\ \A i \in DOMAIN w : Base[w[i]] = w[i]  BY <2>2 DEF RawWords
    <3>2. w \in Seq(Symbols) /\ \A i \in 1 .. Len(w) : w[i] \in Letters  BY <3>1, WordIs
    <3>3. DOMAIN w = 1 .. Len(w)  BY <3>2
    <3> QED  BY <3>1, <3>2, <3>3
  <2> QED  BY <2>1, <2>2
<1> HIDE DEF s, word
<1> DEFINE s1 == Spaced(w)
<1>7. /\ s1 \in Seq(Symbols) /\ Len(s1) = Len(s) + Len(w) + 1 /\ Len(w) \in Nat /\ Len(s) \in Nat
      /\ \A i \in 1 .. Len(s) : s1[i] = s[i]
      /\ \A i \in Len(s) + 1 .. Len(s) + Len(w) : s1[i] = w[i - Len(s)]
      /\ s1[Len(s) + Len(w) + 1] = Blank
  <2>1. Blank \in Symbols  BY DEF Symbols
  <2>2. s1 = s \o w \o <<Blank>>  OBVIOUS
  <2> HIDE DEF s1
  <2>3. s \in Seq(Symbols) /\ w \in Seq(Symbols)  BY <1>4, <1>6
  <2> QED  BY <2>1, <2>2, <2>3, ThreeIs, SMTT(30)
<1> HIDE DEF s1
<1>8. /\ t = [text |-> s1, from |-> Len(s1)] /\ t.text = s1 /\ t.from = Len(s1)
  BY <1>1, <1>2 DEF s1
<1>9. WellTyped(t)  BY <1>7, <1>8 DEF WellTyped
<1>10. \A i \in c.from + 1 .. Len(s1) - 1 : s1[i] = w[i - c.from] /\ i - c.from \in 1 .. Len(w)
  BY <1>3, <1>4, <1>7, SMTT(30)
<1>13. /\ WellTyped(t) /\ t.from = Len(s1) /\ t.from > c.from /\ Len(s1) \in Nat
       /\ s1[Len(s1)] = Blank
       /\ \A i \in 1 .. c.from : s1[i] = c.text[i]
       /\ \A i \in c.from + 1 .. Len(s1) - 1 : s1[i] \in Letters
  <2>1. Len(s1) \in Nat /\ Len(s1) = c.from + Len(w) + 1 /\ Len(s1) > c.from
    BY <1>3, <1>4, <1>7, SMTT(30)
  <2>2. s1[Len(s1)] = Blank  BY <1>7
  <2>3. \A i \in 1 .. c.from : s1[i] = c.text[i]  BY <1>4, <1>7
  <2>4. \A i \in c.from + 1 .. Len(s1) - 1 : s1[i] \in Letters  BY <1>6, <1>10, Zenon
  <2> QED  BY <1>8, <1>9, <2>1, <2>2, <2>3, <2>4
<1>11. CASE w = word
  <2>1. Len(s1) = Len(c.text) + 1  BY <1>3, <1>4, <1>5, <1>7, <1>11
  <2>2. \A i \in 1 .. Len(c.text) : s1[i] = c.text[i]
    <3> SUFFICES ASSUME NEW i \in 1 .. Len(c.text) PROVE s1[i] = c.text[i]
      OBVIOUS
    <3>1. CASE i <= c.from
      BY <1>3, <1>4, <1>7, <3>1
    <3>2. CASE i > c.from
      <4>1. s1[i] = word[i - c.from] /\ i - c.from \in 1 .. Len(word)
        BY <1>3, <1>10, <1>11, <2>1, <3>2
      <4>2. c.from + (i - c.from) = i  BY <1>3
      <4> QED  BY <1>5, <4>1, <4>2
    <3> QED  BY <1>3, <3>1, <3>2
  <2> QED  BY <1>8, <1>13, <2>1, <2>2
<1>12. CASE \A i \in 1 .. Len(w) : Base[w[i]] = w[i]
  <2>1. \A i \in c.from + 1 .. Len(s1) - 1 : Base[s1[i]] = s1[i]  BY <1>10, <1>12, Zenon
  <2> QED  BY <1>8, <1>13, <2>1
<1> QED  BY <1>6, <1>11, <1>12

(***************************************************************************)
(* Snake.                                                                  *)
(***************************************************************************)
\* No part of the snake lies on another.
Different(s) == \A i, j \in DOMAIN s : i # j => s[i] # s[j]
\* Each part lies next to the one behind it.
Chained(s) == \A i \in 1 .. Len(s) - 1 : \E d \in Directions : s[i] = Ahead(s[i + 1], d)
\* A snake is a chain of at least two different cells of the board.
IsSnake(s) == s \in Seq(Cell) /\ Len(s) >= 2 /\ Different(s) /\ Chained(s)

\* The snake's invariant: until the run ends the head lies where it moved, and the key that
\* waits does not turn it back on its neck.
SnakeInv ==
  /\ IsSnake(body) /\ food \in Food(body)
  /\ dir \in Directions /\ next \in Directions
  /\ snakeLife \in LifeState
  /\ ~ snakeLife.over => body[1] = Ahead(body[2], dir) /\ next # Opposite[dir]

\* The four directions, their steps and their opposites.
LEMMA StepsAre ==
  /\ Directions = {"Up", "Down", "Left", "Right"}
  /\ Step["Up"] = <<0, -1>> /\ Step["Down"] = <<0, 1>>
  /\ Step["Left"] = <<-1, 0>> /\ Step["Right"] = <<1, 0>>
  /\ Opposite["Up"] = "Down" /\ Opposite["Down"] = "Up"
  /\ Opposite["Left"] = "Right" /\ Opposite["Right"] = "Left"
BY DEF Directions, Step, Opposite

\* Two steps that are not opposite lead away.
LEMMA NoWayBack ==
  ASSUME NEW neck \in Int \X Int, NEW d \in Directions, NEW n \in Directions, n # Opposite[d]
  PROVE  Ahead(Ahead(neck, d), n) # neck
<1>1. PICK h0 \in Int, v0 \in Int : neck = <<h0, v0>>  OBVIOUS
<1>2. Ahead(neck, d) = <<h0 + Step[d][1], v0 + Step[d][2]>>  BY <1>1 DEF Ahead
<1>3. Ahead(Ahead(neck, d), n) = <<h0 + Step[d][1] + Step[n][1], v0 + Step[d][2] + Step[n][2]>>
  BY <1>2 DEF Ahead
<1>4. Step[d][1] + Step[n][1] # 0 \/ Step[d][2] + Step[n][2] # 0
  BY StepsAre
<1>5. Step[d][1] \in Int /\ Step[d][2] \in Int /\ Step[n][1] \in Int /\ Step[n][2] \in Int
  BY StepsAre
<1>6. h0 + Step[d][1] + Step[n][1] # h0 \/ v0 + Step[d][2] + Step[n][2] # v0
  <2> DEFINE a == Step[d][1]
             b == Step[n][1]
             u == Step[d][2]
             v == Step[n][2]
  <2>1. a \in Int /\ b \in Int /\ u \in Int /\ v \in Int /\ (a + b # 0 \/ u + v # 0)
    BY <1>4, <1>5
  <2> HIDE DEF a, b, u, v
  <2>2. h0 + a + b # h0 \/ v0 + u + v # v0  BY <2>1
  <2> QED  BY <2>2 DEF a, b, u, v
<1> QED  BY <1>1, <1>3, <1>6

\* The invariant holds what is stated of the game.
LEMMA SnakeInvIsSound == SnakeInv => SnakeSound
<1> SUFFICES ASSUME SnakeInv PROVE SnakeSound
  OBVIOUS
<1>1. Chain
  BY Zenon DEF SnakeInv, IsSnake, Different, Chained, Chain
<1>2. NoReversal
  <2> SUFFICES ASSUME ~ snakeLife.over PROVE Ahead(Head(body), next) # body[2]
    BY DEF NoReversal
  <2>1. body \in Seq(Cell) /\ Len(body) >= 2  BY DEF SnakeInv, IsSnake
  <2>2. body[2] \in Int \X Int /\ Head(body) = body[1]
    <3>1. body[2] \in Cell /\ Head(body) = body[1]  BY <2>1
    <3> QED  BY <3>1 DEF Cell
  <2>3. Head(body) = Ahead(body[2], dir) /\ next # Opposite[dir] /\ dir \in Directions
        /\ next \in Directions
    BY <2>2 DEF SnakeInv
  <2> QED  BY <2>2, <2>3, NoWayBack
<1> QED  BY <1>1, <1>2 DEF SnakeSound, FoodIsFree, SnakeInv

\* The start is a snake that moves to the right.
LEMMA StartIsSnake == IsSnake(Start) /\ Start[1] = Ahead(Start[2], "Right")
<1>1. "Right" \in Directions  BY StepsAre
<1>2. /\ Start \in Seq(Cell) /\ Len(Start) >= 2 /\ Different(Start)
      /\ \A i \in 1 .. Len(Start) - 1 : Start[i] = Ahead(Start[i + 1], "Right")
  BY SnakeAssumption, Zenon DEF Different
<1>3. Chained(Start)  BY <1>1, <1>2, Zenon DEF Chained
<1>4. 1 \in 1 .. Len(Start) - 1 /\ 1 + 1 = 2  BY <1>2
<1> QED  BY <1>2, <1>3, <1>4 DEF IsSnake

\* A fresh run has such a snake, and food beside it.
LEMMA SnakeFresh ==
  ASSUME NEW b, NEW f, NEW d, NEW n, FreshSnake(b, f, d, n)
  PROVE  /\ IsSnake(b) /\ f \in Food(b) /\ d \in Directions /\ n \in Directions
         /\ b[1] = Ahead(b[2], d) /\ n # Opposite[d]
<1>1. b = Start /\ f \in Food(Start) /\ d = "Right" /\ n = "Right"
  BY Zenon DEF FreshSnake
<1>2. "Right" \in Directions /\ "Right" # Opposite["Right"]  BY StepsAre
<1> QED  BY <1>1, <1>2, StartIsSnake, Zenon

\* A snake with a new head on a free cell is a snake.
LEMMA SnakeGrows ==
  ASSUME NEW s, NEW h, NEW d \in Directions, IsSnake(s), h \in Cell, h \notin ToSet(s),
         h = Ahead(s[1], d)
  PROVE  IsSnake(<<h>> \o s) /\ (<<h>> \o s)[1] = h /\ (<<h>> \o s)[2] = s[1]
<1> DEFINE t == <<h>> \o s
           m == Len(s)
<1>1. s \in Seq(Cell) /\ m \in Nat /\ m >= 2  BY DEF IsSnake
<1>2. /\ t \in Seq(Cell) /\ Len(t) = m + 1 /\ t[1] = h
      /\ \A i \in 2 .. m + 1 : t[i] = s[i - 1]
  BY <1>1
<1> HIDE DEF t
<1>3. \A i \in 2 .. m + 1 : i - 1 \in 1 .. m  BY <1>1
<1>4. \A i \in 1 .. m : s[i] # h  BY <1>1 DEF ToSet
<1>5. Different(t)
  <2> SUFFICES ASSUME NEW i \in 1 .. m + 1, NEW j \in 1 .. m + 1, i # j, t[i] = t[j] PROVE FALSE
    BY <1>2 DEF Different
  <2>1. i - 1 # j - 1  OBVIOUS
  <2>2. CASE i = 1
    BY <2>2, <1>1, <1>2, <1>3, <1>4
  <2>3. CASE j = 1
    BY <2>3, <1>1, <1>2, <1>3, <1>4
  <2>4. CASE i # 1 /\ j # 1
    <3>1. i \in 2 .. m + 1 /\ j \in 2 .. m + 1  BY <2>4
    <3>2. s[i - 1] = s[j - 1] /\ i - 1 \in DOMAIN s /\ j - 1 \in DOMAIN s
      BY <1>1, <1>2, <1>3, <3>1
    <3> QED  BY <2>1, <3>2, Zenon DEF IsSnake, Different
  <2> QED  BY <2>2, <2>3, <2>4
<1>6. Chained(t)
  <2> SUFFICES ASSUME NEW i \in 1 .. m PROVE \E e \in Directions : t[i] = Ahead(t[i + 1], e)
    BY <1>1, <1>2 DEF Chained
  <2>1. CASE i = 1
    <3>1. t[i + 1] = s[1]  BY <2>1, <1>1, <1>2
    <3> QED  BY <2>1, <3>1, <1>2
  <2>2. CASE i # 1
    <3>1. i \in 2 .. m + 1 /\ i + 1 \in 2 .. m + 1 /\ (i + 1) - 1 = (i - 1) + 1
          /\ i - 1 \in 1 .. m - 1
      BY <2>2, <1>1
    <3>2. t[i] = s[i - 1] /\ t[i + 1] = s[(i - 1) + 1]  BY <3>1, <1>2
    <3>3. \E e \in Directions : s[i - 1] = Ahead(s[(i - 1) + 1], e)
      BY <3>1 DEF IsSnake, Chained
    <3> QED  BY <3>2, <3>3
  <2> QED  BY <2>1, <2>2
<1>7. t[2] = s[1]  BY <1>1, <1>2
<1> QED  BY <1>1, <1>2, <1>5, <1>6, <1>7 DEF IsSnake, t

\* So is one that leaves its last cell as it enters the next, which may be that cell.
LEMMA SnakeCreeps ==
  ASSUME NEW s, NEW h, NEW d \in Directions, IsSnake(s), h \in Cell, h \notin ToSet(Front(s)),
         h = Ahead(s[1], d)
  PROVE  LET t == <<h>> \o Front(s) IN IsSnake(t) /\ t[1] = h /\ t[2] = s[1]
<1> DEFINE f == Front(s)
           t == <<h>> \o f
           m == Len(s)
<1>1. s \in Seq(Cell) /\ m \in Nat /\ m >= 2 /\ s # <<>>  BY DEF IsSnake
<1>2. /\ f \in Seq(Cell) /\ Len(f) = m - 1 /\ \A i \in 1 .. m - 1 : f[i] = s[i]
  <2>1. SubSeq(s, 1, m - 1) \in Seq(Cell) /\ Len(SubSeq(s, 1, m - 1)) = m - 1
        /\ \A i \in 1 .. m - 1 : SubSeq(s, 1, m - 1)[i] = s[i]
    BY <1>1
  <2> QED  BY <2>1 DEF Front
<1> HIDE DEF f
<1>3. /\ t \in Seq(Cell) /\ Len(t) = m /\ t[1] = h
      /\ \A i \in 2 .. m : t[i] = f[i - 1]
  BY <1>1, <1>2
<1> HIDE DEF t
<1>4. \A i \in 2 .. m : t[i] = s[i - 1] /\ i - 1 \in 1 .. m - 1 /\ i - 1 \in 1 .. m
  <2> TAKE i \in 2 .. m
  <2>1. i - 1 \in 1 .. m - 1 /\ i - 1 \in 1 .. m  BY <1>1
  <2> QED  BY <2>1, <1>2, <1>3
<1>5. \A i \in 1 .. m - 1 : s[i] # h
  <2> SUFFICES ASSUME NEW i \in 1 .. m - 1, s[i] = h PROVE FALSE
    OBVIOUS
  <2>1. i \in DOMAIN f /\ f[i] = h  BY <1>1, <1>2
  <2> QED  BY <2>1 DEF ToSet, f
<1>6. Different(t)
  <2> SUFFICES ASSUME NEW i \in 1 .. m, NEW j \in 1 .. m, i # j, t[i] = t[j] PROVE FALSE
    BY <1>3 DEF Different
  <2>1. i - 1 # j - 1  OBVIOUS
  <2>2. CASE i = 1
    <3>1. j \in 2 .. m  BY <2>2
    <3> QED  BY <2>2, <3>1, <1>3, <1>4, <1>5
  <2>3. CASE j = 1
    <3>1. i \in 2 .. m  BY <2>3
    <3> QED  BY <2>3, <3>1, <1>3, <1>4, <1>5
  <2>4. CASE i # 1 /\ j # 1
    <3>1. i \in 2 .. m /\ j \in 2 .. m  BY <2>4
    <3>2. s[i - 1] = s[j - 1] /\ i - 1 \in DOMAIN s /\ j - 1 \in DOMAIN s
      BY <1>1, <1>4, <3>1
    <3> QED  BY <2>1, <3>2, Zenon DEF IsSnake, Different
  <2> QED  BY <2>2, <2>3, <2>4
<1>7. t[2] = s[1]  BY <1>1, <1>4
<1>8. Chained(t)
  <2> SUFFICES ASSUME NEW i \in 1 .. m - 1 PROVE \E e \in Directions : t[i] = Ahead(t[i + 1], e)
    BY <1>1, <1>3 DEF Chained
  <2>1. CASE i = 1
    BY <2>1, <1>3, <1>7
  <2>2. CASE i # 1
    <3>1. i \in 2 .. m /\ i + 1 \in 2 .. m /\ (i + 1) - 1 = (i - 1) + 1 /\ i - 1 \in 1 .. m - 1
      BY <2>2, <1>1
    <3>2. t[i] = s[i - 1] /\ t[i + 1] = s[(i - 1) + 1]  BY <3>1, <1>4
    <3>3. \E e \in Directions : s[i - 1] = Ahead(s[(i - 1) + 1], e)
      BY <3>1 DEF IsSnake, Chained
    <3> QED  BY <3>2, <3>3
  <2> QED  BY <2>1, <2>2
<1> QED  BY <1>1, <1>3, <1>6, <1>7, <1>8 DEF IsSnake, t, f

\* The cells it covers then are the new head's and all but the last of those before.
LEMMA CreptOver ==
  ASSUME NEW s, NEW h, IsSnake(s), h \in Cell
  PROVE  LET t == <<h>> \o Front(s) IN
         /\ ToSet(t) \subseteq ToSet(s) \cup {h} /\ ToSet(Front(s)) \subseteq ToSet(t)
         /\ h \in ToSet(t)
         /\ \A c \in ToSet(s) : c \in ToSet(Front(s)) \/ c = s[Len(s)]
<1> DEFINE f == Front(s)
           t == <<h>> \o f
           m == Len(s)
<1>1. s \in Seq(Cell) /\ m \in Nat /\ m >= 2  BY DEF IsSnake
<1>2. /\ f \in Seq(Cell) /\ Len(f) = m - 1 /\ \A i \in 1 .. m - 1 : f[i] = s[i]
  <2>1. SubSeq(s, 1, m - 1) \in Seq(Cell) /\ Len(SubSeq(s, 1, m - 1)) = m - 1
        /\ \A i \in 1 .. m - 1 : SubSeq(s, 1, m - 1)[i] = s[i]
    BY <1>1
  <2> QED  BY <2>1 DEF Front
<1> HIDE DEF f
<1>3. /\ t \in Seq(Cell) /\ Len(t) = m /\ t[1] = h
      /\ \A i \in 2 .. m : t[i] = f[i - 1]
  BY <1>1, <1>2
<1> HIDE DEF t
<1>4. DOMAIN t = 1 .. m /\ DOMAIN f = 1 .. m - 1 /\ DOMAIN s = 1 .. m  BY <1>1, <1>2, <1>3
<1>5. ToSet(t) \subseteq ToSet(s) \cup {h}
  <2> SUFFICES ASSUME NEW i \in 1 .. m, i # 1 PROVE t[i] \in ToSet(s)
    BY <1>3, <1>4 DEF ToSet
  <2>1. i \in 2 .. m /\ i - 1 \in 1 .. m - 1 /\ i - 1 \in 1 .. m  BY <1>1
  <2>2. t[i] = s[i - 1]  BY <2>1, <1>2, <1>3
  <2> QED  BY <2>1, <2>2, <1>4, Zenon DEF ToSet
<1>6. ToSet(f) \subseteq ToSet(t)
  <2> SUFFICES ASSUME NEW i \in 1 .. m - 1 PROVE f[i] \in ToSet(t)
    BY <1>4 DEF ToSet
  <2>1. i + 1 \in 2 .. m /\ i + 1 \in 1 .. m /\ (i + 1) - 1 = i  BY <1>1
  <2>2. t[i + 1] = f[i]  BY <2>1, <1>3
  <2> QED  BY <2>1, <2>2, <1>4, Zenon DEF ToSet
<1>7. h \in ToSet(t)
  <2>1. 1 \in DOMAIN t  BY <1>1, <1>4
  <2> QED  BY <2>1, <1>3, Zenon DEF ToSet
<1>8. \A c \in ToSet(s) : c \in ToSet(f) \/ c = s[m]
  <2> SUFFICES ASSUME NEW i \in 1 .. m, i # m PROVE s[i] \in ToSet(f)
    BY <1>4 DEF ToSet
  <2>1. i \in 1 .. m - 1  BY <1>1
  <2> QED  BY <2>1, <1>2, <1>4 DEF ToSet
<1> QED  BY <1>5, <1>6, <1>7, <1>8, Zenon DEF t, f

\* A step of the game keeps the invariant.
LEMMA SnakeSteps == ASSUME SnakeInv, StepOn PROVE SnakeInv'
<1> DEFINE head == Ahead(Head(body), next)
           eats == head = food
<1>0. /\ body[1] = Head(body) /\ next \in Directions /\ next' = next /\ dir' = next
      /\ IsSnake(body) /\ body # <<>>
  BY DEF SnakeInv, StepOn, IsSnake
<1>1. next # Opposite[next]
  BY <1>0, StepsAre
<1>2. CASE head \notin Cell \/ head \in Obstacles(eats)
  <2>1. snakeLife' = Ended(snakeLife) /\ UNCHANGED <<body, food>>
    BY <1>2, Zenon DEF StepOn
  <2>2. snakeLife' \in LifeState /\ snakeLife'.over  BY <2>1, LifeIs DEF SnakeInv
  <2> QED  BY <1>0, <2>1, <2>2 DEF SnakeInv
<1>3. CASE head \in Cell /\ head \notin Obstacles(eats) /\ eats
  <2>1. /\ body' = <<head>> \o body /\ food' \in Food(body') /\ snakeLife' = snakeLife
        /\ head \notin ToSet(body)
    BY <1>3, Zenon DEF StepOn, Obstacles
  <2> HIDE DEF head
  <2>2. IsSnake(body') /\ body'[1] = head /\ body'[2] = body[1]
    BY <1>0, <1>3, <2>1, SnakeGrows DEF head
  <2> QED  BY <1>0, <1>1, <2>1, <2>2 DEF SnakeInv, head
<1>4. CASE head \in Cell /\ head \notin Obstacles(eats) /\ ~ eats
  <2>1. /\ body' = <<head>> \o Front(body) /\ food' = food /\ snakeLife' = snakeLife
        /\ head \notin ToSet(Front(body))
    BY <1>4, Zenon DEF StepOn, Obstacles
  <2>2. IsSnake(body') /\ body'[1] = head /\ body'[2] = body[1]
    BY <1>0, <1>4, <2>1, SnakeCreeps
  <2>3. food \in Food(body')
    <3>1. /\ ToSet(body') \subseteq ToSet(body) \cup {head}
          /\ ToSet(Front(body)) \subseteq ToSet(body') /\ head \in ToSet(body')
          /\ \A c \in ToSet(body) : c \in ToSet(Front(body)) \/ c = body[Len(body)]
      BY <1>0, <1>4, <2>1, CreptOver, Zenon
    <3>2. CASE Cell \subseteq ToSet(body)
      <4>1. food = Nowhere  BY <3>2 DEF SnakeInv, Food
      <4>2. Cell \subseteq ToSet(body')  BY <1>4, <2>1, <3>1, <3>2
      <4> QED  BY <4>1, <4>2 DEF Food
    <3>3. CASE ~ (Cell \subseteq ToSet(body))
      <4>1. food \in Cell \ ToSet(body)  BY <3>3 DEF SnakeInv, Food
      <4>2. food \in Cell \ ToSet(body')  BY <1>4, <3>1, <4>1
      <4> QED  BY <4>2 DEF Food
    <3> QED  BY <3>2, <3>3
  <2> QED  BY <1>0, <1>1, <2>1, <2>2, <2>3 DEF SnakeInv
<1> QED  BY <1>2, <1>3, <1>4

\* The game begins in it.
LEMMA SnakeInitInv == SnakeInit => SnakeInv
BY SnakeFresh, StartedIs, Zenon DEF SnakeInit, SnakeInv

\* Every operation keeps it.
LEMMA SnakeStepInv == SnakeInv /\ SnakeNext => SnakeInv'
<1> SUFFICES ASSUME SnakeInv, SnakeNext PROVE SnakeInv'
  OBVIOUS
<1>1. CASE StepOn
  BY <1>1, SnakeSteps
<1>2. ASSUME NEW d \in Directions, Turn(d) PROVE SnakeInv'
  BY <1>2 DEF Turn, TurnAllowed, SnakeInv
<1>3. CASE SnakeRestart
  <2>1. snakeLife' \in LifeState  BY <1>3, LifeIs DEF SnakeRestart, SnakeInv
  <2> QED  BY <1>3, <2>1, SnakeFresh, Zenon DEF SnakeRestart, SnakeInv
<1>4. CASE SnakeLifeKey
  <2>1. snakeLife' \in LifeState /\ snakeLife'.over = snakeLife.over
    BY <1>4, LifeIs DEF SnakeLifeKey, SnakeInv
  <2> QED  BY <1>4, <2>1 DEF SnakeLifeKey, SnakeInv
<1> QED
  BY <1>1, <1>2, <1>3, <1>4 DEF SnakeNext

\* It holds while the game waits.
LEMMA SnakeStays == SnakeInv /\ UNCHANGED snakeVars => SnakeInv'
BY DEF SnakeInv, snakeVars

\* The snake is one chain of different cells, its food lies beside it, and no key turns it back on
\* its neck, on every board (SnakeGame of Arcade.cpp).
THEOREM SnakeIsWhole == SnakeSpec => []SnakeSound
<1> QED  BY SnakeInitInv, SnakeStepInv, SnakeStays, SnakeInvIsSound, PTL DEF SnakeSpec

(***************************************************************************)
(* The falling pieces.                                                     *)
(***************************************************************************)
\* The cells a piece may cover, from its own place.
Box == (0 .. 3) \X (-1 .. 2)

\* Every shape lies in that box, a fresh one in its first rows.
LEMMA ShapeIs ==
  ASSUME NEW p \in 0 .. 6
  PROVE  /\ \A r \in 0 .. 3 : Shape[p + 1][r + 1] \subseteq Box /\ Shape[p + 1][r + 1] # {}
         /\ Shape[p + 1][1] \subseteq (0 .. 3) \X (0 .. 1)
<1>0. \A s : (s[1] \subseteq Box /\ s[1] # {} /\ s[2] \subseteq Box /\ s[2] # {}
              /\ s[3] \subseteq Box /\ s[3] # {} /\ s[4] \subseteq Box /\ s[4] # {}) =>
             \A r \in 0 .. 3 : s[r + 1] \subseteq Box /\ s[r + 1] # {}
  <2> HIDE DEF Box
  <2> TAKE s
  <2> SUFFICES ASSUME s[1] \subseteq Box /\ s[1] # {} /\ s[2] \subseteq Box /\ s[2] # {}
                      /\ s[3] \subseteq Box /\ s[3] # {} /\ s[4] \subseteq Box /\ s[4] # {},
                      NEW r \in 0 .. 3
               PROVE  s[r + 1] \subseteq Box /\ s[r + 1] # {}
    OBVIOUS
  <2>1. r = 0 \/ r = 1 \/ r = 2 \/ r = 3  OBVIOUS
  <2>2. 0 + 1 = 1 /\ 1 + 1 = 2 /\ 2 + 1 = 3 /\ 3 + 1 = 4  OBVIOUS
  <2> QED  BY <2>1, <2>2
<1> DEFINE Fits(s) == /\ s[1] \subseteq Box /\ s[1] # {} /\ s[2] \subseteq Box /\ s[2] # {}
                      /\ s[3] \subseteq Box /\ s[3] # {} /\ s[4] \subseteq Box /\ s[4] # {}
                      /\ s[1] \subseteq (0 .. 3) \X (0 .. 1)
<1>1. Fits(Shape[1])  BY DEF Shape, Box
<1>2. Fits(Shape[2])  BY DEF Shape, Box
<1>3. Fits(Shape[3])  BY DEF Shape, Box
<1>4. Fits(Shape[4])  BY DEF Shape, Box
<1>5. Fits(Shape[5])  BY DEF Shape, Box
<1>6. Fits(Shape[6])  BY DEF Shape, Box
<1>7. Fits(Shape[7])  BY DEF Shape, Box
<1> HIDE DEF Fits
<1>8. Fits(Shape[p + 1])
  <2>1. p + 1 \in {1, 2, 3, 4, 5, 6, 7}  OBVIOUS
  <2> QED  BY <1>1, <1>2, <1>3, <1>4, <1>5, <1>6, <1>7, <2>1
<1> QED  BY <1>0, <1>8, Zenon DEF Fits

\* The cells of the board.
Board == (0 .. Cols - 1) \X (0 .. Rows - 1)
\* No row is full.
OpenRows(g) == \A r \in 0 .. Rows - 1 : \E c \in 0 .. Cols - 1 : <<c, r>> \notin g

\* The cells a piece covers are near its place.
LEMMA CellsAre ==
  ASSUME NEW p \in 0 .. 6, NEW r \in 0 .. 3, NEW px \in Int, NEW py \in Int
  PROVE  /\ \A c \in Cells(p, px, py, r) :
              /\ c \in Int \X Int /\ c[1] \in Int /\ c[2] \in Int
              /\ py - 1 <= c[2] /\ c[2] <= py + 2 /\ px <= c[1] /\ c[1] <= px + 3
         /\ Cells(p, px, py, r) # {}
<1> DEFINE S == Shape[p + 1][r + 1]
<1>1. S \subseteq Box /\ S # {}  BY ShapeIs
<1>2. Cells(p, px, py, r) = {<<px + c[1], py + c[2]>> : c \in S}  BY DEF Cells
<1> HIDE DEF S
<1>3. \A c \in S : c[1] \in 0 .. 3 /\ c[2] \in -1 .. 2  BY <1>1 DEF Box
<1>4. \A d \in S : LET c == <<px + d[1], py + d[2]>> IN
              /\ c \in Int \X Int /\ c[1] \in Int /\ c[2] \in Int
              /\ py - 1 <= c[2] /\ c[2] <= py + 2 /\ px <= c[1] /\ c[1] <= px + 3
  <2> SUFFICES ASSUME NEW d \in S
               PROVE  /\ px + d[1] \in Int /\ py + d[2] \in Int
                      /\ py - 1 <= py + d[2] /\ py + d[2] <= py + 2
                      /\ px <= px + d[1] /\ px + d[1] <= px + 3
    OBVIOUS
  <2> DEFINE a == d[1]
             b == d[2]
  <2>1. a \in 0 .. 3 /\ b \in -1 .. 2  BY <1>3
  <2> HIDE DEF a, b
  <2>2. px + a \in Int /\ px <= px + a /\ px + a <= px + 3  BY <2>1
  <2>3. py + b \in Int /\ py - 1 <= py + b /\ py + b <= py + 2  BY <2>1
  <2> QED  BY <2>2, <2>3 DEF a, b
<1>5. \A c \in Cells(p, px, py, r) : \E d \in S : c = <<px + d[1], py + d[2]>>  BY <1>2
<1>6. Cells(p, px, py, r) # {}  BY <1>1, <1>2
<1> QED  BY <1>4, <1>5, <1>6, Zenon

\* A piece that collides with nothing is on the board or above it.
LEMMA FreeIs ==
  ASSUME NEW g, NEW p \in 0 .. 6, NEW r \in 0 .. 3, NEW px \in Int, NEW py \in Int,
         ~ Collides(g, p, px, py, r)
  PROVE  \A c \in Cells(p, px, py, r) :
           c \in Int \X Int /\ c[1] \in 0 .. Cols - 1 /\ c[2] < Rows /\ c[2] \in Int /\ c \notin g
<1> SUFFICES ASSUME NEW c \in Cells(p, px, py, r)
             PROVE  c \in Int \X Int /\ c[1] \in 0 .. Cols - 1 /\ c[2] < Rows /\ c[2] \in Int
                    /\ c \notin g
  OBVIOUS
<1>1. ~ (c[1] < 0) /\ ~ (c[1] >= Cols) /\ ~ (c[2] >= Rows) /\ c \notin g  BY Zenon DEF Collides
<1>2. c \in Int \X Int /\ c[1] \in Int /\ c[2] \in Int  BY CellsAre
<1> QED  BY <1>1, <1>2, TetrisAssumption

\* Below the board every piece collides.
LEMMA BottomStops ==
  ASSUME NEW g, NEW p \in 0 .. 6, NEW r \in 0 .. 3, NEW px \in Int
  PROVE  Collides(g, p, px, Rows + 1, r)
<1>0. Rows \in Int /\ Rows + 1 \in Int  BY TetrisAssumption
<1>1. PICK c \in Cells(p, px, Rows + 1, r) : TRUE  BY <1>0, CellsAre
<1>2. c[2] \in Int /\ (Rows + 1) - 1 <= c[2]  BY <1>0, CellsAre
<1>3. c[2] >= Rows  BY <1>0, <1>2
<1> QED  BY <1>3, Zenon DEF Collides

\* A piece that comes fits an empty board.
LEMMA SpawnFits == ASSUME NEW p \in Pieces PROVE ~ Collides({}, p, SpawnX, 0, 0)
<1> USE TetrisAssumption
<1> SUFFICES ASSUME NEW c \in Cells(p, SpawnX, 0, 0)
             PROVE  ~ (c[1] < 0 \/ c[1] >= Cols \/ c[2] >= Rows)
  BY Zenon DEF Collides
<1>1. PICK d \in Shape[p + 1][0 + 1] : c = <<SpawnX + d[1], 0 + d[2]>>  BY Zenon DEF Cells
<1>2. d \in (0 .. 3) \X (0 .. 1)
  <2>1. 0 + 1 = 1 /\ p \in 0 .. 6  OBVIOUS
  <2> QED  BY <1>1, <2>1, ShapeIs
<1>3. c[1] = SpawnX + d[1] /\ c[2] = d[2] /\ d[1] \in 0 .. 3 /\ d[2] \in 0 .. 1  BY <1>1, <1>2
<1> QED  BY <1>3

-----------------------------------------------------------------------------

\* The rows that are cleared.
FullRows(g) == {r \in 0 .. Rows - 1 : \A c \in 0 .. Cols - 1 : <<c, r>> \in g}
\* Those of them that lie below a row.
FullBelow(g, r) == {f \in FullRows(g) : f > r}
\* How far what lies in a row falls.
Dropped(g, r) == Cardinality(FullBelow(g, r))

\* Clearing drops what is left by the full rows below it.
LEMMA ClearedIs ==
  ASSUME NEW g
  PROVE  Cleared(g)
           = {<<c[1], c[2] + Dropped(g, c[2])>> : c \in {d \in g : d[2] \notin FullRows(g)}}
BY Zenon DEF Cleared, Dropped, FullBelow, FullRows

\* What falls stays on the board.
LEMMA DropIs ==
  ASSUME NEW g, NEW r \in 0 .. Rows - 1
  PROVE  /\ IsFiniteSet(FullBelow(g, r)) /\ Dropped(g, r) \in Nat
         /\ r + Dropped(g, r) \in 0 .. Rows - 1
<1> USE TetrisAssumption
<1>1. FullBelow(g, r) \subseteq r + 1 .. Rows - 1  BY DEF FullBelow, FullRows
<1>2. r + 1 \in Int /\ Rows - 1 \in Int  OBVIOUS
<1>3. /\ IsFiniteSet(r + 1 .. Rows - 1)
      /\ Cardinality(r + 1 .. Rows - 1) =
           IF r + 1 > Rows - 1 THEN 0 ELSE (Rows - 1) - (r + 1) + 1
  BY <1>2, FS_Interval
<1>4. Cardinality(r + 1 .. Rows - 1) = (Rows - 1) - r
  <2>1. (r + 1 > Rows - 1) => (Rows - 1) - r = 0  OBVIOUS
  <2>2. (Rows - 1) - (r + 1) + 1 = (Rows - 1) - r  OBVIOUS
  <2> QED  BY <1>3, <2>1, <2>2
<1>5. /\ IsFiniteSet(FullBelow(g, r))
      /\ Cardinality(FullBelow(g, r)) <= Cardinality(r + 1 .. Rows - 1)
  BY <1>1, <1>3, FS_Subset
<1>6. Dropped(g, r) \in Nat  BY <1>5, FS_CardinalityType DEF Dropped
<1>7. Dropped(g, r) <= (Rows - 1) - r  BY <1>4, <1>5 DEF Dropped
<1> QED  BY <1>5, <1>6, <1>7

\* Rows that are not full stay apart and in their order.
LEMMA RowsStayApart ==
  ASSUME NEW g, NEW r \in 0 .. Rows - 1, NEW s \in 0 .. Rows - 1, r < s, s \notin FullRows(g)
  PROVE  r + Dropped(g, r) < s + Dropped(g, s)
<1> USE TetrisAssumption
<1> DEFINE A == FullBelow(g, s)
           B == r + 1 .. s - 1
<1>1. FullBelow(g, r) \subseteq A \cup B
  <2> SUFFICES ASSUME NEW f \in FullBelow(g, r), f \notin A PROVE f \in B
    OBVIOUS
  <2>1. f \in FullRows(g) /\ f > r /\ f \in 0 .. Rows - 1  BY DEF FullBelow, FullRows
  <2>2. ~ (f > s) /\ f # s  BY <2>1 DEF FullBelow
  <2> QED  BY <2>1, <2>2
<1>2. IsFiniteSet(A) /\ Cardinality(A) \in Nat  BY DropIs DEF Dropped
<1>3. r + 1 \in Int /\ s - 1 \in Int  OBVIOUS
<1>4. IsFiniteSet(B) /\ Cardinality(B) = (IF r + 1 > s - 1 THEN 0 ELSE (s - 1) - (r + 1) + 1)
  BY <1>3, FS_Interval
<1>5. Cardinality(B) = (s - 1) - r
  <2>1. (r + 1 > s - 1) => (s - 1) - r = 0  OBVIOUS
  <2>2. (s - 1) - (r + 1) + 1 = (s - 1) - r  OBVIOUS
  <2> QED  BY <1>4, <2>1, <2>2
<1>6. /\ IsFiniteSet(A \cup B)
      /\ Cardinality(A \cup B) = Cardinality(A) + Cardinality(B) - Cardinality(A \cap B)
  BY <1>2, <1>4, FS_Union
<1>7. Cardinality(A \cap B) \in Nat
  <2>1. IsFiniteSet(A \cap B)  BY <1>2, FS_Subset
  <2> QED  BY <2>1, FS_CardinalityType
<1>8. Cardinality(FullBelow(g, r)) <= Cardinality(A \cup B)  BY <1>1, <1>6, FS_Subset
<1> DEFINE a == Cardinality(A)
           b == Cardinality(B)
           i == Cardinality(A \cap B)
           u == Cardinality(A \cup B)
           d == Cardinality(FullBelow(g, r))
<1>9. a \in Nat /\ b = (s - 1) - r /\ i \in Nat /\ u = a + b - i /\ d <= u /\ d \in Nat
  <2>1. d \in Nat  BY DropIs DEF Dropped
  <2> QED  BY <1>2, <1>5, <1>6, <1>7, <1>8, <2>1
<1> HIDE DEF a, b, i, u, d
<1>10. r + d < s + a  BY <1>9
<1> QED  BY <1>10 DEF a, d, Dropped

\* After clearing no row is full.
LEMMA ClearedIsOpen ==
  ASSUME NEW g \in SUBSET Board
  PROVE  Cleared(g) \subseteq Board /\ OpenRows(Cleared(g))
<1> USE TetrisAssumption
<1>1. ASSUME NEW e \in Cleared(g)
      PROVE  \E c \in 0 .. Cols - 1, r \in (0 .. Rows - 1) \ FullRows(g) :
               <<c, r>> \in g /\ e = <<c, r + Dropped(g, r)>>
  <2>1. PICK d \in g : d[2] \notin FullRows(g) /\ e = <<d[1], d[2] + Dropped(g, d[2])>>
    BY ClearedIs
  <2>2. d[1] \in 0 .. Cols - 1 /\ d[2] \in 0 .. Rows - 1 /\ d = <<d[1], d[2]>>  BY DEF Board
  <2> QED  BY <2>1, <2>2
<1>2. Cleared(g) \subseteq Board
  <2> SUFFICES ASSUME NEW e \in Cleared(g) PROVE e \in Board
    OBVIOUS
  <2>1. PICK c \in 0 .. Cols - 1, r \in (0 .. Rows - 1) \ FullRows(g) :
          e = <<c, r + Dropped(g, r)>>
    BY <1>1
  <2>2. r + Dropped(g, r) \in 0 .. Rows - 1  BY DropIs
  <2> QED  BY <2>1, <2>2 DEF Board
<1>3. ASSUME NEW q \in 0 .. Rows - 1, \A c \in 0 .. Cols - 1 : <<c, q>> \in Cleared(g)
      PROVE  FALSE
  <2>1. ASSUME NEW c \in 0 .. Cols - 1
        PROVE  \E r \in (0 .. Rows - 1) \ FullRows(g) : <<c, r>> \in g /\ q = r + Dropped(g, r)
    <3>1. <<c, q>> \in Cleared(g)  BY <1>3
    <3>2. PICK k \in 0 .. Cols - 1, r \in (0 .. Rows - 1) \ FullRows(g) :
            <<k, r>> \in g /\ <<c, q>> = <<k, r + Dropped(g, r)>>
      BY <1>1, <3>1
    <3>3. c = k /\ q = r + Dropped(g, r)  BY <3>2
    <3> QED  BY <3>2, <3>3
  <2>2. 0 \in 0 .. Cols - 1  OBVIOUS
  <2>3. PICK r \in (0 .. Rows - 1) \ FullRows(g) : q = r + Dropped(g, r)  BY <2>1, <2>2
  <2>4. PICK c \in 0 .. Cols - 1 : <<c, r>> \notin g  BY DEF FullRows
  <2>5. PICK s \in (0 .. Rows - 1) \ FullRows(g) : <<c, s>> \in g /\ q = s + Dropped(g, s)
    BY <2>1
  <2>6. r # s /\ r \in Int /\ s \in Int /\ (r < s \/ s < r)  BY <2>4, <2>5
  <2>7. q < q  BY <2>3, <2>5, <2>6, RowsStayApart
  <2> QED  BY <2>7
<1> QED  BY <1>2, <1>3 DEF OpenRows

-----------------------------------------------------------------------------

\* The invariant of the board, the piece and the bag.
TetrisInv ==
  /\ grid \subseteq Board /\ OpenRows(grid)
  /\ cur \in Pieces /\ upcoming \in Pieces /\ rot \in 0 .. 3 /\ x \in Int /\ y \in Nat
  /\ bag \subseteq Pieces \ {upcoming}
  /\ cur \in bag => bag \cup {upcoming} = Pieces
  /\ tetrisLife \in LifeState
  /\ tetrisLife.over <=> Collides(grid, cur, x, y, rot)

\* It holds what is stated of the game.
LEMMA TetrisInvIsSound == TetrisInv => TetrisSound /\ BagIsFair
BY Zenon DEF TetrisInv, TetrisSound, BagIsFair, Board, OpenRows

\* Pieces are numbered from 0 to 6.
LEMMA PiecesAre == \A p \in Pieces : p \in 0 .. 6
BY TetrisAssumption

\* What is drawn next
LEMMA DrawIs ==
  ASSUME NEW b \in SUBSET Pieces, NEW piece \in Pieces \ b, NEW p \in Draws(b)
  PROVE  /\ p \in Pieces /\ Rest(b, p) \subseteq Pieces \ {p}
         /\ piece \in Rest(b, p) => Rest(b, p) \cup {p} = Pieces
BY DEF Draws, Rest

\* A piece that comes in keeps the invariant.
LEMMA TetrisSpawns ==
  ASSUME NEW g \in SUBSET Board, OpenRows(g), NEW b \in SUBSET Pieces, NEW piece \in Pieces \ b,
         NEW l \in LifeState, ~ l.over, Spawn(g, piece, b, l)
  PROVE  TetrisInv'
<1>1. /\ grid' = g /\ cur' = piece /\ x' = SpawnX /\ y' = 0 /\ rot' = 0
      /\ tetrisLife' = IF Collides(g, piece, SpawnX, 0, 0) THEN Ended(l) ELSE l
  BY DEF Spawn
<1>2. PICK p \in Draws(b) : upcoming' = p /\ bag' = Rest(b, p)  BY DEF Spawn
<1>3. /\ upcoming' \in Pieces /\ bag' \subseteq Pieces \ {upcoming'}
      /\ (cur' \in bag' => bag' \cup {upcoming'} = Pieces)
  BY <1>1, <1>2, DrawIs
<1>4. /\ tetrisLife' \in LifeState
      /\ tetrisLife'.over <=> Collides(g, piece, SpawnX, 0, 0)
  BY <1>1, LifeIs
<1>5. tetrisLife'.over <=> Collides(grid', cur', x', y', rot')  BY <1>1, <1>4
<1>6. (tetrisLife.over <=> Collides(grid, cur, x, y, rot))'
  BY <1>5 DEF Collides, Cells
<1>7. /\ cur' \in Pieces /\ rot' \in 0 .. 3 /\ x' \in Int /\ y' \in Nat
      /\ grid' \subseteq Board /\ OpenRows(grid)'
  BY <1>1, TetrisAssumption DEF OpenRows
<1> QED  BY <1>3, <1>4, <1>6, <1>7 DEF TetrisInv

\* So does one that is locked, with the rows it clears.
LEMMA TetrisLocks ==
  ASSUME TetrisInv, ~ tetrisLife.over, NEW py \in Nat, ~ Collides(grid, cur, x, py, rot),
         LockPiece(py)
  PROVE  TetrisInv'
<1>0. /\ grid \subseteq Board /\ cur \in 0 .. 6 /\ rot \in 0 .. 3 /\ x \in Int /\ py \in Int
      /\ upcoming \in Pieces /\ bag \subseteq Pieces \ {upcoming} /\ tetrisLife \in LifeState
      /\ Rows \in Nat
  BY PiecesAre, TetrisAssumption DEF TetrisInv
<1> DEFINE landed == {c \in Cells(cur, x, py, rot) : c[2] >= 0}
<1>1. landed \subseteq Board
  <2> SUFFICES ASSUME NEW c \in landed PROVE c \in Board
    OBVIOUS
  <2>1. c \in Int \X Int /\ c[1] \in 0 .. Cols - 1 /\ c[2] < Rows /\ c[2] \in Int
    BY <1>0, FreeIs
  <2>2. c[2] >= 0 /\ c[2] \in 0 .. Rows - 1  BY <1>0, <2>1
  <2> QED  BY <2>1, <2>2 DEF Board
<1> DEFINE g == grid \cup landed
<1>2. g \in SUBSET Board  BY <1>0, <1>1
<1>3. Spawn(Cleared(g), upcoming, bag, tetrisLife)  BY Zenon DEF LockPiece
<1> HIDE DEF g
<1>4. Cleared(g) \in SUBSET Board /\ OpenRows(Cleared(g))  BY <1>2, ClearedIsOpen
<1>5. upcoming \in Pieces \ bag /\ bag \in SUBSET Pieces  BY <1>0
<1> QED  BY <1>0, <1>3, <1>4, <1>5, TetrisSpawns

\* A hard drop comes to rest in a free row.
LEMMA GhostIs ==
  ASSUME TetrisInv, ~ tetrisLife.over
  PROVE  GhostY \in Nat /\ ~ Collides(grid, cur, x, GhostY, rot)
<1>0. /\ cur \in 0 .. 6 /\ rot \in 0 .. 3 /\ x \in Int /\ y \in Nat /\ y \in Int /\ Rows \in Nat
      /\ ~ Collides(grid, cur, x, y, rot)
  BY PiecesAre, TetrisAssumption DEF TetrisInv
<1>1. y <= Rows
  <2>1. PICK c \in Cells(cur, x, y, rot) : TRUE  BY <1>0, CellsAre
  <2>2. c[2] \in Int /\ c[2] < Rows /\ y - 1 <= c[2]  BY <1>0, CellsAre, FreeIs
  <2> QED  BY <1>0, <2>2
<1> DEFINE H == {q \in Nat : q > y /\ Collides(grid, cur, x, q, rot)}
<1>2. Rows + 1 \in H
  <2>1. Rows + 1 \in Nat /\ Rows + 1 > y  BY <1>0, <1>1
  <2> QED  BY <1>0, <2>1, BottomStops
<1>3. PICK h \in H : \A q \in H : h <= q
  <2>1. H \subseteq Nat /\ H # {}  BY <1>2
  <2> HIDE DEF H
  <2> QED  BY <2>1, LeastNumber
<1> DEFINE Rests(py) == /\ Collides(grid, cur, x, py + 1, rot)
                        /\ \A q \in y + 1 .. py : ~ Collides(grid, cur, x, q, rot)
<1>4. h \in Nat /\ h > y /\ h <= Rows + 1 /\ Collides(grid, cur, x, h, rot)  BY <1>2, <1>3
<1>5. h - 1 \in y .. Rows /\ (h - 1) + 1 = h  BY <1>0, <1>4
<1>6. \A q \in y + 1 .. h - 1 : ~ Collides(grid, cur, x, q, rot)
  <2> SUFFICES ASSUME NEW q \in y + 1 .. h - 1, Collides(grid, cur, x, q, rot) PROVE FALSE
    OBVIOUS
  <2>1. q \in Nat /\ q > y /\ q < h  BY <1>0, <1>4
  <2>2. q \in H  BY <2>1
  <2> QED  BY <1>3, <1>4, <2>1, <2>2
<1>7. Rests(h - 1)  BY <1>4, <1>5, <1>6
<1>8. GhostY \in y .. Rows /\ Rests(GhostY)
  <2> HIDE DEF H
  <2>1. \E py \in y .. Rows : Rests(py)  BY <1>5, <1>7
  <2>2. GhostY = CHOOSE py \in y .. Rows : Rests(py)  BY Zenon DEF GhostY
  <2> HIDE DEF Rests
  <2> QED  BY <2>1, <2>2, Zenon
<1>9. GhostY \in Nat  BY <1>0, <1>8
<1>10. CASE GhostY = y
  BY <1>0, <1>9, <1>10
<1>11. CASE GhostY # y
  <2>1. GhostY \in y + 1 .. GhostY  BY <1>0, <1>8, <1>11
  <2> QED  BY <1>8, <1>9, <2>1
<1> QED  BY <1>10, <1>11

\* A piece that moves without a collision
LEMMA TetrisMoves ==
  ASSUME TetrisInv, ~ tetrisLife.over, UNCHANGED <<grid, cur, upcoming, bag, tetrisLife>>,
         x' \in Int, y' \in Nat, rot' \in 0 .. 3, ~ Collides(grid, cur, x', y', rot')
  PROVE  TetrisInv'
<1>1. ~ Collides(grid, cur, x, y, rot)'  BY DEF Collides, Cells
<1> QED  BY <1>1, Zenon DEF TetrisInv, OpenRows

\* So does what changes neither board nor piece.
LEMMA TetrisKeeps ==
  ASSUME TetrisInv, UNCHANGED <<grid, cur, x, y, rot, upcoming, bag>>,
         tetrisLife' \in LifeState, tetrisLife'.over = tetrisLife.over
  PROVE  TetrisInv'
<1>1. (tetrisLife.over <=> Collides(grid, cur, x, y, rot))'
  BY Zenon DEF TetrisInv, Collides, Cells
<1> QED  BY <1>1, Zenon DEF TetrisInv, OpenRows

\* The game begins in the invariant.
LEMMA TetrisInitInv == TetrisInit => TetrisInv
<1> SUFFICES ASSUME TetrisInit PROVE TetrisInv
  OBVIOUS
<1>1. PICK first \in Pieces, second \in Pieces :
        /\ second \in Draws(Rest({}, first)) /\ grid = {} /\ cur = first /\ x = SpawnX
        /\ y = 0 /\ rot = 0 /\ upcoming = second /\ bag = Rest(Rest({}, first), second)
        /\ tetrisLife = Started
  BY Zenon DEF TetrisInit
<1>2. Rest({}, first) = Pieces \ {first}  BY DEF Rest, Draws
<1>3. /\ bag \subseteq Pieces \ {upcoming} /\ (cur \in bag => bag \cup {upcoming} = Pieces)
  <2>1. Rest({}, first) \in SUBSET Pieces /\ first \in Pieces \ Rest({}, first)  BY <1>2
  <2> QED  BY <1>1, <2>1, DrawIs
<1>4. ~ Collides(grid, cur, x, y, rot)  BY <1>1, SpawnFits
<1>5. grid \subseteq Board /\ OpenRows(grid)
  <2>1. 0 \in 0 .. Cols - 1  BY TetrisAssumption
  <2> QED  BY <1>1, <2>1 DEF OpenRows
<1>6. rot \in 0 .. 3 /\ x \in Int /\ y \in Nat  BY <1>1, TetrisAssumption
<1>7. tetrisLife \in LifeState /\ ~ tetrisLife.over  BY <1>1, StartedIs
<1> QED  BY <1>1, <1>3, <1>4, <1>5, <1>6, <1>7 DEF TetrisInv

\* Every operation keeps it.
LEMMA TetrisStepInv == TetrisInv /\ TetrisNext => TetrisInv'
<1> SUFFICES ASSUME TetrisInv, TetrisNext PROVE TetrisInv'
  OBVIOUS
<1>0. /\ tetrisLife \in LifeState /\ x \in Int /\ y \in Nat /\ rot \in 0 .. 3
      /\ (tetrisLife.over <=> Collides(grid, cur, x, y, rot))
      /\ (Running(tetrisLife) => ~ tetrisLife.over)
  BY LifeIs DEF TetrisInv
<1>1. ASSUME NEW dx \in Int, NEW dy \in Nat, Move(dx, dy) PROVE TetrisInv'
  <2>1. /\ ~ tetrisLife.over /\ UNCHANGED <<grid, cur, rot, upcoming, bag, tetrisLife>>
        /\ x' = x + dx /\ y' = y + dy /\ ~ Collides(grid, cur, x + dx, y + dy, rot)
    BY <1>0, <1>1 DEF Move
  <2>2. x' \in Int /\ y' \in Nat  BY <1>0, <2>1
  <2> QED  BY <1>0, <2>1, <2>2, TetrisMoves
<1>2. CASE Rotate
  <2> DEFINE turned == (rot + 1) % 4
             kicks == <<0, -1, 1, -2, 2>>
  <2>1. PICK i \in DOMAIN kicks :
          ~ Collides(grid, cur, x + kicks[i], y, turned) /\ x' = x + kicks[i] /\ rot' = turned
    BY <1>2, Zenon DEF Rotate
  <2>2. ~ tetrisLife.over /\ UNCHANGED <<grid, cur, y, upcoming, bag, tetrisLife>>
    BY <1>0, <1>2 DEF Rotate
  <2>3. kicks[i] \in Int  OBVIOUS
  <2>4. turned \in 0 .. 3  BY <1>0
  <2> HIDE DEF turned, kicks
  <2>5. x' \in Int  BY <1>0, <2>1, <2>3
  <2> QED  BY <1>0, <2>1, <2>2, <2>4, <2>5, TetrisMoves
<1>3. CASE HardDrop
  BY <1>0, <1>3, GhostIs, TetrisLocks DEF HardDrop
<1>4. CASE Elapse
  BY <1>0, <1>4, TetrisKeeps DEF Elapse
<1>5. CASE Gravity
  <2>1. ~ tetrisLife.over  BY <1>0, <1>5 DEF Gravity
  <2>2. CASE Collides(grid, cur, x, y + 1, rot)
    <3>1. LockPiece(y)  BY <1>5, <2>2, Zenon DEF Gravity
    <3> QED  BY <1>0, <2>1, <3>1, TetrisLocks
  <2>3. CASE ~ Collides(grid, cur, x, y + 1, rot)
    <3>1. y' = y + 1 /\ UNCHANGED <<grid, cur, x, rot, upcoming, bag, tetrisLife>>
      BY <1>5, <2>3, Zenon DEF Gravity
    <3>2. y' \in Nat  BY <1>0, <3>1
    <3> QED  BY <1>0, <2>1, <2>3, <3>1, <3>2, TetrisMoves
  <2> QED  BY <2>2, <2>3
<1>6. CASE TetrisRestart
  <2>1. PICK first \in Pieces : Spawn({}, first, Rest({}, first), Restarted(tetrisLife))
    BY <1>6 DEF TetrisRestart
  <2>2. Rest({}, first) \in SUBSET Pieces /\ first \in Pieces \ Rest({}, first)
    BY DEF Rest, Draws
  <2>3. {} \in SUBSET Board /\ OpenRows({})
    <3>1. 0 \in 0 .. Cols - 1  BY TetrisAssumption
    <3> QED  BY <3>1 DEF OpenRows
  <2>4. Restarted(tetrisLife) \in LifeState /\ ~ Restarted(tetrisLife).over  BY <1>0, LifeIs
  <2> QED  BY <2>1, <2>2, <2>3, <2>4, TetrisSpawns
<1>7. CASE TetrisLifeKey
  <2>1. tetrisLife' \in LifeState /\ tetrisLife'.over = tetrisLife.over
    BY <1>0, <1>7, LifeIs DEF TetrisLifeKey
  <2> QED  BY <1>7, <2>1, TetrisKeeps DEF TetrisLifeKey
<1>8. ASSUME NEW dx \in {-1, 1}, Move(dx, 0) PROVE TetrisInv'
  BY <1>1, <1>8
<1>9. CASE Move(0, 1)
  BY <1>1, <1>9
<1> QED
  BY <1>2, <1>3, <1>4, <1>5, <1>6, <1>7, <1>8, <1>9, Zenon DEF TetrisNext

\* It holds while the game waits.
LEMMA TetrisStays == TetrisInv /\ UNCHANGED tetrisVars => TetrisInv'
<1> SUFFICES ASSUME TetrisInv, UNCHANGED tetrisVars PROVE TetrisInv'
  OBVIOUS
<1>1. tetrisLife' \in LifeState  BY DEF TetrisInv, tetrisVars
<1> QED  BY <1>1, TetrisKeeps DEF tetrisVars

\* The run is over when and only when the piece that came in had no place, no piece leaves the
\* board or lies on another, no full row stays, and no bag deals a piece twice, on every board
\* (TetrisGame of Arcade.cpp).
THEOREM PiecesFit == TetrisSpec => [](TetrisSound /\ BagIsFair)
<1> QED  BY TetrisInitInv, TetrisStepInv, TetrisStays, TetrisInvIsSound, PTL DEF TetrisSpec

(***************************************************************************)
(* The rhythm game.                                                        *)
(***************************************************************************)
\* A note is ahead, hit or missed.
NoteStates == {"pending", "hit", "missed"}

\* The notes of a chart are due one after the other.
InTime(c) ==
  /\ \A i \in 1 .. Notes : c[i].at \in Nat
  /\ \A i, j \in 1 .. Notes : i < j => c[i].at < c[j].at

\* What the variables hold.
RhythmTypes ==
  /\ InTime(chart)
  /\ state \in [1 .. Notes -> NoteStates] /\ time \in Nat
  /\ judged \in Nat /\ misses \in Nat /\ cleared \in BOOLEAN /\ failMode \in BOOLEAN
  /\ rhythmLife \in LifeState

\* What is judged and what is missed, in numbers
Heard == (1 .. Notes) \ Pending
\* Judgements are of notes, or they are bad keys.
Tally == judged - Cardinality(Heard) = misses - Cardinality(Missed)

\* No pending note is later than its window.
NotesWait == ~ rhythmLife.over => \A i \in Pending : time <= chart[i].at + LateWindow
\* The song runs until its last note and the pause behind it.
SongGoesOn == ~ rhythmLife.over => time <= LastNote + LateWindow + EndPause
\* A song that is over is cleared, or something was missed.
EndIsClear ==
  /\ cleared => rhythmLife.over /\ Pending = {}
  /\ rhythmLife.over /\ ~ cleared => misses > 0

\* The invariant of the song.
RhythmInv == RhythmTypes /\ Tally /\ NotesWait /\ SongGoesOn /\ EndIsClear

\* The notes of a chart come in time's order.
LEMMA ChartsInTime == ASSUME NEW c \in Charts PROVE InTime(c)
<1> USE RhythmAssumption
<1>1. PICK song \in [lane : [1 .. Notes -> 1 .. NoteLanes], late : [1 .. Notes -> {0, HalfBeat}]] :
        c = ChartOf(song)
  BY Zenon DEF Charts
<1> DEFINE late == song.late
<1>1a. late \in [1 .. Notes -> {0, HalfBeat}]  OBVIOUS
<1>2. \A i \in 1 .. Notes : c[i].at = LeadIn + 2 * (i - 1) * HalfBeat + late[i]
  BY <1>1 DEF ChartOf
<1> HIDE DEF late
<1>3. ASSUME NEW i \in 1 .. Notes
      PROVE  /\ 2 * (i - 1) * HalfBeat \in Nat /\ late[i] \in Nat /\ late[i] <= HalfBeat
             /\ \A j \in 1 .. Notes : i < j =>
                  2 * (j - 1) * HalfBeat >= 2 * (i - 1) * HalfBeat + 2 * HalfBeat
  <2>1. late[i] \in {0, HalfBeat}  BY <1>1a
  <2>2. 2 * (i - 1) \in Nat  OBVIOUS
  <2>3. 2 * (i - 1) * HalfBeat \in Nat  BY <2>2
  <2>4. ASSUME NEW j \in 1 .. Notes, i < j
        PROVE  2 * (j - 1) * HalfBeat >= 2 * (i - 1) * HalfBeat + 2 * HalfBeat
    <3>1. PICK e \in Nat : j - 1 = (i - 1) + 1 + e
      <4>1. j - i - 1 \in Nat /\ j - 1 = (i - 1) + 1 + (j - i - 1)  BY <2>4
      <4> QED  BY <4>1
    <3>2. 2 * (j - 1) * HalfBeat = 2 * (i - 1) * HalfBeat + 2 * HalfBeat + 2 * e * HalfBeat
      BY <3>1
    <3>3. 2 * e * HalfBeat \in Nat  OBVIOUS
    <3> QED  BY <2>3, <3>2, <3>3
  <2> QED  BY <2>1, <2>3, <2>4
<1>4. ASSUME NEW i \in 1 .. Notes PROVE c[i].at \in Nat
  <2> DEFINE a0 == 2 * (i - 1) * HalfBeat
  <2>1. a0 \in Nat /\ late[i] \in Nat  BY <1>3
  <2>2. c[i].at = LeadIn + a0 + late[i]  BY <1>2
  <2> HIDE DEF a0
  <2> QED  BY <2>1, <2>2
<1>5. ASSUME NEW i \in 1 .. Notes, NEW j \in 1 .. Notes, i < j PROVE c[i].at < c[j].at
  <2> DEFINE a0 == 2 * (i - 1) * HalfBeat
             b0 == 2 * (j - 1) * HalfBeat
  <2>1. a0 \in Nat /\ b0 \in Nat /\ b0 >= a0 + 2 * HalfBeat /\ late[i] \in Nat
        /\ late[i] <= HalfBeat
        /\ late[j] \in Nat
    BY <1>3, <1>5
  <2>2. c[i].at = LeadIn + a0 + late[i] /\ c[j].at = LeadIn + b0 + late[j]
    BY <1>2
  <2> HIDE DEF a0, b0
  <2> QED  BY <2>1, <2>2
<1> QED  BY <1>4, <1>5 DEF InTime

\* A distance is a number.
LEMMA DistanceIs == ASSUME RhythmTypes, NEW i \in 1 .. Notes PROVE Distance(i) \in Nat
BY DEF RhythmTypes, InTime, Distance

\* One of the notes of a ln that wait is the nearest.
LEMMA NearestIs ==
  ASSUME RhythmTypes, NEW ln, NEW i \in Pending, chart[i].lane = ln
  PROVE  \E n \in Nearest(ln) : Distance(n) <= Distance(i)
<1> DEFINE W == {j \in Pending : chart[j].lane = ln}
           D == {Distance(j) : j \in W}
<1>1. W \subseteq 1 .. Notes /\ i \in W  BY DEF Pending
<1>2. D \subseteq Nat /\ Distance(i) \in D  BY <1>1, DistanceIs
<1>3. PICK d \in D : \A e \in D : d <= e  BY <1>2, LeastNumber, Zenon
<1> DEFINE M == {j \in W : Distance(j) = d}
<1>4. M \subseteq Nat /\ M # {}  BY <1>1, <1>3
<1>5. PICK n \in M : \A j \in M : n <= j  BY <1>4, LeastNumber, Zenon
<1>6. n \in Nearest(ln)
  <2> SUFFICES ASSUME NEW j \in Pending \ {n}, chart[j].lane = ln
               PROVE  Distance(n) < Distance(j) \/ (Distance(n) = Distance(j) /\ n < j)
    BY <1>5 DEF Nearest
  <2>1. j \in W /\ n \in W /\ Distance(n) = d /\ d <= Distance(j)  BY <1>3, <1>5
  <2>2. Distance(j) \in Nat /\ d \in Nat /\ j \in Nat /\ n \in Nat  BY <1>1, <1>2, <2>1
  <2>3. CASE Distance(j) = d
    <3>1. n <= j  BY <1>5, <2>1, <2>3
    <3> QED  BY <2>1, <2>2, <2>3, <3>1
  <2>4. CASE Distance(j) # d
    BY <2>1, <2>2, <2>4
  <2> QED  BY <2>3, <2>4
<1> QED  BY <1>2, <1>3, <1>5, <1>6

\* A key within the window of a pending note of its ln finds one.
LEMMA NoKeySwallowed == RhythmTypes => NoSwallowedKey
<1> SUFFICES ASSUME RhythmTypes, NEW ln \in 1 .. NoteLanes,
                    NEW i \in Pending, chart[i].lane = ln, Distance(i) <= GoodWindow
             PROVE  \E n \in Nearest(ln) : Distance(n) <= GoodWindow
  BY Zenon DEF NoSwallowedKey
<1>1. PICK n \in Nearest(ln) : Distance(n) <= Distance(i)  BY NearestIs
<1>2. Distance(n) \in Nat /\ Distance(i) \in Nat /\ GoodWindow \in Nat
  BY DistanceIs, RhythmAssumption DEF Nearest, Pending
<1> QED  BY <1>1, <1>2

\* A note that is judged leaves the pending ones, and is counted once.
LEMMA JudgedCounts ==
  ASSUME RhythmTypes, NEW i \in Pending, NEW v \in {"hit", "missed"},
         state' = [state EXCEPT ![i] = v]
  PROVE  /\ state' \in [1 .. Notes -> NoteStates]
         /\ Pending' = Pending \ {i}
         /\ Cardinality(Heard) \in Nat /\ Cardinality(Missed) \in Nat
         /\ Cardinality(((1 .. Notes) \ Pending)') = Cardinality(Heard) + 1
         /\ Cardinality(Missed') = Cardinality(Missed) + (IF v = "missed" THEN 1 ELSE 0)
<1>0. state \in [1 .. Notes -> NoteStates] /\ i \in 1 .. Notes /\ state[i] = "pending"
      /\ Notes \in Nat
  BY RhythmAssumption DEF RhythmTypes, Pending
<1>1. state' \in [1 .. Notes -> NoteStates]
  BY <1>0 DEF NoteStates
<1>2. /\ Pending' = Pending \ {i}
      /\ Missed' = IF v = "missed" THEN Missed \cup {i} ELSE Missed
  BY <1>0 DEF Pending, Missed
<1>3. IsFiniteSet(1 .. Notes)  BY <1>0, FS_Interval
<1>4. IsFiniteSet(Heard) /\ IsFiniteSet(Missed)
  BY <1>3, FS_Subset, Heard \subseteq 1 .. Notes, Missed \subseteq 1 .. Notes DEF Heard, Missed
<1>5. ((1 .. Notes) \ Pending)' = Heard \cup {i} /\ i \notin Heard
  BY <1>0, <1>2 DEF Heard
<1>6. i \notin Missed  BY <1>0 DEF Missed
<1>7. Cardinality(Heard) \in Nat /\ Cardinality(Missed) \in Nat
  BY <1>4, FS_CardinalityType
<1>8. Cardinality(Heard \cup {i}) = Cardinality(Heard) + 1
      /\ Cardinality(Missed \cup {i}) = Cardinality(Missed) + 1
  BY <1>4, <1>5, <1>6, FS_AddElement
<1>9. Cardinality(Missed') = Cardinality(Missed) + (IF v = "missed" THEN 1 ELSE 0)
  <2>1. CASE v = "missed"
    BY <2>1, <1>2, <1>8, Zenon
  <2>2. CASE v # "missed"
    <3>1. Missed' = Missed  BY <2>2, <1>2
    <3> QED  BY <2>2, <3>1, <1>7
  <2> QED  BY <2>1, <2>2
<1> QED  BY <1>1, <1>2, <1>5, <1>7, <1>8, <1>9, Zenon

\* A key that finds no note counts on both sides, or on neither.
LEMMA TallyKept ==
  ASSUME RhythmTypes, Tally, UNCHANGED state, judged' - misses' = judged - misses,
         judged' \in Nat, misses' \in Nat
  PROVE  Tally'
<1>1. /\ Notes \in Nat /\ judged \in Nat /\ misses \in Nat /\ judged' \in Nat /\ misses' \in Nat
      /\ judged' - misses' = judged - misses
  BY RhythmAssumption DEF RhythmTypes
<1>2. IsFiniteSet(1 .. Notes)  BY <1>1, FS_Interval
<1>3. Cardinality(Heard) \in Nat /\ Cardinality(Missed) \in Nat
  BY <1>2, FS_Subset, FS_CardinalityType, Heard \subseteq 1 .. Notes, Missed \subseteq 1 .. Notes
  DEF Heard, Missed
<1>4. Heard' = Heard /\ Missed' = Missed  BY DEF Heard, Missed, Pending
<1> HIDE DEF Heard, Missed
<1>5. Cardinality(Heard') = Cardinality(Heard) /\ Cardinality(Missed') = Cardinality(Missed)
  BY <1>4, Zenon
<1> DEFINE h == Cardinality(Heard)
           m == Cardinality(Missed)
<1>6. h \in Nat /\ m \in Nat /\ judged - h = misses - m  BY <1>3 DEF Tally
<1> HIDE DEF h, m
<1> DEFINE k == judged'
           o == misses'
<1>7. k \in Nat /\ o \in Nat /\ judged \in Nat /\ misses \in Nat /\ k - o = judged - misses
  BY <1>1
<1> HIDE DEF k, o
<1>8. k - h = o - m  BY <1>6, <1>7
<1> QED  BY <1>5, <1>8, Zenon DEF Tally, h, m, k, o

\* A miss is one judgement and one miss.
LEMMA BadOutcomeIs ==
  ASSUME RhythmTypes, NEW cost, BadOutcome(cost)
  PROVE  /\ judged' = judged + 1 /\ misses' = misses + 1 /\ judged' \in Nat /\ misses' \in Nat
         /\ misses' > 0 /\ rhythmLife' \in LifeState
         /\ rhythmLife.over => rhythmLife'.over
<1>1. /\ judged' = judged + 1 /\ misses' = misses + 1
      /\ rhythmLife' = rhythmLife \/ rhythmLife' = Ended(rhythmLife)
  BY DEF BadOutcome
<1>2. rhythmLife \in LifeState /\ judged \in Nat /\ misses \in Nat  BY DEF RhythmTypes
<1> QED  BY <1>1, <1>2, LifeIs

\* The song begins in the invariant.
LEMMA RhythmInitInv == RhythmInit => RhythmInv
<1> SUFFICES ASSUME RhythmInit PROVE RhythmInv
  OBVIOUS
<1> USE RhythmAssumption
<1>1. InTime(chart)  BY ChartsInTime DEF RhythmInit
<1>2. /\ state = [i \in 1 .. Notes |-> "pending"] /\ time = 0 /\ judged = 0 /\ misses = 0
      /\ cleared = FALSE /\ failMode \in BOOLEAN /\ rhythmLife = Started
  BY DEF RhythmInit, FreshSong
<1>3. RhythmTypes  BY <1>1, <1>2, StartedIs DEF RhythmTypes, NoteStates
<1>4. ((1 .. Notes) \ Pending) = {} /\ Missed = {}  BY <1>2 DEF Pending, Missed
<1>5. LastNote \in Nat /\ \A i \in Pending : chart[i].at \in Nat
  BY <1>1 DEF InTime, LastNote, Pending
<1>6. Tally
  <2>1. Cardinality(Heard) = 0 /\ Cardinality(Missed) = 0
    BY <1>4, FS_EmptySet DEF Heard
  <2> QED  BY <1>2, <2>1 DEF Tally
<1>7. NotesWait /\ SongGoesOn /\ EndIsClear
  BY <1>2, <1>5, StartedIs DEF NotesWait, SongGoesOn, EndIsClear
<1> QED  BY <1>3, <1>6, <1>7 DEF RhythmInv

\* The invariant holds what is stated of the song.
LEMMA RhythmInvIsSound == RhythmInv => EveryNoteOnce /\ NoSwallowedKey
BY NoKeySwallowed, Zenon
DEF RhythmInv, EveryNoteOnce, Tally, Heard, NotesWait, SongGoesOn, EndIsClear

\* A judged note is counted as a note.
LEMMA TallyCounts ==
  ASSUME RhythmTypes, Tally, NEW i \in Pending, NEW v \in {"hit", "missed"},
         state' = [state EXCEPT ![i] = v], judged' = judged + 1,
         NEW d \in {0, 1}, d = (IF v = "missed" THEN 1 ELSE 0), misses' = misses + d
  PROVE  Tally'
<1> DEFINE h == Cardinality(Heard)
           m == Cardinality(Missed)
<1>1. h \in Nat /\ m \in Nat /\ judged - h = misses - m  BY JudgedCounts DEF Tally
<1>2. Cardinality(Heard') = h + 1 /\ Cardinality(Missed') = m + d
  BY JudgedCounts, Zenon DEF Heard
<1>3. judged \in Nat /\ misses \in Nat /\ d \in Nat /\ misses' = misses + d  BY DEF RhythmTypes
<1> HIDE DEF h, m
<1>4. judged' - (h + 1) = misses' - (m + d)  BY <1>1, <1>3
<1> QED  BY <1>2, <1>4, Zenon DEF Tally

\* A note is missed, by a key or by a frame.
LEMMA RhythmMisses ==
  ASSUME RhythmTypes, Tally, EndIsClear, NEW i \in Pending,
         ~ rhythmLife.over, time' \in Nat,
         ~ rhythmLife'.over => \A j \in Pending \ {i} : time' <= chart[j].at + LateWindow,
         ~ rhythmLife'.over => time' <= LastNote + LateWindow + EndPause,
         UNCHANGED <<chart, failMode, cleared>>,
         state' = [state EXCEPT ![i] = "missed"], NEW cost, BadOutcome(cost)
  PROVE  RhythmInv'
<1>1. /\ judged' = judged + 1 /\ misses' = misses + 1 /\ judged' \in Nat /\ misses' \in Nat
      /\ misses' > 0 /\ rhythmLife' \in LifeState
  BY BadOutcomeIs
<1>2. RhythmTypes'  BY <1>1, JudgedCounts DEF RhythmTypes, InTime
<1>3. Tally'
  <2>1. 1 = (IF "missed" = "missed" THEN 1 ELSE 0)  OBVIOUS
  <2> QED  BY <1>1, <2>1, TallyCounts
<1>4. Pending' = Pending \ {i}  BY JudgedCounts
<1>5. (NotesWait /\ SongGoesOn)'
  BY <1>4 DEF NotesWait, SongGoesOn, LastNote
<1>6. EndIsClear'  BY <1>1 DEF EndIsClear
<1> QED  BY <1>2, <1>3, <1>5, <1>6 DEF RhythmInv

\* A key keeps the invariant.
LEMMA RhythmJudges ==
  ASSUME RhythmInv, NEW ln, Judge(ln) PROVE RhythmInv'
<1> DEFINE hit == {i \in Nearest(ln) : Distance(i) <= LateWindow}
<1>0. /\ RhythmTypes /\ Tally /\ NotesWait /\ SongGoesOn /\ EndIsClear
      /\ UNCHANGED <<chart, time, failMode, cleared>> /\ ~ rhythmLife.over
  BY LifeIs DEF RhythmInv, Judge, RhythmTypes
<1>1. CASE hit = {}
  <2>1. BadOutcome(MissCost) /\ state' = state  BY <1>1 DEF Judge
  <2>2. RhythmTypes'  BY <1>0, <2>1, BadOutcomeIs DEF RhythmTypes, InTime
  <2>3. Tally'
    <3>1. judged' - misses' = judged - misses /\ judged' \in Nat /\ misses' \in Nat
      BY <1>0, <2>1, BadOutcomeIs DEF RhythmTypes
    <3> QED  BY <1>0, <2>1, <3>1, TallyKept
  <2>4. (NotesWait /\ SongGoesOn /\ EndIsClear)'
    BY <1>0, <2>1, BadOutcomeIs DEF NotesWait, SongGoesOn, EndIsClear, Pending, LastNote
  <2> QED  BY <2>2, <2>3, <2>4 DEF RhythmInv
<1>2. CASE hit # {}
  <2>1. PICK i \in hit :
          \/ /\ Distance(i) <= GoodWindow
             /\ state' = [state EXCEPT ![i] = "hit"]
             /\ judged' = judged + 1 /\ misses' = misses /\ rhythmLife' = rhythmLife
          \/ state' = [state EXCEPT ![i] = "missed"] /\ BadOutcome(BadCost)
    BY <1>2, Zenon DEF Judge, GoodOutcome
  <2>2. i \in Pending  BY DEF Nearest
  <2>3. CASE state' = [state EXCEPT ![i] = "hit"] /\ judged' = judged + 1 /\ misses' = misses
             /\ rhythmLife' = rhythmLife
    <3>1. judged' \in Nat /\ misses' \in Nat  BY <1>0, <2>3 DEF RhythmTypes
    <3>2. RhythmTypes'
      BY <1>0, <2>2, <2>3, <3>1, JudgedCounts DEF RhythmTypes, InTime
    <3>3. Tally'
      <4>1. misses' = misses + 0 /\ 0 = (IF "hit" = "missed" THEN 1 ELSE 0)
        BY <1>0, <2>3 DEF RhythmTypes
      <4> QED  BY <1>0, <2>2, <2>3, <4>1, TallyCounts
    <3>4. Pending' \subseteq Pending  BY <1>0, <2>2, <2>3, JudgedCounts
    <3>5. (NotesWait /\ SongGoesOn /\ EndIsClear)'
      BY <1>0, <2>3, <3>4 DEF NotesWait, SongGoesOn, EndIsClear, LastNote
    <3> QED  BY <3>2, <3>3, <3>5 DEF RhythmInv
  <2>4. CASE state' = [state EXCEPT ![i] = "missed"] /\ BadOutcome(BadCost)
    <3>1. /\ time' \in Nat /\ \A j \in Pending \ {i} : time' <= chart[j].at + LateWindow
          /\ time' <= LastNote + LateWindow + EndPause
      BY <1>0, Zenon DEF RhythmTypes, NotesWait, SongGoesOn
    <3> QED  BY <1>0, <2>2, <2>4, <3>1, RhythmMisses
  <2> QED  BY <2>1, <2>3, <2>4
<1> QED  BY <1>1, <1>2

\* So does a frame, with all the notes it lets pass.
LEMMA RhythmFrames ==
  ASSUME RhythmInv, Frame PROVE RhythmInv'
<1> DEFINE late == {i \in Pending : time' > chart[i].at + LateWindow}
<1> USE RhythmAssumption
<1>0. /\ RhythmTypes /\ Tally /\ NotesWait /\ SongGoesOn /\ EndIsClear
      /\ UNCHANGED <<chart, failMode>> /\ ~ rhythmLife.over /\ ~ cleared
      /\ time' = time + 1 /\ time \in Nat /\ LastNote \in Nat
      /\ \A i \in Pending : /\ chart[i].at \in Nat /\ chart[i].at <= LastNote
                           /\ time <= chart[i].at + LateWindow
  <2>1. RhythmTypes /\ Tally /\ NotesWait /\ SongGoesOn /\ EndIsClear  BY DEF RhythmInv
  <2>2. UNCHANGED <<chart, failMode>> /\ ~ rhythmLife.over /\ time' = time + 1
    BY <2>1, LifeIs DEF Frame, RhythmTypes
  <2>3. LastNote \in Nat /\ \A i \in Pending : chart[i].at \in Nat /\ chart[i].at <= LastNote
    <3>1. InTime(chart) /\ Pending \subseteq 1 .. Notes  BY <2>1 DEF RhythmTypes, Pending
    <3>2. ASSUME NEW i \in 1 .. Notes PROVE chart[i].at \in Nat /\ chart[i].at <= LastNote
      <4>1. i = Notes \/ i < Notes  OBVIOUS
      <4> QED  BY <3>1, <4>1 DEF InTime, LastNote
    <3>3. Notes \in 1 .. Notes  OBVIOUS
    <3> QED  BY <3>1, <3>2, <3>3 DEF InTime, LastNote
  <2> QED  BY <2>1, <2>2, <2>3 DEF NotesWait, EndIsClear, RhythmTypes
<1>1. CASE late # {}
  <2>1. PICK i \in late : state' = [state EXCEPT ![i] = "missed"]
    BY <1>1 DEF Frame
  <2>2. BadOutcome(MissCost) /\ cleared' = cleared  BY <1>1 DEF Frame
  <2>3. \A j \in Pending \ {i} : time' <= chart[j].at + LateWindow
    <3> SUFFICES ASSUME NEW j \in Pending \ {i}, ~ (time' <= chart[j].at + LateWindow) PROVE FALSE
      OBVIOUS
    <3>1. chart[i].at = chart[j].at  BY <1>0
    <3>2. i \in 1 .. Notes /\ j \in 1 .. Notes /\ i # j  BY DEF Pending
    <3>3. i < j \/ j < i  BY <3>2
    <3> QED  BY <1>0, <3>1, <3>2, <3>3 DEF RhythmTypes, InTime
  <2>4. time' <= LastNote + LateWindow + EndPause  BY <1>0
  <2>5. i \in Pending /\ time' \in Nat  BY <1>0
  <2> QED  BY <1>0, <2>1, <2>2, <2>3, <2>4, <2>5, RhythmMisses
<1>2. CASE late = {} /\ time' > LastNote + LateWindow + EndPause /\ Pending = {}
  <2>1. /\ cleared' = TRUE /\ rhythmLife' = Ended(rhythmLife)
        /\ UNCHANGED <<state, judged, misses>>
    BY <1>2, Zenon DEF Frame, tallies
  <2>2. rhythmLife' \in LifeState /\ rhythmLife'.over  BY <1>0, <2>1, LifeIs DEF RhythmTypes
  <2>3. RhythmTypes'  BY <1>0, <2>1, <2>2 DEF RhythmTypes, InTime
  <2>4. Tally'  BY <1>0, <2>1 DEF Tally, Heard, Pending, Missed
  <2>5. (NotesWait /\ SongGoesOn /\ EndIsClear)'
    BY <1>2, <2>1, <2>2 DEF NotesWait, SongGoesOn, EndIsClear, Pending
  <2> QED  BY <2>3, <2>4, <2>5 DEF RhythmInv
<1>3. CASE late = {} /\ ~ (time' > LastNote + LateWindow + EndPause /\ Pending = {})
  <2>1. UNCHANGED <<state, judged, misses, cleared, rhythmLife>>
    BY <1>3, Zenon DEF Frame, tallies
  <2>2. RhythmTypes'  BY <1>0, <2>1 DEF RhythmTypes, InTime
  <2>3. Tally'  BY <1>0, <2>1 DEF Tally, Heard, Pending, Missed
  <2>4. Pending' = Pending /\ LastNote' = LastNote /\ chart' = chart
    BY <1>0, <2>1 DEF Pending, LastNote
  <2>5. \A i \in Pending : time' <= chart[i].at + LateWindow
    BY <1>0, <1>3
  <2>6. time' <= LastNote + LateWindow + EndPause
    <3>1. CASE Pending = {}
      BY <1>0, <1>3, <3>1
    <3>2. CASE Pending # {}
      <4>1. PICK i \in Pending : TRUE  BY <3>2
      <4> QED  BY <1>0, <2>5, <4>1
    <3> QED  BY <3>1, <3>2
  <2>7. (NotesWait /\ SongGoesOn /\ EndIsClear)'
    BY <1>0, <2>1, <2>4, <2>5, <2>6 DEF NotesWait, SongGoesOn, EndIsClear
  <2> QED  BY <2>2, <2>3, <2>7 DEF RhythmInv
<1> QED  BY <1>1, <1>2, <1>3

\* So does what changes neither notes nor counts.
LEMMA RhythmKeeps ==
  ASSUME RhythmInv, UNCHANGED <<chart, state, time, judged, misses, cleared>>,
         failMode' \in BOOLEAN, rhythmLife' \in LifeState, rhythmLife'.over = rhythmLife.over
  PROVE  RhythmInv'
<1>1. RhythmTypes'  BY DEF RhythmInv, RhythmTypes, InTime
<1>2. Tally'  BY DEF RhythmInv, Tally, Heard, Pending, Missed
<1>3. (NotesWait /\ SongGoesOn /\ EndIsClear)'
  BY DEF RhythmInv, NotesWait, SongGoesOn, EndIsClear, Pending, LastNote
<1> QED  BY <1>1, <1>2, <1>3 DEF RhythmInv

\* A restart begins the song anew.
LEMMA RhythmRestarts ==
  ASSUME RhythmInv, RhythmRestart PROVE RhythmInv'
<1> USE RhythmAssumption
<1>1. InTime(chart) /\ chart' = chart /\ failMode' \in BOOLEAN
  BY DEF RhythmInv, RhythmTypes, RhythmRestart
<1>2. /\ state' = [i \in 1 .. Notes |-> "pending"] /\ time' = 0 /\ judged' = 0 /\ misses' = 0
      /\ cleared' = FALSE
  BY DEF RhythmRestart, FreshSong
<1>3. rhythmLife' \in LifeState /\ ~ rhythmLife'.over
  BY LifeIs DEF RhythmRestart, RhythmInv, RhythmTypes
<1>4. RhythmTypes'  BY <1>1, <1>2, <1>3 DEF RhythmTypes, NoteStates, InTime
<1>5. Heard' = {} /\ Missed' = {}  BY <1>2 DEF Pending, Missed, Heard
<1>6. LastNote' \in Nat /\ \A i \in Pending' : chart'[i].at \in Nat
  BY <1>1 DEF InTime, LastNote, Pending
<1>7. Tally'
  <2>1. Cardinality(Heard') = 0 /\ Cardinality(Missed') = 0
    BY <1>5, FS_EmptySet
  <2> QED  BY <1>2, <2>1 DEF Tally
<1>8. (NotesWait /\ SongGoesOn /\ EndIsClear)'
  <2>1. 0 <= LastNote' + LateWindow + EndPause
    <3>1. LastNote' \in Nat /\ LateWindow \in Nat /\ EndPause \in Nat  BY <1>6
    <3> QED  BY <3>1, \A a, b, c \in Nat : 0 <= a + b + c
  <2>2. \A i \in Pending' : 0 <= chart'[i].at + LateWindow  BY <1>6
  <2> QED  BY <1>2, <1>3, <2>1, <2>2 DEF NotesWait, SongGoesOn, EndIsClear
<1> QED  BY <1>4, <1>7, <1>8 DEF RhythmInv

\* Every operation keeps the invariant.
LEMMA RhythmStepInv == RhythmInv /\ RhythmNext => RhythmInv'
<1> SUFFICES ASSUME RhythmInv, RhythmNext PROVE RhythmInv'
  OBVIOUS
<1>0. rhythmLife \in LifeState /\ failMode \in BOOLEAN  BY DEF RhythmInv, RhythmTypes
<1>1. ASSUME NEW ln \in 1 .. NoteLanes, Judge(ln) PROVE RhythmInv'
  BY <1>1, RhythmJudges
<1>2. CASE Frame
  BY <1>2, RhythmFrames
<1>3. CASE SetRhythmFailMode
  BY <1>0, <1>3, RhythmKeeps DEF SetRhythmFailMode, tallies
<1>4. CASE RhythmRestart
  BY <1>4, RhythmRestarts
<1>5. CASE RhythmLifeKey
  <2>1. rhythmLife' \in LifeState /\ rhythmLife'.over = rhythmLife.over
    BY <1>0, <1>5, LifeIs DEF RhythmLifeKey
  <2> QED  BY <1>0, <1>5, <2>1, RhythmKeeps DEF RhythmLifeKey, tallies
<1> QED
  BY <1>1, <1>2, <1>3, <1>4, <1>5 DEF RhythmNext

\* It holds while the game waits.
LEMMA RhythmStays == RhythmInv /\ UNCHANGED rhythmVars => RhythmInv'
<1> SUFFICES ASSUME RhythmInv, UNCHANGED rhythmVars PROVE RhythmInv'
  OBVIOUS
<1>0. rhythmLife \in LifeState /\ failMode \in BOOLEAN  BY DEF RhythmInv, RhythmTypes
<1> QED  BY <1>0, RhythmKeeps DEF rhythmVars, tallies

\* Every note of every song is judged once, and a key within its window never finds none
\* (RhythmGame of Arcade.cpp).
THEOREM NotesJudgedOnce == RhythmSpec => [](EveryNoteOnce /\ NoSwallowedKey)
<1> QED  BY RhythmInitInv, RhythmStepInv, RhythmStays, RhythmInvIsSound, PTL DEF RhythmSpec

(***************************************************************************)
(* Fishing.                                                                *)
(***************************************************************************)
\* The invariant of the fish.
FishInv ==
  /\ FishOnHook
  /\ fishVn \in BOOLEAN /\ fishIndex \in Nat /\ strain \in Strains
  /\ WellTyped(fishTyped) /\ fishLife \in LifeState

\* It holds what is stated of the game.
LEMMA FishInvIsSound == FishInv => FishOnHook
BY DEF FishInv

\* A new fish is on the hook.
LEMMA HookedIs ==
  ASSUME HookNewFish, fishVn' \in BOOLEAN, fishLife' \in LifeState PROVE FishInv'
<1>1. /\ fishTyped' = Nothing /\ fishIndex' = 0 /\ pull' = PullStart /\ tension' = TensionStart
      /\ strain' \in Strains
  BY DEF HookNewFish
<1>2. WellTyped(fishTyped') /\ MatchLength(fishTyped') = 0  BY <1>1, NothingIs
<1>3. FishOnHook'
  BY <1>1, <1>2, TargetIs, FishAssumption DEF FishOnHook
<1> QED  BY <1>1, <1>2, <1>3, FishAssumption DEF FishInv

\* The game begins in the invariant.
LEMMA FishInitInv == FishInit => FishInv
<1> SUFFICES ASSUME FishInit PROVE FishInv
  OBVIOUS
<1>1. /\ fishTyped = Nothing /\ fishIndex = 0 /\ pull = PullStart /\ tension = TensionStart
      /\ strain \in Strains /\ fishVn \in BOOLEAN /\ fishLife \in LifeState
  BY StartedIs DEF FishInit
<1>2. WellTyped(fishTyped) /\ MatchLength(fishTyped) = 0  BY <1>1, NothingIs
<1>3. FishOnHook
  BY <1>1, <1>2, TargetIs, FishAssumption DEF FishOnHook
<1> QED  BY <1>1, <1>2, <1>3, FishAssumption DEF FishInv

\* The state with the text t, of which i symbols match
LEMMA FishReels ==
  ASSUME FishInv, NEW t, WellTyped(t), NEW i \in Nat, i > fishIndex, i <= Len(Target),
         fishVn => i = MatchLength(t), Reel(t, i), UNCHANGED <<fishVn, fishLife>>
  PROVE  FishInv'
<1>0. /\ fishVn' \in BOOLEAN /\ fishLife' \in LifeState /\ fishVn' = fishVn
      /\ fishIndex \in Nat /\ strain \in Nat /\ strain \in Strains
      /\ pull \in Nat /\ tension \in Nat
  BY FishAssumption DEF FishInv, FishOnHook
<1>1. CASE HookNewFish
  BY <1>0, <1>1, HookedIs
<1>2. CASE ~ HookNewFish
  <2> DEFINE p == pull + (i - fishIndex) * PullGain
             s == tension + (i - fishIndex) * strain
  <2>1. /\ ~ (s >= TensionFull \/ p >= PullFull \/ i = Len(Target))
        /\ pull' = p /\ tension' = s /\ fishTyped' = t /\ fishIndex' = i /\ strain' = strain
    BY <1>2, Zenon DEF Reel
  <2>2. i - fishIndex \in Nat  BY <1>0
  <2>3. (i - fishIndex) * PullGain \in Nat /\ (i - fishIndex) * strain \in Nat
    <3>1. \A a, b \in Nat : a * b \in Nat  OBVIOUS
    <3> QED  BY <1>0, <2>2, <3>1, FishAssumption, Zenon
  <2>4. p \in Nat /\ s \in Nat
    <3>1. \A a, b \in Nat : a + b \in Nat  OBVIOUS
    <3> QED  BY <1>0, <2>3, <3>1, Zenon
  <2> HIDE DEF p, s
  <2>5. p \in 0 .. PullFull - 1 /\ s \in 0 .. TensionFull - 1 /\ i < Len(Target)
    BY <2>1, <2>4, FishAssumption, TargetIs
  <2> QED  BY <1>0, <2>1, <2>5 DEF FishInv, FishOnHook
<1> QED  BY <1>1, <1>2

\* A word that does not match lets the fish slip.
LEMMA FishSlips ==
  ASSUME FishInv, NEW t, WellTyped(t), NEW i \in Nat, i < Len(Target), NEW bad \in BOOLEAN,
         fishVn => i = MatchLength(t), Slip(t, i, bad), UNCHANGED <<fishVn, fishLife>>
  PROVE  FishInv'
<1>0. pull \in 0 .. PullFull - 1 /\ PullFull \in Nat /\ PullLoss \in Nat
  BY FishAssumption DEF FishInv, FishOnHook
<1>1. pull' \in 0 .. PullFull - 1
  BY <1>0 DEF Slip
<1> QED  BY <1>1 DEF FishInv, FishOnHook, Slip

\* Every operation keeps the invariant.
LEMMA FishStepInv == FishInv /\ FishNext => FishInv'
<1> SUFFICES ASSUME FishInv, FishNext PROVE FishInv'
  OBVIOUS
<1>0. /\ fishLife \in LifeState /\ fishVn \in BOOLEAN /\ fishIndex \in Nat
      /\ WellTyped(fishTyped) /\ fishTyped.text \in Seq(Symbols)
      /\ fishIndex < Len(Target) /\ (fishVn => fishIndex = MatchLength(fishTyped))
      /\ Len(Target) \in Nat
  BY TargetIs DEF FishInv, FishOnHook, WellTyped
<1>1. ASSUME NEW s \in Symbols, FishEnglish(s) PROVE FishInv'
  <2>1. ~ fishVn /\ UNCHANGED <<fishVn, fishLife>>  BY <1>1, Zenon DEF FishEnglish
  <2>2. CASE Reel(fishTyped, fishIndex + 1)
    <3>1. fishIndex + 1 \in Nat /\ fishIndex + 1 > fishIndex /\ fishIndex + 1 <= Len(Target)
      BY <1>0
    <3> QED  BY <1>0, <2>1, <2>2, <3>1, FishReels
  <2>3. CASE Slip(fishTyped, fishIndex, TRUE)
    BY <1>0, <2>1, <2>3, FishSlips
  <2> QED  BY <1>1, <2>2, <2>3, Zenon DEF FishEnglish
<1>2. CASE FishBackspace
  <2> DEFINE t == FeedBackspace(fishTyped)
  <2>1. WellTyped(t) /\ MatchLength(t) <= MatchLength(fishTyped)  BY <1>0, BackspaceIs
  <2>2. /\ fishVn /\ UNCHANGED <<fishVn, fishLife>> /\ Slip(t, MatchLength(t), FALSE)
    BY <1>2, Zenon DEF FishBackspace
  <2> HIDE DEF t
  <2>3. MatchLength(t) \in Nat  BY <2>1, MatchIs DEF WellTyped
  <2>4. MatchLength(t) < Len(Target)  BY <1>0, <2>1, <2>2, <2>3
  <2> QED  BY <2>1, <2>2, <2>3, <2>4, FishSlips
<1>3. ASSUME NEW t, WellTyped(t), fishVn, UNCHANGED <<fishVn, fishLife>>, NEW bad \in BOOLEAN,
             LET i == MatchLength(t) IN IF i > fishIndex THEN Reel(t, i) ELSE Slip(t, i, bad)
      PROVE  FishInv'
  <2> DEFINE i == MatchLength(t)
  <2>1. i \in Nat /\ i <= Len(Target)  BY <1>3, MatchIs DEF WellTyped, Agree
  <2>2. IF i > fishIndex THEN Reel(t, i) ELSE Slip(t, i, bad)  BY <1>3, Zenon
  <2>3. i = MatchLength(t)  OBVIOUS
  <2> HIDE DEF i
  <2>4. CASE i > fishIndex
    BY <1>3, <2>1, <2>2, <2>3, <2>4, FishReels
  <2>5. CASE ~ (i > fishIndex)
    <3>1. i < Len(Target)  BY <1>0, <2>1, <2>5
    <3> QED  BY <1>3, <2>1, <2>2, <2>3, <2>5, <3>1, FishSlips
  <2> QED  BY <2>4, <2>5
<1>4. CASE FishLetter
  <2>1. PICK t \in FeedLetter(fishTyped) :
          LET i == MatchLength(t) IN IF i > fishIndex THEN Reel(t, i) ELSE Slip(t, i, FALSE)
    BY <1>4, Zenon DEF FishLetter
  <2>2. fishVn /\ UNCHANGED <<fishVn, fishLife>>  BY <1>4, Zenon DEF FishLetter
  <2>3. WellTyped(t)  BY <1>0, LetterIs
  <2> QED  BY <1>3, <2>1, <2>2, <2>3, Zenon
<1>5. CASE FishSpace
  <2>1. PICK t \in FeedSpace(fishTyped) :
          LET i == MatchLength(t) IN
            IF i > fishIndex THEN Reel(t, i) ELSE Slip(t, i, i < Len(t.text))
    BY <1>5, Zenon DEF FishSpace
  <2>2. fishVn /\ UNCHANGED <<fishVn, fishLife>>  BY <1>5, Zenon DEF FishSpace
  <2>3. WellTyped(t)  BY <1>0, SpaceIs
  <2>4. (MatchLength(t) < Len(t.text)) \in BOOLEAN  OBVIOUS
  <2> DEFINE bad == MatchLength(t) < Len(t.text)
  <2>5. bad \in BOOLEAN  BY <2>4
  <2>6. LET i == MatchLength(t) IN IF i > fishIndex THEN Reel(t, i) ELSE Slip(t, i, bad)
    BY <2>1, Zenon
  <2> HIDE DEF bad
  <2> QED  BY <1>3, <2>2, <2>3, <2>5, <2>6, Zenon
<1>6. CASE Update
  <2>1. UNCHANGED <<fishVn, fishLife>>  BY <1>6, Zenon DEF Update
  <2>2. CASE HookNewFish
    BY <1>0, <2>1, <2>2, HookedIs
  <2>3. CASE ~ HookNewFish
    <3>1. /\ pull > 1 /\ (pull' = pull - 1 \/ (pull < AssistLimit /\ pull' = pull + 1))
          /\ tension' = (IF tension > 0 THEN tension - 1 ELSE 0)
          /\ UNCHANGED <<fishTyped, fishIndex, strain>>
      BY <1>6, <2>3, Zenon DEF Update
    <3>2. /\ pull \in 0 .. PullFull - 1 /\ tension \in 0 .. TensionFull - 1
          /\ PullFull \in Nat /\ TensionFull \in Nat /\ AssistLimit \in 0 .. PullFull - 1
      BY FishAssumption DEF FishInv, FishOnHook
    <3>3. pull' \in 0 .. PullFull - 1  BY <3>1, <3>2
    <3>4. tension' \in 0 .. TensionFull - 1  BY <3>1, <3>2
    <3> QED  BY <2>1, <3>1, <3>3, <3>4 DEF FishInv, FishOnHook
  <2> QED  BY <2>2, <2>3
<1>7. CASE FishRestart
  BY <1>0, <1>7, LifeIs, HookedIs DEF FishRestart
<1>8. CASE FishLifeKey
  <2>1. fishLife' \in LifeState  BY <1>0, <1>8, LifeIs DEF FishLifeKey
  <2> QED  BY <1>8, <2>1 DEF FishLifeKey, FishInv, FishOnHook, fish
<1> QED
  BY <1>1, <1>2, <1>4, <1>5, <1>6, <1>7, <1>8, Zenon DEF FishNext

\* It holds while the game waits.
LEMMA FishStays == FishInv /\ UNCHANGED fishVars => FishInv'
BY DEF FishInv, FishOnHook, fishVars, fish

\* The fish on the hook has come exactly as far as the text typed for it matches
\* (FishingGame of Arcade.cpp).
THEOREM FishStaysOnHook == FishSpec => []FishOnHook
<1> QED  BY FishInitInv, FishStepInv, FishStays, FishInvIsSound, PTL DEF FishSpec

(***************************************************************************)
(* The race of typists.                                                    *)
(***************************************************************************)
\* The blanks among the first k symbols of the passage
BlanksIn(k) == {i \in 1 .. k : Target[i] = Blank}

\* Blanks are counted, more of them in a longer prefix.
LEMMA BlanksAre ==
  ASSUME NEW j \in Nat
  PROVE  /\ IsFiniteSet(BlanksIn(j)) /\ Cardinality(BlanksIn(j)) \in Nat
         /\ \A S : S \subseteq BlanksIn(j) => Cardinality(S) <= Cardinality(BlanksIn(j))
         /\ \A k \in 0 .. j : Cardinality(BlanksIn(k)) <= Cardinality(BlanksIn(j))
<1>1. IsFiniteSet(1 .. j)  BY FS_Interval
<1>2. IsFiniteSet(BlanksIn(j))  BY <1>1, FS_Subset, BlanksIn(j) \subseteq 1 .. j DEF BlanksIn
<1>3. Cardinality(BlanksIn(j)) \in Nat  BY <1>2, FS_CardinalityType
<1>4. \A S : S \subseteq BlanksIn(j) => Cardinality(S) <= Cardinality(BlanksIn(j))
  BY <1>2, FS_Subset
<1>5. \A k \in 0 .. j : BlanksIn(k) \subseteq BlanksIn(j)  BY DEF BlanksIn
<1> QED  BY <1>2, <1>3, <1>4, <1>5

\* A blank that matches in a text lies where an earlier text agrees with it.
LEMMA EarlierBlank ==
  ASSUME NEW c, WellTyped(c), NEW t, WellTyped(t),
         NEW i \in BlanksIn(MatchLength(t)), i <= c.from,
         \A j \in 1 .. c.from : t.text[j] = c.text[j]
  PROVE  i \in BlanksIn(MatchLength(c))
<1>1. /\ c.text \in Seq(Symbols) /\ t.text \in Seq(Symbols) /\ c.from \in 0 .. Len(c.text)
      /\ Len(c.text) \in Nat
  BY DEF WellTyped
<1>2. MatchLength(t) \in Nat /\ Agree(t.text, MatchLength(t))  BY <1>1, MatchIs
<1>3. i \in 1 .. MatchLength(t) /\ Target[i] = Blank  BY DEF BlanksIn
<1>4. Agree(c.text, i)
  <2>1. i <= Len(c.text) /\ i <= Len(Target) /\ i \in Nat
    BY <1>1, <1>2, <1>3, TargetIs DEF Agree
  <2>2. \A j \in 1 .. i : c.text[j] = Target[j]
    BY <1>1, <1>2, <1>3 DEF Agree
  <2> QED  BY <2>1, <2>2 DEF Agree
<1>5. i \in Nat /\ i <= MatchLength(c) /\ MatchLength(c) \in Nat
  <2>1. i \in Nat  BY <1>2, <1>3
  <2> QED  BY <1>1, <1>4, <2>1, MatchIs
<1> QED  BY <1>3, <1>5 DEF BlanksIn

\* A blank that matches is a blank of the text.
LEMMA BlankMatches ==
  ASSUME NEW t, WellTyped(t), NEW i \in BlanksIn(MatchLength(t))
  PROVE  /\ i \in 1 .. MatchLength(t) /\ MatchLength(t) \in Nat /\ MatchLength(t) <= Len(t.text)
         /\ Len(t.text) \in Nat /\ t.text[i] = Blank /\ t.text[i] \notin Letters
<1>1. t.text \in Seq(Symbols)  BY DEF WellTyped
<1>2. /\ MatchLength(t) \in Nat /\ Agree(t.text, MatchLength(t)) /\ Len(t.text) \in Nat
  BY <1>1, MatchIs, MatchRange
<1>3. i \in 1 .. MatchLength(t) /\ Target[i] = Blank  BY DEF BlanksIn
<1> QED  BY <1>2, <1>3, TextAssumption DEF Agree

\* A letter completes no word.
LEMMA LetterBlanks ==
  ASSUME NEW c, WellTyped(c), NEW t \in FeedLetter(c)
  PROVE  BlanksIn(MatchLength(t)) \subseteq BlanksIn(MatchLength(c))
<1> SUFFICES ASSUME NEW i \in BlanksIn(MatchLength(t)) PROVE i \in BlanksIn(MatchLength(c))
  OBVIOUS
<1>1. /\ WellTyped(t) /\ t.from = c.from
      /\ \A j \in 1 .. c.from : t.text[j] = c.text[j]
  BY LetterIs
<1>2. /\ i \in 1 .. Len(t.text) /\ t.text[i] \notin Letters
  BY <1>1, BlankMatches
<1>3. i <= c.from
  <2>1. c.from \in Nat  BY DEF WellTyped
  <2>2. \A j \in c.from + 1 .. Len(t.text) : t.text[j] \in Letters  BY <1>1 DEF WellTyped
  <2> QED  BY <1>2, <2>1, <2>2
<1> QED  BY <1>1, <1>3, EarlierBlank

\* A space completes at most the word before it.
LEMMA SpaceBlanks ==
  ASSUME NEW c, WellTyped(c), NEW t \in FeedSpace(c)
  PROVE  /\ BlanksIn(MatchLength(t)) \subseteq BlanksIn(MatchLength(c)) \cup {Len(t.text)}
         /\ MatchLength(t) < Len(t.text) =>
              BlanksIn(MatchLength(t)) \subseteq BlanksIn(MatchLength(c))
<1>1. /\ WellTyped(t) /\ Len(t.text) \in Nat
      /\ \A j \in 1 .. c.from : t.text[j] = c.text[j]
      /\ \A j \in c.from + 1 .. Len(t.text) - 1 : t.text[j] \in Letters
  BY SpaceIs
<1>2. ASSUME NEW i \in BlanksIn(MatchLength(t)), i # Len(t.text)
      PROVE  i \in BlanksIn(MatchLength(c))
  <2>1. i \in 1 .. Len(t.text) /\ t.text[i] \notin Letters
    BY <1>1, BlankMatches
  <2>2. i <= c.from
    <3>1. c.from \in Nat  BY DEF WellTyped
    <3> QED  BY <1>1, <1>2, <2>1, <3>1
  <2> QED  BY <1>1, <2>2, EarlierBlank
<1>3. MatchLength(t) < Len(t.text) => \A i \in BlanksIn(MatchLength(t)) : i # Len(t.text)
  <2> SUFFICES ASSUME MatchLength(t) < Len(t.text), NEW i \in BlanksIn(MatchLength(t))
               PROVE  i # Len(t.text)
    OBVIOUS
  <2>1. i \in 1 .. MatchLength(t) /\ MatchLength(t) \in Nat  BY <1>1, BlankMatches
  <2> QED  BY <1>1, <2>1
<1> QED  BY <1>2, <1>3

\* At least n words were right.
Right(n) == words - wrongWords >= n

\* The invariant of the race: the words that match were judged right.
RaceInv ==
  /\ raceVn \in BOOLEAN /\ raceLife \in LifeState /\ WellTyped(raceTyped)
  /\ raceIndex \in 0 .. Len(Target)
  /\ keys \in Nat /\ correct \in Nat /\ wrong \in Nat /\ words \in Nat /\ wrongWords \in Nat
  /\ raceLife.over <=> raceIndex = Len(Target)
  /\ wrongWords <= words
  /\ ~ raceVn => correct + wrong = keys /\ raceIndex <= correct
  /\ raceVn => raceIndex = MatchLength(raceTyped)
  /\ raceVn => Right(Cardinality(BlanksIn(raceIndex)))
  /\ raceVn /\ raceLife.over => Right(WordsOf(Target))

\* A passage has one word more than blanks.
LEMMA WordsAre == WordsOf(Target) = 1 + Cardinality(BlanksIn(Len(Target)))
<1>1. DOMAIN Target = 1 .. Len(Target)  BY TargetIs
<1> QED  BY <1>1 DEF WordsOf, BlanksIn

\* The invariant holds what is stated of the race.
LEMMA RaceInvIsSound == RaceInv => FinishIsEarned
<1> SUFFICES ASSUME RaceInv PROVE FinishIsEarned
  OBVIOUS
<1>1. /\ raceLife.over <=> raceIndex = Len(Target)
      /\ wrongWords <= words
      /\ ~ raceVn => correct + wrong = keys
  BY DEF RaceInv
<1>2. raceLife.over /\ raceVn => words - wrongWords >= WordsOf(Target)
  BY Zenon DEF RaceInv, Right
<1>3. raceLife.over /\ ~ raceVn => correct >= Len(Target)
  BY TargetIs DEF RaceInv
<1> QED  BY <1>1, <1>2, <1>3, Zenon DEF FinishIsEarned

\* The race begins in it.
LEMMA RaceInitInv == RaceInit => RaceInv
<1> SUFFICES ASSUME RaceInit PROVE RaceInv
  OBVIOUS
<1>1. /\ raceVn \in BOOLEAN /\ raceTyped = Nothing /\ raceIndex = 0 /\ keys = 0 /\ correct = 0
      /\ wrong = 0 /\ words = 0 /\ wrongWords = 0 /\ raceLife = Started
  BY DEF RaceInit, FreshRace
<1>2. /\ WellTyped(raceTyped) /\ MatchLength(raceTyped) = 0 /\ raceLife \in LifeState
      /\ ~ raceLife.over
  BY <1>1, NothingIs, StartedIs
<1>3. Right(Cardinality(BlanksIn(0)))
  <2>1. BlanksIn(0) = {}  BY DEF BlanksIn
  <2>2. Cardinality(BlanksIn(0)) = 0  BY <2>1, FS_EmptySet
  <2> QED  BY <1>1, <2>2 DEF Right
<1>4. raceIndex \in 0 .. Len(Target) /\ raceIndex # Len(Target)  BY <1>1, TargetIs
<1> QED  BY <1>1, <1>2, <1>3, <1>4 DEF RaceInv

\* A restart begins the race anew.
LEMMA RaceRestarts == ASSUME RaceInv, RaceRestart PROVE RaceInv'
<1>1. /\ raceVn' = raceVn /\ raceTyped' = Nothing /\ raceIndex' = 0 /\ keys' = 0 /\ correct' = 0
      /\ wrong' = 0 /\ words' = 0 /\ wrongWords' = 0 /\ raceLife' = Restarted(raceLife)
  BY DEF RaceRestart, FreshRace
<1>2. /\ WellTyped(raceTyped') /\ MatchLength(raceTyped') = 0 /\ raceLife' \in LifeState
      /\ ~ raceLife'.over
  BY <1>1, NothingIs, LifeIs DEF RaceInv
<1>3. Right(Cardinality(BlanksIn(0)))'
  <2>1. BlanksIn(0) = {}  BY DEF BlanksIn
  <2>2. Cardinality(BlanksIn(0)) = 0  BY <2>1, FS_EmptySet
  <2> QED  BY <1>1, <2>2 DEF Right
<1>4. raceIndex' \in 0 .. Len(Target) /\ raceIndex' # Len(Target)  BY <1>1, TargetIs
<1> QED  BY <1>1, <1>2, <1>3, <1>4 DEF RaceInv

\* A symbol typed without the composer keeps the invariant.
LEMMA RaceTypesEnglish ==
  ASSUME RaceInv, NEW s \in Symbols, RaceEnglish(s) PROVE RaceInv'
<1>0. /\ ~ raceLife.over /\ ~ raceVn /\ raceVn' = raceVn /\ raceLife \in LifeState
      /\ UNCHANGED <<raceTyped, words, wrongWords>> /\ keys' = keys + 1 /\ Finish
      /\ raceIndex \in 0 .. Len(Target) /\ raceIndex # Len(Target) /\ Len(Target) \in Nat
      /\ keys \in Nat /\ correct \in Nat /\ wrong \in Nat
      /\ correct + wrong = keys /\ raceIndex <= correct
  BY LifeIs, TargetIs DEF RaceEnglish, RaceOpen, RaceInv
<1>1. \/ raceIndex' = raceIndex + 1 /\ correct' = correct + 1 /\ wrong' = wrong
      \/ wrong' = wrong + 1 /\ raceIndex' = raceIndex /\ correct' = correct
  BY Zenon DEF RaceEnglish
<1>2. /\ raceIndex' \in 0 .. Len(Target) /\ correct' \in Nat /\ wrong' \in Nat /\ keys' \in Nat
      /\ correct' + wrong' = keys' /\ raceIndex' <= correct'
  BY <1>0, <1>1
<1>3. raceLife' \in LifeState /\ (raceLife'.over <=> raceIndex' = Len(Target))
  BY <1>0, LifeIs DEF Finish
<1> QED  BY <1>0, <1>2, <1>3 DEF RaceInv

\* So does a backspace.
LEMMA RaceTakesBack == ASSUME RaceInv, RaceBackspace PROVE RaceInv'
<1>0. /\ ~ raceLife.over /\ raceVn' = raceVn /\ raceVn \in BOOLEAN
      /\ UNCHANGED <<keys, correct, wrong, words, wrongWords, raceLife>>
      /\ raceIndex \in 0 .. Len(Target) /\ raceIndex # Len(Target) /\ Len(Target) \in Nat
      /\ words \in Nat /\ wrongWords \in Nat /\ correct \in Nat
      /\ WellTyped(raceTyped)
  BY LifeIs, TargetIs DEF RaceBackspace, RaceInv, raceCounts
<1>1. CASE raceVn
  <2>1. raceTyped' = FeedBackspace(raceTyped) /\ raceIndex' = MatchLength(raceTyped')
    BY <1>1, Zenon DEF RaceBackspace
  <2>2. WellTyped(raceTyped') /\ raceIndex' <= raceIndex
    BY <1>0, <1>1, <2>1, BackspaceIs DEF RaceInv
  <2>3. raceIndex' \in Nat  BY <2>1, <2>2, MatchIs DEF WellTyped
  <2>4. raceIndex' \in 0 .. raceIndex /\ raceIndex' \in 0 .. Len(Target) /\ raceIndex' # Len(Target)
    BY <1>0, <2>2, <2>3
  <2>5. Right(Cardinality(BlanksIn(raceIndex)))'
    <3>1. Cardinality(BlanksIn(raceIndex')) <= Cardinality(BlanksIn(raceIndex))
          /\ Cardinality(BlanksIn(raceIndex')) \in Nat /\ Cardinality(BlanksIn(raceIndex)) \in Nat
      BY <1>0, <2>3, <2>4, BlanksAre
    <3>2. words - wrongWords >= Cardinality(BlanksIn(raceIndex))
      BY <1>1, Zenon DEF RaceInv, Right
    <3>3. words' - wrongWords' >= Cardinality(BlanksIn(raceIndex'))
      BY <1>0, <3>1, <3>2
    <3> QED  BY <3>3 DEF Right, BlanksIn
  <2> QED  BY <1>0, <1>1, <2>1, <2>2, <2>4, <2>5 DEF RaceInv
<1>2. CASE ~ raceVn
  <2>1. raceIndex' = (IF raceIndex > 0 THEN raceIndex - 1 ELSE 0) /\ raceTyped' = raceTyped
    BY <1>2, Zenon DEF RaceBackspace
  <2>2. /\ raceIndex' \in 0 .. Len(Target) /\ raceIndex' # Len(Target) /\ raceIndex' <= raceIndex
        /\ raceIndex' \in Nat
    BY <1>0, <2>1
  <2> QED  BY <1>0, <1>2, <2>1, <2>2 DEF RaceInv
<1> QED  BY <1>1, <1>2

\* A key of the Vietnamese game: the right words keep up with the blanks matched.
LEMMA RaceComposes ==
  ASSUME RaceInv, NEW texts, Compose(texts), WellTyped(raceTyped'),
         words' \in Nat, wrongWords' \in Nat, wrongWords' <= words',
         words' - wrongWords' >= Cardinality(BlanksIn(raceIndex')) + LastWord
  PROVE  RaceInv'
<1>0. /\ ~ raceLife.over /\ raceVn /\ raceVn' = raceVn /\ raceLife \in LifeState
      /\ raceIndex' = MatchLength(raceTyped') /\ keys' = keys + 1 /\ wrong' = wrong /\ Finish
      /\ correct' = correct + (IF raceIndex' > raceIndex THEN raceIndex' - raceIndex ELSE 0)
      /\ raceIndex \in 0 .. Len(Target) /\ Len(Target) \in Nat
      /\ keys \in Nat /\ correct \in Nat /\ wrong \in Nat
  BY LifeIs, TargetIs DEF Compose, RaceOpen, RaceInv
<1>1. raceIndex' \in 0 .. Len(Target)  BY <1>0, MatchRange DEF WellTyped
<1>2. correct' \in Nat /\ keys' \in Nat  BY <1>0, <1>1
<1>3. raceLife' \in LifeState /\ (raceLife'.over <=> raceIndex' = Len(Target))
  BY <1>0, LifeIs DEF Finish
<1>4. Cardinality(BlanksIn(raceIndex')) \in Nat  BY <1>1, BlanksAre
<1>5. LastWord \in {0, 1} /\ (raceIndex' = Len(Target) => LastWord = 1)  BY DEF LastWord
<1> DEFINE n == Cardinality(BlanksIn(raceIndex'))
           l == LastWord
           d == words' - wrongWords'
<1>6. d \in Nat /\ d >= n + l
  <2> DEFINE w == words'
             o == wrongWords'
  <2>1. w \in Nat /\ o \in Nat /\ o <= w /\ d = w - o  OBVIOUS
  <2>2. d >= n + l  BY Zenon
  <2> HIDE DEF w, o, d, n, l
  <2> QED  BY <2>1, <2>2
<1>7. n \in Nat /\ l \in {0, 1}  BY <1>4, <1>5
<1>8. Right(Cardinality(BlanksIn(raceIndex)))'
  <2>1. d >= n
    <3> HIDE DEF n, l, d
    <3> QED  BY <1>6, <1>7
  <2> QED  BY <2>1, Zenon DEF Right, BlanksIn
<1>9. raceIndex' = Len(Target) => Right(WordsOf(Target))'
  <2> SUFFICES ASSUME raceIndex' = Len(Target) PROVE d >= WordsOf(Target)
    BY Zenon DEF Right, WordsOf
  <2>1. l = 1 /\ WordsOf(Target) = 1 + n  BY <1>5, WordsAre
  <2> HIDE DEF n, l, d
  <2> QED  BY <1>6, <1>7, <2>1
<1> QED  BY <1>0, <1>1, <1>2, <1>3, <1>8, <1>9 DEF RaceInv

\* Every operation keeps the invariant.
LEMMA RaceStepInv == RaceInv /\ RaceNext => RaceInv'
<1> SUFFICES ASSUME RaceInv, RaceNext PROVE RaceInv'
  OBVIOUS
<1>0. /\ raceLife \in LifeState /\ WellTyped(raceTyped) /\ words \in Nat /\ wrongWords \in Nat
      /\ wrongWords <= words /\ raceIndex \in 0 .. Len(Target) /\ Len(Target) \in Nat
  BY TargetIs DEF RaceInv
<1>a. Cardinality(BlanksIn(raceIndex)) \in Nat  BY <1>0, BlanksAre
<1>1. ASSUME NEW s \in Symbols, RaceEnglish(s) PROVE RaceInv'
  BY <1>1, RaceTypesEnglish
<1>2. CASE RaceBackspace
  BY <1>2, RaceTakesBack
<1>3. CASE RaceLetter
  <2>1. /\ Compose(FeedLetter(raceTyped)) /\ raceVn /\ raceTyped' \in FeedLetter(raceTyped)
        /\ words' = words + LastWord /\ wrongWords' = wrongWords
        /\ raceIndex' = MatchLength(raceTyped')
    BY <1>3 DEF RaceLetter, Compose
  <2>2. WellTyped(raceTyped')  BY <1>0, <2>1, LetterIs
  <2>3. raceIndex = MatchLength(raceTyped) /\ Right(Cardinality(BlanksIn(raceIndex)))
    BY <2>1 DEF RaceInv
  <2>4. BlanksIn(raceIndex') \subseteq BlanksIn(raceIndex)
    BY <1>0, <2>1, <2>3, LetterBlanks, Zenon
  <2>5. /\ Cardinality(BlanksIn(raceIndex')) <= Cardinality(BlanksIn(raceIndex))
        /\ Cardinality(BlanksIn(raceIndex')) \in Nat
    <3>1. raceIndex' \in Nat  BY <2>1, <2>2, MatchIs DEF WellTyped
    <3> QED  BY <1>0, <2>4, <3>1, BlanksAre
  <2>6. LastWord \in {0, 1}  BY DEF LastWord
  <2> DEFINE n == Cardinality(BlanksIn(raceIndex'))
             m == Cardinality(BlanksIn(raceIndex))
             l == LastWord
  <2>7. n <= m /\ n \in Nat /\ m \in Nat /\ l \in {0, 1} /\ words - wrongWords >= m
        /\ words' = words + l
    BY <1>a, <2>1, <2>3, <2>5, <2>6 DEF Right
  <2> HIDE DEF n, m, l
  <2>8. words' \in Nat /\ wrongWords' \in Nat /\ wrongWords' <= words'
        /\ words' - wrongWords' >= n + l
    BY <1>0, <2>1, <2>7
  <2> QED  BY <2>1, <2>2, <2>8, RaceComposes DEF n, l
<1>4. CASE RaceSpace
  <2>1. /\ Compose(FeedSpace(raceTyped)) /\ raceVn /\ raceTyped' \in FeedSpace(raceTyped)
        /\ words' = words + 1 + LastWord
        /\ wrongWords' = wrongWords + (IF raceIndex' < Len(raceTyped'.text) THEN 1 ELSE 0)
        /\ raceIndex' = MatchLength(raceTyped')
    BY <1>4 DEF RaceSpace, Compose
  <2>2. WellTyped(raceTyped')  BY <1>0, <2>1, SpaceIs
  <2>3. raceIndex = MatchLength(raceTyped) /\ Right(Cardinality(BlanksIn(raceIndex)))
    BY <2>1 DEF RaceInv
  <2> DEFINE e == IF raceIndex' < Len(raceTyped'.text) THEN 1 ELSE 0
             n == Cardinality(BlanksIn(raceIndex'))
             m == Cardinality(BlanksIn(raceIndex))
             l == LastWord
  <2>4. n + e <= m + 1 /\ n \in Nat
    <3>1. IsFiniteSet(BlanksIn(raceIndex))  BY <1>0, BlanksAre
    <3>2. n \in Nat
      <4>1. raceIndex' \in Nat  BY <2>1, <2>2, MatchIs DEF WellTyped
      <4> QED  BY <4>1, BlanksAre
    <3>3. CASE raceIndex' < Len(raceTyped'.text)
      <4>1. BlanksIn(raceIndex') \subseteq BlanksIn(raceIndex)
        BY <1>0, <2>1, <2>3, <3>3, SpaceBlanks, Zenon
      <4>2. n <= m  BY <1>0, <4>1, BlanksAre
      <4> QED  BY <1>a, <3>2, <3>3, <4>2
    <3>4. CASE ~ (raceIndex' < Len(raceTyped'.text))
      <4> DEFINE B == BlanksIn(raceIndex) \cup {Len(raceTyped'.text)}
      <4>1. BlanksIn(raceIndex') \subseteq B  BY <1>0, <2>1, <2>3, SpaceBlanks, Zenon
      <4>2. IsFiniteSet(B) /\ Cardinality(B) <= m + 1
        <5>1. IsFiniteSet(B) /\ Cardinality(B) = IF Len(raceTyped'.text) \in BlanksIn(raceIndex)
                                                 THEN m ELSE m + 1
          BY <3>1, FS_AddElement
        <5> QED  BY <1>a, <5>1
      <4>3. n <= Cardinality(B) /\ Cardinality(B) \in Nat
        BY <4>1, <4>2, FS_Subset, FS_CardinalityType
      <4>4. n <= m + 1
        <5> DEFINE b == Cardinality(B)
        <5>1. b \in Nat /\ n <= b /\ b <= m + 1  BY <4>2, <4>3
        <5> HIDE DEF b, n, m
        <5> QED  BY <1>a, <3>2, <5>1 DEF m
      <4> QED  BY <1>a, <3>2, <3>4, <4>4
    <3> QED  BY <3>3, <3>4
  <2>5. m \in Nat /\ l \in {0, 1} /\ e \in {0, 1} /\ words - wrongWords >= m
        /\ words' = words + 1 + l /\ wrongWords' = wrongWords + e
    BY <1>a, <2>1, <2>3 DEF Right, LastWord
  <2> HIDE DEF n, m, l, e
  <2>6. words' \in Nat /\ wrongWords' \in Nat /\ wrongWords' <= words'
        /\ words' - wrongWords' >= n + l
    BY <1>0, <2>4, <2>5
  <2> QED  BY <2>1, <2>2, <2>6, RaceComposes DEF n, l
<1>5. CASE RaceRestart
  BY <1>5, RaceRestarts
<1>6. CASE RaceLifeKey
  <2>1. raceLife' \in LifeState /\ raceLife'.over = raceLife.over
    BY <1>0, <1>6, LifeIs DEF RaceLifeKey
  <2>2. UNCHANGED <<raceVn, raceTyped, raceIndex, keys, correct, wrong, words, wrongWords>>
    BY <1>6 DEF RaceLifeKey, raceCounts
  <2> QED  BY <2>1, <2>2 DEF RaceInv, Right, BlanksIn, WordsOf
<1> QED
  BY <1>1, <1>2, <1>3, <1>4, <1>5, <1>6, Zenon DEF RaceNext

\* It holds while the game waits.
LEMMA RaceStays == RaceInv /\ UNCHANGED raceVars => RaceInv'
BY DEF RaceInv, Right, BlanksIn, WordsOf, raceVars, raceCounts

\* The race is over exactly when the passage stands there, and then as many right letters, or
\* words committed right, were counted as it has, for every passage and alphabet
\* (TypingRaceGame of Arcade.cpp).
THEOREM RaceIsEarned == RaceSpec => []FinishIsEarned
<1> QED  BY RaceInitInv, RaceStepInv, RaceStays, RaceInvIsSound, PTL DEF RaceSpec

(***************************************************************************)
(* The game without mistakes.                                              *)
(***************************************************************************)
\* The invariant of the game without mistakes.
StrictInv ==
  /\ strictVn \in BOOLEAN /\ hardcore \in BOOLEAN /\ strict \in BOOLEAN
  /\ strictFinished \in BOOLEAN /\ endJudged \in BOOLEAN
  /\ strictLife \in LifeState /\ WellTyped(strictTyped)
  /\ strictIndex \in 0 .. Len(Target) /\ score \in Nat /\ mistakes \in Nat
  /\ strict => hardcore
  /\ endJudged => mistakes > 0
  /\ strictVn => strictIndex = MatchLength(strictTyped)
  /\ StrictlyJudged /\ EndIsJudged

\* It holds what is stated of the game.
LEMMA StrictInvIsSound == StrictInv => StrictlyJudged /\ EndIsJudged
BY DEF StrictInv

\* A passage is not completed by the keys a space gives back.
LEMMA SpaceCompletesNothing ==
  ASSUME NEW c, WellTyped(c), MatchLength(c) < Len(Target), NEW t \in FeedSpace(c)
  PROVE  MatchLength(t) \in Nat /\ MatchLength(t) < Len(Target)
<1> DEFINE L == Len(Target)
<1>0. /\ L \in Nat \ {0} /\ c.text \in Seq(Symbols) /\ Len(c.text) \in Nat
      /\ c.from \in 0 .. Len(c.text)
      /\ MatchLength(c) \in Nat
      /\ \A n \in Nat : Agree(c.text, n) => n <= MatchLength(c)
  BY TargetIs, MatchIs DEF WellTyped
<1>1. /\ WellTyped(t) /\ Len(t.text) \in Nat /\ t.text[Len(t.text)] = Blank
      /\ t.text \in Seq(Symbols)
      /\ \A i \in 1 .. c.from : t.text[i] = c.text[i]
      /\ \/ Len(t.text) = Len(c.text) + 1 /\ \A i \in 1 .. Len(c.text) : t.text[i] = c.text[i]
         \/ \A i \in c.from + 1 .. Len(t.text) - 1 : Base[t.text[i]] = t.text[i]
  BY SpaceIs DEF WellTyped
<1>2. MatchLength(t) \in 0 .. L /\ Agree(t.text, MatchLength(t))
  BY <1>1, MatchIs, MatchRange
<1> SUFFICES ASSUME MatchLength(t) = L PROVE FALSE
  BY <1>0, <1>2
<1>3. L <= Len(t.text) /\ \A i \in 1 .. L : t.text[i] = Target[i]  BY <1>2 DEF Agree
<1>4. Target[L] \in Letters /\ Base[Target[L]] # Target[L]  BY StrictAssumption
<1>5. L <= Len(t.text) - 1
  <2>1. L # Len(t.text)  BY <1>0, <1>1, <1>3, <1>4, TextAssumption
  <2> QED  BY <1>0, <1>1, <1>3, <2>1
<1>6. ASSUME L <= Len(c.text), \A i \in 1 .. L : t.text[i] = c.text[i] PROVE FALSE
  <2>1. Agree(c.text, L)  BY <1>3, <1>6 DEF Agree
  <2> QED  BY <1>0, <2>1
<1>7. CASE L <= c.from
  <2>1. L <= Len(c.text) /\ \A i \in 1 .. L : t.text[i] = c.text[i]  BY <1>0, <1>1, <1>7
  <2> QED  BY <1>6, <2>1
<1>8. CASE L > c.from
  <2>1. CASE Len(t.text) = Len(c.text) + 1 /\ \A i \in 1 .. Len(c.text) : t.text[i] = c.text[i]
    <3>1. L <= Len(c.text)  BY <1>0, <1>5, <2>1
    <3>2. \A i \in 1 .. L : t.text[i] = c.text[i]  BY <1>0, <2>1, <3>1
    <3> QED  BY <1>6, <3>1, <3>2
  <2>2. CASE \A i \in c.from + 1 .. Len(t.text) - 1 : Base[t.text[i]] = t.text[i]
    <3>1. L \in c.from + 1 .. Len(t.text) - 1 /\ L \in 1 .. L  BY <1>0, <1>1, <1>5, <1>8
    <3> QED  BY <1>3, <1>4, <2>2, <3>1
  <2> QED  BY <1>1, <2>1, <2>2
<1> QED  BY <1>0, <1>7, <1>8

\* A mistake is counted, and ends the run where one is too many.
LEMMA MistakeIs ==
  ASSUME StrictInv, ~ strictLife.over, WrongWord
  PROVE  /\ mistakes' \in Nat /\ mistakes' > 0 /\ score' \in Nat
         /\ strictLife' \in LifeState /\ strictFinished' = FALSE
         /\ hardcore => strictLife'.over
         /\ ~ strictLife'.over => score' > 0
<1> DEFINE loss == IF hardcore THEN Penalty ELSE SoftPenalty
           left == ReserveLeft(loss)
<1>0. /\ strictLife \in LifeState /\ score \in Nat /\ mistakes \in Nat /\ ~ strictFinished
      /\ hardcore \in BOOLEAN /\ strictFinished \in BOOLEAN /\ loss \in Nat
  BY StrictAssumption DEF StrictInv, StrictlyJudged
<1>1. left \in Nat
  <2> HIDE DEF loss
  <2> QED  BY <1>0 DEF ReserveLeft
<1>2. /\ mistakes' = mistakes + 1 /\ score' = left
      /\ strictLife' = (IF hardcore \/ left = 0 THEN Ended(strictLife) ELSE strictLife)
      /\ strictFinished' = (IF hardcore \/ left = 0 THEN FALSE ELSE strictFinished)
  BY Zenon DEF WrongWord
<1> HIDE DEF left
<1>3. strictLife' \in LifeState /\ (hardcore \/ left = 0 => strictLife'.over)
  BY <1>0, <1>2, LifeIs
<1> QED  BY <1>0, <1>1, <1>2, <1>3

\* The game begins in the invariant.
LEMMA StrictInitInv == StrictInit => StrictInv
<1> SUFFICES ASSUME StrictInit PROVE StrictInv
  OBVIOUS
<1>1. /\ FreshStrict(strictTyped, strictIndex, score, mistakes, strictFinished, endJudged)
      /\ strictVn \in BOOLEAN /\ hardcore \in BOOLEAN /\ strict = hardcore
      /\ strictLife \in LifeState /\ ~ strictLife.over
  BY StartedIs DEF StrictInit
<1>2. /\ WellTyped(strictTyped) /\ strictIndex = 0 /\ strictIndex = MatchLength(strictTyped)
      /\ score \in Nat /\ (score > 0 \/ StartReserve = 0) /\ mistakes = 0
      /\ strictFinished = FALSE /\ endJudged = FALSE
      /\ strictIndex \in 0 .. Len(Target) /\ strictIndex < Len(Target)
      /\ ~ (Len(strictTyped.text) >= Len(Target))
  <2>1. /\ strictTyped = Nothing /\ strictIndex = 0 /\ score = StartReserve
        /\ mistakes = 0 /\ strictFinished = FALSE /\ endJudged = FALSE
    BY <1>1 DEF FreshStrict
  <2>2. /\ WellTyped(strictTyped) /\ MatchLength(strictTyped) = 0
        /\ Len(strictTyped.text) = 0
    BY <2>1, NothingIs
  <2> QED  BY <2>1, <2>2, TargetIs, StrictAssumption
<1>3. EndIsJudged  BY <1>2, Zenon DEF EndIsJudged
<1>4. StrictlyJudged  BY <1>1, <1>2 DEF StrictlyJudged
<1>5. mistakes \in Nat  BY <1>2
<1> QED  BY <1>1, <1>2, <1>3, <1>4, <1>5, Zenon DEF StrictInv

\* A restart begins the run anew.
LEMMA StrictRestarts == ASSUME StrictInv, StrictRestart PROVE StrictInv'
<1>1. /\ FreshStrict(strictTyped', strictIndex', score', mistakes', strictFinished', endJudged')
      /\ strictVn' \in BOOLEAN /\ hardcore' \in BOOLEAN /\ strict' = hardcore
         /\ hardcore' = hardcore
      /\ strictLife' \in LifeState /\ ~ strictLife'.over
  BY LifeIs DEF StrictRestart, StrictInv
<1>2. /\ WellTyped(strictTyped') /\ strictIndex' = 0 /\ strictIndex' = MatchLength(strictTyped')
      /\ score' \in Nat /\ (score' > 0 \/ StartReserve = 0) /\ mistakes' = 0
      /\ strictFinished' = FALSE /\ endJudged' = FALSE
      /\ strictIndex' \in 0 .. Len(Target) /\ strictIndex' < Len(Target)
      /\ ~ (Len(strictTyped'.text) >= Len(Target))
  <2>1. /\ strictTyped' = Nothing /\ strictIndex' = 0 /\ score' = StartReserve
        /\ mistakes' = 0 /\ strictFinished' = FALSE /\ endJudged' = FALSE
    BY <1>1 DEF FreshStrict
  <2>2. /\ WellTyped(strictTyped') /\ MatchLength(strictTyped') = 0
        /\ Len(strictTyped'.text) = 0
    BY <2>1, NothingIs
  <2> QED  BY <2>1, <2>2, TargetIs, StrictAssumption
<1>3. EndIsJudged'  BY <1>2, Zenon DEF EndIsJudged
<1>4. StrictlyJudged'  BY <1>1, <1>2 DEF StrictlyJudged
<1>5. mistakes' \in Nat  BY <1>2
<1> QED  BY <1>1, <1>2, <1>3, <1>4, <1>5, Zenon DEF StrictInv

\* A symbol typed without the composer keeps the invariant.
LEMMA StrictTypesEnglish ==
  ASSUME StrictInv, NEW s \in Symbols, StrictEnglish(s) PROVE StrictInv'
<1>0. /\ ~ strictLife.over /\ ~ strictVn
         /\ UNCHANGED <<strictVn, hardcore, strict, strictTyped, endJudged>>
      /\ strictLife \in LifeState /\ ~ strictFinished /\ strictIndex \in 0 .. Len(Target)
      /\ strictIndex < Len(Target) /\ Len(Target) \in Nat /\ score \in Nat /\ mistakes \in Nat
      /\ (strict => mistakes = 0)
  BY LifeIs, TargetIs DEF StrictEnglish, StrictOpen, StrictInv, StrictlyJudged
<1>1. CASE s = Target[strictIndex + 1]
  <2>1. /\ strictIndex' = strictIndex + 1 /\ score' = score + 1 /\ mistakes' = mistakes
        /\ IF strictIndex' = Len(Target)
           THEN strictFinished' = TRUE /\ strictLife' = Ended(strictLife)
           ELSE UNCHANGED <<strictFinished, strictLife>>
    BY <1>1, Zenon DEF StrictEnglish, Reward, Won
  <2>2. strictIndex' \in 0 .. Len(Target) /\ score' \in Nat /\ score' > 0  BY <1>0, <2>1
  <2>3. CASE strictIndex' = Len(Target)
    <3>1. strictLife' \in LifeState /\ strictLife'.over /\ strictFinished' = TRUE
      BY <1>0, <2>1, <2>3, LifeIs
    <3> QED  BY <1>0, <2>1, <2>2, <2>3, <3>1 DEF StrictInv, StrictlyJudged, EndIsJudged
  <2>4. CASE strictIndex' # Len(Target)
    <3>1. strictIndex' < Len(Target) /\ UNCHANGED <<strictFinished, strictLife>>
      BY <1>0, <2>1, <2>2, <2>4
    <3> QED  BY <1>0, <2>1, <2>2, <3>1 DEF StrictInv, StrictlyJudged, EndIsJudged
  <2> QED  BY <2>3, <2>4
<1>2. CASE s # Target[strictIndex + 1]
  <2>1. WrongWord /\ strictIndex' = strictIndex  BY <1>2, Zenon DEF StrictEnglish
  <2> QED  BY <1>0, <2>1, MistakeIs DEF StrictInv, StrictlyJudged, EndIsJudged
<1> QED  BY <1>1, <1>2

\* So does a backspace.
LEMMA StrictTakesBack == ASSUME StrictInv, StrictBackspace PROVE StrictInv'
<1>0. /\ ~ strictLife.over /\ strictVn
      /\ UNCHANGED <<strictVn, hardcore, strict, score, mistakes, strictFinished, endJudged,
         strictLife>>
      /\ strictTyped' = FeedBackspace(strictTyped) /\ strictIndex' = MatchLength(strictTyped')
      /\ strictIndex = MatchLength(strictTyped) /\ strictIndex < Len(Target)
      /\ strictIndex \in Nat /\ Len(Target) \in Nat \ {0} /\ WellTyped(strictTyped)
  BY LifeIs, TargetIs DEF StrictBackspace, StrictOpen, StrictInv, StrictlyJudged
<1>1. /\ WellTyped(strictTyped') /\ strictIndex' <= strictIndex
      /\ strictTyped'.text = IF strictTyped.text = <<>> THEN <<>> ELSE Front(strictTyped.text)
  BY <1>0, BackspaceIs
<1>2. strictIndex' \in Nat  BY <1>0, <1>1, MatchIs DEF WellTyped
<1>3. strictIndex' < Len(Target) /\ strictIndex' \in 0 .. Len(Target)  BY <1>0, <1>1, <1>2
<1>4. Len(strictTyped'.text) >= Len(Target) => mistakes > 0
  <2> SUFFICES ASSUME Len(strictTyped'.text) >= Len(Target) PROVE mistakes > 0
    OBVIOUS
  <2>1. strictTyped.text \in Seq(Symbols)  BY <1>0 DEF WellTyped
  <2>2. strictTyped.text # <<>>  BY <1>0, <1>1
  <2>3. Len(strictTyped'.text) = Len(strictTyped.text) - 1 /\ Len(strictTyped.text) \in Nat
    BY <1>1, <2>1, <2>2 DEF Front
  <2>4. Len(strictTyped.text) > Len(Target)  BY <1>0, <2>3
  <2>5. Len(strictTyped.text) >= Len(Target) /\ DefinitivelyWrong(strictTyped)
    BY <1>0, <2>3, <2>4 DEF DefinitivelyWrong
  <2> QED  BY <1>0, <2>5 DEF StrictInv, EndIsJudged
<1> QED  BY <1>0, <1>1, <1>3, <1>4 DEF StrictInv, StrictlyJudged, EndIsJudged

\* So does a letter that is composed.
LEMMA StrictTypesLetter == ASSUME StrictInv, StrictLetter PROVE StrictInv'
<1>0. /\ ~ strictLife.over /\ strictVn /\ UNCHANGED <<strictVn, hardcore, strict>>
      /\ strictTyped' \in FeedLetter(strictTyped) /\ strictIndex' = MatchLength(strictTyped')
      /\ WellTyped(strictTyped) /\ strictLife \in LifeState /\ ~ strictFinished
      /\ score \in Nat /\ mistakes \in Nat /\ Len(Target) \in Nat
      /\ (strict => mistakes = 0)
  BY LifeIs, TargetIs DEF StrictLetter, StrictOpen, StrictInv, StrictlyJudged
<1>1. WellTyped(strictTyped')  BY <1>0, LetterIs
<1>2. strictIndex' \in 0 .. Len(Target) /\ strictIndex' <= Len(strictTyped'.text)
      /\ Len(strictTyped'.text) \in Nat
  BY <1>0, <1>1, MatchRange DEF WellTyped
<1>3. CASE strictIndex' = Len(Target)
  <2>1. /\ strictFinished' = TRUE /\ strictLife' = Ended(strictLife)
        /\ UNCHANGED <<score, mistakes, endJudged>>
    BY <1>3, Zenon DEF StrictLetter, Won
  <2>2. strictLife' \in LifeState /\ strictLife'.over  BY <1>0, <2>1, LifeIs
  <2> QED  BY <1>0, <1>1, <1>2, <1>3, <2>1, <2>2 DEF StrictInv, StrictlyJudged, EndIsJudged
<1>4. CASE strictIndex' # Len(Target)
  <2>0. strictIndex' < Len(Target)  BY <1>0, <1>2, <1>4
  <2>1. EndVerdict  BY <1>4, Zenon DEF StrictLetter
  <2>2. CASE Len(strictTyped'.text) >= Len(Target) /\ ~ endJudged /\ DefinitivelyWrong(strictTyped')
    <3>1. endJudged' = TRUE /\ WrongWord  BY <2>1, <2>2, Zenon DEF EndVerdict
    <3> QED  BY <1>0, <1>1, <1>2, <2>0, <3>1, MistakeIs DEF StrictInv, StrictlyJudged, EndIsJudged
  <2>3. CASE ~ (Len(strictTyped'.text) >= Len(Target) /\ ~ endJudged
             /\ DefinitivelyWrong(strictTyped'))
    <3>1. UNCHANGED <<score, mistakes, strictFinished, endJudged, strictLife>>
      BY <2>1, <2>3, Zenon DEF EndVerdict
    <3>2. endJudged => mistakes > 0  BY DEF StrictInv
    <3>3. EndIsJudged'  BY <2>3, <3>1, <3>2, Zenon
         DEF EndIsJudged, DefinitivelyWrong, MatchLength, BaseOf
    <3> QED  BY <1>0, <1>1, <1>2, <2>0, <3>1, <3>3 DEF StrictInv, StrictlyJudged
  <2> QED  BY <2>2, <2>3
<1> QED  BY <1>3, <1>4

\* So does the space that ends a word.
LEMMA StrictTypesSpace == ASSUME StrictInv, StrictSpace PROVE StrictInv'
<1>0. /\ ~ strictLife.over /\ strictVn /\ UNCHANGED <<strictVn, hardcore, strict, endJudged>>
      /\ strictTyped' \in FeedSpace(strictTyped) /\ strictIndex' = MatchLength(strictTyped')
      /\ WellTyped(strictTyped) /\ strictLife \in LifeState /\ ~ strictFinished
      /\ score \in Nat /\ mistakes \in Nat /\ Len(Target) \in Nat
      /\ MatchLength(strictTyped) < Len(Target)
      /\ (strict => mistakes = 0)
  BY LifeIs, TargetIs DEF StrictSpace, StrictOpen, StrictInv, StrictlyJudged
<1>1. WellTyped(strictTyped')  BY <1>0, SpaceIs
<1>2. strictIndex' \in 0 .. Len(Target) /\ strictIndex' <= Len(strictTyped'.text)
      /\ Len(strictTyped'.text) \in Nat
  BY <1>0, <1>1, MatchRange DEF WellTyped
<1>3. strictIndex' < Len(Target)  BY <1>0, SpaceCompletesNothing
<1>4. CASE strictIndex' < Len(strictTyped'.text)
  <2>1. WrongWord  BY <1>4, Zenon DEF StrictSpace
  <2> QED  BY <1>0, <1>1, <1>2, <1>3, <2>1, MistakeIs DEF StrictInv, StrictlyJudged, EndIsJudged
<1>5. CASE ~ (strictIndex' < Len(strictTyped'.text))
  <2>1. score' = score + 1 /\ UNCHANGED <<mistakes, strictFinished, strictLife>>
    BY <1>5, Zenon DEF StrictSpace, Reward
  <2>2. ~ (Len(strictTyped'.text) >= Len(Target))  BY <1>0, <1>2, <1>3, <1>5
  <2>3. score' \in Nat /\ score' > 0  BY <1>0, <2>1
  <2> QED  BY <1>0, <1>1, <1>2, <1>3, <2>1, <2>2, <2>3 DEF StrictInv, StrictlyJudged, EndIsJudged
<1> QED  BY <1>4, <1>5

\* So does what changes neither text nor counts.
LEMMA StrictKeeps ==
  ASSUME StrictInv, UNCHANGED <<strictVn, strictTyped, strictIndex, score, mistakes,
                                strictFinished, endJudged>>,
         hardcore' \in BOOLEAN, strict' \in BOOLEAN, strict' => strict /\ hardcore',
         strictLife' \in LifeState, strictLife'.over = strictLife.over
  PROVE  StrictInv'
<1>1. EndIsJudged'
  BY Zenon DEF StrictInv, EndIsJudged, DefinitivelyWrong, MatchLength, BaseOf
<1>2. StrictlyJudged'
  BY DEF StrictInv, StrictlyJudged
<1> QED  BY <1>1, <1>2 DEF StrictInv

\* Every operation keeps the invariant.
LEMMA StrictStepInv == StrictInv /\ StrictNext => StrictInv'
<1> SUFFICES ASSUME StrictInv, StrictNext PROVE StrictInv'
  OBVIOUS
<1>0. /\ strictLife \in LifeState /\ hardcore \in BOOLEAN /\ strict \in BOOLEAN
      /\ (strict => hardcore)
  BY DEF StrictInv
<1>1. ASSUME NEW s \in Symbols, StrictEnglish(s) PROVE StrictInv'
  BY <1>1, StrictTypesEnglish
<1>2. CASE StrictBackspace
  BY <1>2, StrictTakesBack
<1>3. CASE StrictLetter
  BY <1>3, StrictTypesLetter
<1>4. CASE StrictSpace
  BY <1>4, StrictTypesSpace
<1>5. CASE StrictRestart
  BY <1>5, StrictRestarts
<1>6. CASE SetStrictFailMode
  BY <1>0, <1>6, StrictKeeps DEF SetStrictFailMode
<1>7. CASE StrictLifeKey
  <2>1. strictLife' \in LifeState /\ strictLife'.over = strictLife.over
    BY <1>0, <1>7, LifeIs DEF StrictLifeKey
  <2> QED  BY <1>0, <1>7, <2>1, StrictKeeps DEF StrictLifeKey
<1> QED
  BY <1>1, <1>2, <1>3, <1>4, <1>5, <1>6, <1>7, Zenon DEF StrictNext

\* It holds while the game waits.
LEMMA StrictStays == StrictInv /\ UNCHANGED strictVars => StrictInv'
<1> SUFFICES ASSUME StrictInv, UNCHANGED strictVars PROVE StrictInv'
  OBVIOUS
<1>0. /\ strictLife \in LifeState /\ hardcore \in BOOLEAN /\ strict \in BOOLEAN
      /\ (strict => hardcore)
  BY DEF StrictInv
<1> QED  BY <1>0, StrictKeeps DEF strictVars

\* A run is won with the whole passage and, in hardcore, without a mistake; it is lost by one; and
\* it never waits with a text that can no longer become the passage (NoMistakeGame of Arcade.cpp).
THEOREM MistakesAreJudged == StrictSpec => [](StrictlyJudged /\ EndIsJudged)
<1> QED  BY StrictInitInv, StrictStepInv, StrictStays, StrictInvIsSound, PTL DEF StrictSpec

(***************************************************************************)
(* The road.                                                               *)
(***************************************************************************)
\* The lanes of the obstacles that lie between a place and a row's depth before it
RowOf(O, d) == {p[1] : p \in {q \in O : d - RowDepth < q[2] /\ q[2] <= d}}

\* The invariant of the road.
RoadInv ==
  /\ roadVn \in BOOLEAN /\ steering \in BOOLEAN /\ roadLife \in LifeState
  /\ WellTyped(roadTyped) /\ roadIndex \in Nat
  /\ obstacles \subseteq (0 .. Lanes - 1) \X (1 .. RoadLength)
  /\ NoWall /\ Fuelled

\* It holds what is stated of the game.
LEMMA RoadInvIsSound == RoadInv => NoWall /\ Fuelled
BY DEF RoadInv

\* The lanes that are blocked at a depth of a row.
LEMMA RowIs ==
  ASSUME NEW O, NEW d
  PROVE  \A l : l \in RowOf(O, d) <=> \E q \in O : q[1] = l /\ d - RowDepth < q[2] /\ q[2] <= d
BY DEF RowOf

\* No row is closed, said of the set of obstacles.
LEMMA NoWallIs == NoWall <=> \A o \in obstacles : RowOf(obstacles, o[2]) # 0 .. Lanes - 1
BY Zenon DEF NoWall, RowOf

\* The same, after a step.
LEMMA NoWallNow ==
  ASSUME \A o \in obstacles' : RowOf(obstacles', o[2]) # 0 .. Lanes - 1 PROVE NoWall'
BY Zenon DEF NoWall, RowOf

\* A new obstacle leaves a lane open.
LEMMA RoadSpawns ==
  ASSUME RoadInv, SpawnObstacle PROVE RoadInv'
<1>0. /\ obstacles \subseteq (0 .. Lanes - 1) \X (1 .. RoadLength)
      /\ \A o \in obstacles : RowOf(obstacles, o[2]) # 0 .. Lanes - 1
      /\ Lanes \in Nat /\ RoadLength \in Nat \ {0} /\ RowDepth \in Nat
  BY NoWallIs, RoadAssumption DEF RoadInv
<1>1. PICK l \in 0 .. Lanes - 1 :
        RowStaysOpen(l) /\ obstacles' = obstacles \cup {<<l, RoadLength>>}
  BY Zenon DEF SpawnObstacle
<1> DEFINE new == <<l, RoadLength>>
<1>2. new \in (0 .. Lanes - 1) \X (1 .. RoadLength) /\ new[1] = l /\ new[2] = RoadLength
  BY <1>0
<1>3. obstacles' \subseteq (0 .. Lanes - 1) \X (1 .. RoadLength)
  BY <1>0, <1>1, <1>2
<1>4. \A o \in obstacles' : o[1] \in 0 .. Lanes - 1 /\ o[2] \in 1 .. RoadLength
  BY <1>3
<1>5. RowOf(obstacles', RoadLength) # 0 .. Lanes - 1
  <2> DEFINE T == {l} \cup {o[1] : o \in {p \in obstacles : p[2] > RoadLength - RowDepth}}
  <2>1. T # 0 .. Lanes - 1  BY <1>1, Zenon DEF RowStaysOpen
  <2>2. T \subseteq 0 .. Lanes - 1  BY <1>1, <1>4
  <2>3. RowOf(obstacles', RoadLength) \subseteq T
    <3> SUFFICES ASSUME NEW o1 \in RowOf(obstacles', RoadLength) PROVE o1 \in T
      OBVIOUS
    <3>1. PICK q \in obstacles' : q[1] = o1 /\ RoadLength - RowDepth < q[2]  BY RowIs
    <3>2. CASE q = new
      BY <1>2, <3>1, <3>2
    <3>3. CASE q # new
      <4>1. q \in obstacles  BY <1>1, <3>3
      <4>2. q[2] > RoadLength - RowDepth  BY <1>0, <1>4, <3>1
      <4> QED  BY <3>1, <4>1, <4>2
    <3> QED  BY <3>2, <3>3
  <2> HIDE DEF T
  <2> QED  BY <2>1, <2>2, <2>3
<1>6. ASSUME NEW o \in obstacles' PROVE RowOf(obstacles', o[2]) # 0 .. Lanes - 1
  <2>1. CASE o[2] = RoadLength
    BY <1>5, <2>1
  <2>2. CASE o[2] # RoadLength
    <3>1. o \in obstacles  BY <1>1, <1>2, <2>2
    <3>2. o[2] < RoadLength  BY <1>0, <1>4, <2>2
    <3>3. \A q \in obstacles' : q[2] <= o[2] => q \in obstacles
      <4> SUFFICES ASSUME NEW q \in obstacles', q[2] <= o[2] PROVE q # new
        BY <1>1
      <4>1. o[2] \in Nat /\ q[2] \in Nat  BY <1>4
      <4> QED  BY <1>0, <1>2, <3>2, <4>1
    <3>4. RowOf(obstacles', o[2]) = RowOf(obstacles, o[2])
      <4>1. obstacles \subseteq obstacles'  BY <1>1
      <4>2. ASSUME NEW o1 \in RowOf(obstacles', o[2]) PROVE o1 \in RowOf(obstacles, o[2])
        <5>1. PICK q \in obstacles' : q[1] = o1 /\ o[2] - RowDepth < q[2] /\ q[2] <= o[2]  BY RowIs
        <5>2. q \in obstacles  BY <3>3, <5>1
        <5> QED  BY <5>1, <5>2, RowIs
      <4>3. ASSUME NEW o1 \in RowOf(obstacles, o[2]) PROVE o1 \in RowOf(obstacles', o[2])
        <5>1. PICK q \in obstacles : q[1] = o1 /\ o[2] - RowDepth < q[2] /\ q[2] <= o[2]  BY RowIs
        <5>2. q \in obstacles'  BY <4>1
        <5> QED  BY <5>1, <5>2, RowIs
      <4> QED  BY <4>2, <4>3
    <3> QED  BY <1>0, <3>1, <3>4
  <2> QED  BY <2>1, <2>2
<1>7. NoWall'  BY <1>6, NoWallNow
<1> QED  BY <1>3, <1>7 DEF SpawnObstacle, RoadInv, Fuelled

\* Obstacles come nearer together.
LEMMA RoadMoves ==
  ASSUME RoadInv, obstacles' = {<<o[1], o[2] - 1>> : o \in obstacles \ {p \in obstacles : p[2] = 1}}
  PROVE  NoWall' /\ obstacles' \subseteq (0 .. Lanes - 1) \X (1 .. RoadLength)
<1>0. /\ obstacles \subseteq (0 .. Lanes - 1) \X (1 .. RoadLength)
      /\ \A o \in obstacles : RowOf(obstacles, o[2]) # 0 .. Lanes - 1
      /\ Lanes \in Nat /\ RoadLength \in Nat \ {0} /\ RowDepth \in Nat
  BY NoWallIs, RoadAssumption DEF RoadInv
<1>1. \A o \in obstacles : o[1] \in 0 .. Lanes - 1 /\ o[2] \in 1 .. RoadLength
  BY <1>0
<1>2. ASSUME NEW q \in obstacles'
      PROVE  \E o \in obstacles : /\ q = <<o[1], o[2] - 1>> /\ q[1] = o[1] /\ q[2] = o[2] - 1
                                  /\ o[2] # 1
  <2>1. PICK o \in obstacles : q = <<o[1], o[2] - 1>> /\ o[2] # 1
    OBVIOUS
  <2> QED  BY <2>1
<1>3. obstacles' \subseteq (0 .. Lanes - 1) \X (1 .. RoadLength)
  <2> SUFFICES ASSUME NEW q \in obstacles' PROVE q \in (0 .. Lanes - 1) \X (1 .. RoadLength)
    OBVIOUS
  <2>1. PICK o \in obstacles : q = <<o[1], o[2] - 1>> /\ o[2] # 1  BY <1>2
  <2>2. o[1] \in 0 .. Lanes - 1 /\ o[2] - 1 \in 1 .. RoadLength  BY <1>0, <1>1, <2>1
  <2> QED  BY <2>1, <2>2
<1>4. ASSUME NEW q \in obstacles' PROVE RowOf(obstacles', q[2]) # 0 .. Lanes - 1
  <2>1. PICK o \in obstacles : q[2] = o[2] - 1  BY <1>2
  <2>2. RowOf(obstacles', q[2]) \subseteq RowOf(obstacles, o[2])
    <3> SUFFICES ASSUME NEW o1 \in RowOf(obstacles', q[2]) PROVE o1 \in RowOf(obstacles, o[2])
      OBVIOUS
    <3>1. PICK r \in obstacles' : r[1] = o1 /\ q[2] - RowDepth < r[2] /\ r[2] <= q[2]  BY RowIs
    <3>2. PICK s \in obstacles : r[1] = s[1] /\ r[2] = s[2] - 1  BY <1>2
    <3>3. o[2] \in Nat /\ s[2] \in Nat  BY <1>1
    <3>4. o[2] - RowDepth < s[2] /\ s[2] <= o[2]  BY <1>0, <2>1, <3>1, <3>2, <3>3
    <3> QED  BY <3>1, <3>2, <3>4, RowIs
  <2>3. RowOf(obstacles, o[2]) \subseteq 0 .. Lanes - 1  BY <1>1, RowIs
  <2>4. RowOf(obstacles, o[2]) # 0 .. Lanes - 1  BY <1>0
  <2> QED  BY <2>2, <2>3, <2>4
<1> QED  BY <1>3, <1>4, NoWallNow

\* Driving on keeps the invariant.
LEMMA RoadDrives == ASSUME RoadInv, Drive PROVE RoadInv'
<1> USE RoadAssumption
<1>0. /\ ~ roadLife.over /\ roadLife \in LifeState /\ fuel \in 0 .. FuelMax /\ fuel # 0
      /\ UNCHANGED <<roadVn, steering, roadTyped, roadIndex, lane>>
  BY LifeIs DEF Drive, RoadInv, Fuelled
<1>1. fuel' \in 0 .. FuelMax
  <2>1. PICK burnt \in {fuel, fuel - 1} : fuel' = Minus(burnt, CrashCost) \/ fuel' = burnt
    BY Zenon DEF Drive
  <2>2. burnt \in 0 .. FuelMax  BY <1>0, <2>1
  <2>3. Minus(burnt, CrashCost) \in 0 .. FuelMax  BY <2>2 DEF Minus
  <2> QED  BY <2>1, <2>2, <2>3
<1>2. CASE fuel' = 0
  <2>1. roadLife' = Ended(roadLife) /\ obstacles' = obstacles  BY <1>2, Zenon DEF Drive
  <2>2. roadLife' \in LifeState /\ roadLife'.over  BY <1>0, <2>1, LifeIs
  <2> QED  BY <1>0, <1>1, <1>2, <2>1, <2>2 DEF RoadInv, NoWall, Fuelled
<1>3. CASE fuel' # 0
  <2>1. /\ obstacles' = {<<o[1], o[2] - 1>> : o \in obstacles \ {p \in obstacles : p[2] = 1}}
        /\ roadLife' = roadLife
    BY <1>3, Zenon DEF Drive
  <2>2. NoWall' /\ obstacles' \subseteq (0 .. Lanes - 1) \X (1 .. RoadLength)
    BY <2>1, RoadMoves
  <2> QED  BY <1>0, <1>1, <1>3, <2>1, <2>2 DEF RoadInv, Fuelled
<1> QED  BY <1>2, <1>3

\* Typing only fuels the car.
LEMMA RoadTypes ==
  ASSUME RoadInv, ~ roadLife.over, UNCHANGED <<roadVn, steering, obstacles, roadLife>>,
         WellTyped(roadTyped'), roadIndex' \in Nat, roadIndex' < Len(Target),
         roadVn => roadIndex' = MatchLength(roadTyped'),
         fuel' \in 0 .. FuelMax, fuel' # 0
  PROVE  RoadInv'
BY DEF RoadInv, NoWall, Fuelled

\* What is refuelled is within the tank.
LEMMA FuelIs ==
  ASSUME RoadInv, ~ roadLife.over, NEW n \in Nat, Fuel(n)
  PROVE  fuel' \in 0 .. FuelMax /\ fuel' # 0
<1> USE RoadAssumption
<1>1. fuel \in 0 .. FuelMax /\ fuel # 0  BY DEF RoadInv, Fuelled
<1> DEFINE g == n * FuelGain
<1>2. g \in Nat  OBVIOUS
<1>3. fuel' = IF fuel + g > FuelMax THEN FuelMax ELSE fuel + g  BY DEF Fuel
<1> HIDE DEF g
<1> QED  BY <1>1, <1>2, <1>3

\* A text that is typed keeps the invariant.
LEMMA RoadFeeds ==
  ASSUME RoadInv, ~ roadLife.over, roadVn, UNCHANGED <<roadVn, steering, obstacles, roadLife>>,
         NEW texts, \A t \in texts : WellTyped(t), Fed(texts)
  PROVE  RoadInv'
<1>1. PICK t \in texts : Loop(t) /\ Fuel(Minus(MatchLength(t), roadIndex))  BY Zenon DEF Fed
<1>2. WellTyped(t)  OBVIOUS
<1>3. MatchLength(t) \in 0 .. Len(Target) /\ Len(Target) \in Nat \ {0} /\ roadIndex \in Nat
  BY <1>2, MatchRange, TargetIs DEF WellTyped, RoadInv
<1>4. Minus(MatchLength(t), roadIndex) \in Nat  BY <1>3 DEF Minus
<1>5. fuel' \in 0 .. FuelMax /\ fuel' # 0  BY <1>1, <1>4, FuelIs
<1>6. CASE MatchLength(t) = Len(Target)
  <2>1. roadTyped' = Nothing /\ roadIndex' = 0  BY <1>1, <1>6 DEF Loop
  <2>2. WellTyped(roadTyped') /\ MatchLength(roadTyped') = 0  BY <2>1, NothingIs
  <2>3. roadIndex' \in Nat /\ roadIndex' < Len(Target)  BY <1>3, <2>1
  <2> QED  BY <1>5, <2>1, <2>2, <2>3, RoadTypes
<1>7. CASE MatchLength(t) # Len(Target)
  <2>1. roadTyped' = t /\ roadIndex' = MatchLength(t)  BY <1>1, <1>7 DEF Loop
  <2>2. roadIndex' \in Nat /\ roadIndex' < Len(Target)  BY <1>3, <1>7, <2>1
  <2> QED  BY <1>2, <1>5, <2>1, <2>2, RoadTypes
<1> QED  BY <1>6, <1>7

\* So does what changes neither road nor text.
LEMMA RoadKeeps ==
  ASSUME RoadInv, UNCHANGED <<roadVn, steering, roadTyped, roadIndex, obstacles, fuel>>,
         roadLife' \in LifeState, roadLife'.over = roadLife.over
  PROVE  RoadInv'
BY DEF RoadInv, NoWall, Fuelled

\* A fresh road is empty, its tank has fuel, and nothing of its word is typed.
LEMMA FreshRoadIs ==
  ASSUME NEW t, NEW i, NEW l, NEW o, NEW f, FreshRoad(t, i, l, o, f)
  PROVE  /\ WellTyped(t) /\ i = 0 /\ i \in Nat /\ i < Len(Target) /\ i = MatchLength(t)
         /\ o = {} /\ f \in 0 .. FuelMax /\ f # 0
<1>1. t = Nothing /\ i = 0 /\ o = {} /\ f = StartFuel  BY DEF FreshRoad
<1>2. WellTyped(t) /\ MatchLength(t) = 0  BY <1>1, NothingIs
<1> QED  BY <1>1, <1>2, TargetIs, RoadAssumption

\* The game begins in the invariant.
LEMMA RoadInitInv == RoadInit => RoadInv
<1> SUFFICES ASSUME RoadInit PROVE RoadInv
  OBVIOUS
<1>1. /\ roadVn \in BOOLEAN /\ steering \in BOOLEAN /\ roadLife \in LifeState /\ ~ roadLife.over
      /\ FreshRoad(roadTyped, roadIndex, lane, obstacles, fuel)
  BY StartedIs DEF RoadInit
<1>2. /\ WellTyped(roadTyped) /\ roadIndex \in Nat /\ roadIndex < Len(Target)
      /\ roadIndex = MatchLength(roadTyped)
      /\ obstacles = {} /\ fuel \in 0 .. FuelMax /\ fuel # 0
  BY <1>1, FreshRoadIs
<1>3. NoWall /\ obstacles \subseteq (0 .. Lanes - 1) \X (1 .. RoadLength)  BY <1>2 DEF NoWall
<1> QED  BY <1>1, <1>2, <1>3 DEF RoadInv, Fuelled

\* A restart begins the run anew.
LEMMA RoadRestarts == ASSUME RoadInv, RoadRestart PROVE RoadInv'
<1>1. /\ UNCHANGED <<roadVn, steering>> /\ roadLife' \in LifeState /\ ~ roadLife'.over
      /\ FreshRoad(roadTyped', roadIndex', lane', obstacles', fuel')
  BY LifeIs DEF RoadRestart, RoadInv
<1>2. /\ WellTyped(roadTyped') /\ roadIndex' \in Nat /\ roadIndex' < Len(Target)
      /\ roadIndex' = MatchLength(roadTyped')
      /\ obstacles' = {} /\ fuel' \in 0 .. FuelMax /\ fuel' # 0
  BY <1>1, FreshRoadIs
<1>3. NoWall' /\ obstacles' \subseteq (0 .. Lanes - 1) \X (1 .. RoadLength)  BY <1>2 DEF NoWall
<1> QED  BY <1>1, <1>2, <1>3 DEF RoadInv, Fuelled

\* Every operation keeps the invariant.
LEMMA RoadStepInv == RoadInv /\ RoadNext => RoadInv'
<1> SUFFICES ASSUME RoadInv, RoadNext PROVE RoadInv'
  OBVIOUS
<1>0. /\ roadLife \in LifeState /\ WellTyped(roadTyped) /\ roadIndex \in Nat
      /\ Len(Target) \in Nat \ {0} /\ roadIndex < Len(Target)
      /\ (roadVn => roadIndex = MatchLength(roadTyped))
      /\ fuel \in 0 .. FuelMax /\ (roadLife.over <=> fuel = 0)
  BY TargetIs DEF RoadInv, Fuelled
<1>1. CASE SpawnObstacle
  BY <1>1, RoadSpawns
<1>2. CASE Drive
  BY <1>2, RoadDrives
<1>3. CASE Arrow
  BY <1>0, <1>3, RoadKeeps DEF Arrow
<1>4. ASSUME NEW s \in Symbols, RoadEnglish(s) PROVE RoadInv'
  <2>1. ~ roadLife.over /\ ~ roadVn
        /\ UNCHANGED <<roadVn, steering, roadTyped, obstacles, roadLife>>
    BY <1>0, <1>4, LifeIs DEF RoadEnglish
  <2>2. CASE roadIndex' = (roadIndex + 1) % Len(Target) /\ Fuel(1)
    <3>1. fuel' \in 0 .. FuelMax /\ fuel' # 0  BY <2>1, <2>2, FuelIs
    <3>2. roadIndex' \in Nat /\ roadIndex' < Len(Target)
      <4>1. roadIndex + 1 \in Nat  BY <1>0
      <4>2. (roadIndex + 1) % Len(Target) \in 0 .. Len(Target) - 1
        BY <1>0, <4>1, ModRange, Zenon
      <4> QED  BY <1>0, <2>2, <4>2
    <3> QED  BY <1>0, <2>1, <3>1, <3>2, RoadTypes
  <2>3. CASE UNCHANGED <<roadIndex, fuel>>
    BY <1>0, <2>1, <2>3, RoadTypes
  <2> QED  BY <1>4, <2>2, <2>3, Zenon DEF RoadEnglish
<1>5. CASE RoadBackspace
  <2>1. ~ roadLife.over /\ UNCHANGED <<roadVn, steering, obstacles, fuel, roadLife>>
    BY <1>0, <1>5, LifeIs DEF RoadBackspace, car
  <2>2. CASE roadVn
    <3>1. roadTyped' = FeedBackspace(roadTyped) /\ roadIndex' = MatchLength(roadTyped')
      BY <1>5, <2>2, Zenon DEF RoadBackspace
    <3>2. WellTyped(roadTyped') /\ MatchLength(roadTyped') <= MatchLength(roadTyped)
      BY <1>0, <3>1, BackspaceIs
    <3>3. MatchLength(roadTyped') \in Nat  BY <3>2, MatchIs DEF WellTyped
    <3>4. roadIndex' \in Nat /\ roadIndex' < Len(Target)  BY <1>0, <2>2, <3>1, <3>2, <3>3
    <3> QED  BY <1>0, <2>1, <2>2, <3>1, <3>2, <3>4, RoadTypes
  <2>3. CASE ~ roadVn
    <3>1. roadIndex' = Minus(roadIndex, 1) /\ roadTyped' = roadTyped
      BY <1>5, <2>3, Zenon DEF RoadBackspace
    <3>2. roadIndex' \in Nat /\ roadIndex' < Len(Target)  BY <1>0, <3>1 DEF Minus
    <3> QED  BY <1>0, <2>1, <2>3, <3>1, <3>2, RoadTypes
  <2> QED  BY <2>2, <2>3
<1>6. CASE VnKey
  <2>1. ~ roadLife.over /\ roadVn /\ UNCHANGED <<roadVn, steering, obstacles, roadLife>>
    BY <1>0, <1>6, LifeIs DEF VnKey
  <2>2. /\ \A t \in FeedLetter(roadTyped) : WellTyped(t)
        /\ \A t \in FeedSpace(roadTyped) : WellTyped(t)
    BY <1>0, LetterIs, SpaceIs
  <2>3. Fed(FeedLetter(roadTyped)) \/ Fed(FeedSpace(roadTyped))  BY <1>6, Zenon DEF VnKey
  <2> QED  BY <2>1, <2>2, <2>3, RoadFeeds
<1>7. CASE RoadRestart
  BY <1>7, RoadRestarts
<1>8. CASE RoadLifeKey
  <2>1. roadLife' \in LifeState /\ roadLife'.over = roadLife.over
    BY <1>0, <1>8, LifeIs DEF RoadLifeKey
  <2> QED  BY <1>8, <2>1, RoadKeeps DEF RoadLifeKey, car
<1> QED
  BY <1>1, <1>2, <1>3, <1>4, <1>5, <1>6, <1>7, <1>8, Zenon DEF RoadNext

\* It holds while the game waits.
LEMMA RoadStays == RoadInv /\ UNCHANGED roadVars => RoadInv'
<1> SUFFICES ASSUME RoadInv, UNCHANGED roadVars PROVE RoadInv'
  OBVIOUS
<1>1. roadLife' \in LifeState  BY DEF RoadInv, roadVars
<1> QED  BY <1>1, RoadKeeps DEF roadVars, car

\* No row of the road closes every lane, and who drives has fuel (WasdRaceGame of Arcade.cpp).
THEOREM RoadStaysOpen == RoadSpec => [](NoWall /\ Fuelled)
<1> QED  BY RoadInitInv, RoadStepInv, RoadStays, RoadInvIsSound, PTL DEF RoadSpec

(***************************************************************************)
(* The flexing page.                                                       *)
(***************************************************************************)
\* The characters behind the a-th up to the b-th.
LEMMA UptoIs ==
  ASSUME NEW a \in Nat, NEW b \in Nat, a <= b
  PROVE  /\ Upto(a, b) \in Seq(Nat) /\ Len(Upto(a, b)) = b - a
         /\ \A i \in 1 .. b - a : Upto(a, b)[i] = a + i
<1> DEFINE k == b - a
<1>1. k \in Nat  OBVIOUS
<1>2. \A i \in 1 .. k : a + i \in Nat  BY <1>1
<1> HIDE DEF k
<1>3. [i \in 1 .. k |-> a + i] \in [1 .. k -> Nat]  BY <1>2
<1> QED  BY <1>1, <1>3 DEF Upto, k

\* Two such runs, one behind the other, are one.
LEMMA UptoGrows ==
  ASSUME NEW a \in Nat, NEW b \in Nat, NEW c \in Nat, a <= b, b <= c
  PROVE  Upto(a, b) \o Upto(b, c) = Upto(a, c)
<1> DEFINE s1 == Upto(a, b)
           s2 == Upto(b, c)
           z == Upto(a, c)
<1>1. /\ s1 \in Seq(Nat) /\ Len(s1) = b - a /\ \A i \in 1 .. b - a : s1[i] = a + i
      /\ s2 \in Seq(Nat) /\ Len(s2) = c - b /\ \A i \in 1 .. c - b : s2[i] = b + i
      /\ z \in Seq(Nat) /\ Len(z) = c - a /\ \A i \in 1 .. c - a : z[i] = a + i
  BY UptoIs, a <= c
<1> HIDE DEF s1, s2, z
<1>2. /\ s1 \o s2 \in Seq(Nat) /\ Len(s1 \o s2) = c - a
      /\ \A i \in 1 .. c - a : (s1 \o s2)[i] = IF i <= b - a THEN s1[i] ELSE s2[i - (b - a)]
  <2>1. /\ s1 \o s2 \in Seq(Nat) /\ Len(s1 \o s2) = Len(s1) + Len(s2)
        /\ \A i \in 1 .. Len(s1) + Len(s2) :
           (s1 \o s2)[i] = IF i <= Len(s1) THEN s1[i] ELSE s2[i - Len(s1)]
    BY <1>1, ConcatProperties
  <2>2. Len(s1) = b - a /\ Len(s1) + Len(s2) = c - a  BY <1>1
  <2> QED  BY <2>1, <2>2
<1>3. ASSUME NEW i \in 1 .. c - a PROVE (s1 \o s2)[i] = z[i]
  <2>1. CASE i <= b - a
    <3>1. i \in 1 .. b - a  BY <2>1
    <3> QED  BY <1>1, <1>2, <2>1, <3>1
  <2>2. CASE ~ (i <= b - a)
    <3>1. i - (b - a) \in 1 .. c - b /\ b + (i - (b - a)) = a + i  BY <2>2
    <3> QED  BY <1>1, <1>2, <2>2, <3>1
  <2> QED  BY <2>1, <2>2
<1>4. s1 \o s2 = z
  BY <1>1, <1>2, <1>3, SeqEqual
<1> QED  BY <1>4 DEF s1, s2, z

\* The page ends in what was taken.
EndsIn(p, n) == \A k \in 0 .. Least(n, Len(p)) - 1 : p[Len(p) - k] = n - k

\* So the end of the page is the end of what was taken.
LEMMA EndsInIs ==
  ASSUME NEW p \in Seq(Nat), NEW n \in Nat, EndsIn(p, n)
  PROVE  LET shown == Least(n, Len(p)) IN
         SubSeq(p, Len(p) - shown + 1, Len(p)) = Upto(n - shown, n)
<1> DEFINE s == Least(n, Len(p))
           m == Len(p)
           s1 == SubSeq(p, m - s + 1, m)
           s2 == Upto(n - s, n)
<1>1. s \in Nat /\ m \in Nat /\ s <= n /\ s <= m /\ n - s \in Nat /\ n - (n - s) = s
  BY DEF Least
<1>2. s2 \in Seq(Nat) /\ Len(s2) = s /\ \A i \in 1 .. s : s2[i] = (n - s) + i
  <2> DEFINE d == n - s
  <2>1. d \in Nat /\ d <= n /\ n - d = s  BY <1>1
  <2> HIDE DEF d
  <2>2. /\ Upto(d, n) \in Seq(Nat) /\ Len(Upto(d, n)) = n - d
        /\ \A i \in 1 .. n - d : Upto(d, n)[i] = d + i
    BY <2>1, UptoIs
  <2> QED  BY <2>1, <2>2 DEF d
<1>3. \A k \in 0 .. s - 1 : p[m - k] = n - k
  BY DEF EndsIn
<1> HIDE DEF s, m, s2
<1>4. s1 \in Seq(Nat) /\ Len(s1) = s /\ \A i \in 1 .. s : s1[i] = p[m - s + i]
  <2>1. /\ m - s + 1 \in 1 .. m + 1 /\ m \in m - s .. m /\ m - (m - s + 1) + 1 = s
    BY <1>1
  <2>2. /\ SubSeq(p, m - s + 1, m) \in Seq(Nat) /\ Len(SubSeq(p, m - s + 1, m)) = s
    BY <1>1, <2>1 DEF m
  <2>3. \A i \in 1 .. s : SubSeq(p, m - s + 1, m)[i] = p[m - s + i]
    BY <1>1, <2>1 DEF m
  <2> QED  BY <2>2, <2>3
<1> HIDE DEF s1
<1>5. ASSUME NEW i \in 1 .. s PROVE s1[i] = s2[i]
  <2>1. s - i \in 0 .. s - 1 /\ m - (s - i) = m - s + i /\ n - (s - i) = (n - s) + i  BY <1>1
  <2>2. p[m - (s - i)] = n - (s - i)  BY <2>1, <1>3
  <2> QED  BY <2>1, <2>2, <1>2, <1>4
<1>6. s1 = s2  BY <1>2, <1>4, <1>5, SeqEqual
<1> QED  BY <1>6 DEF s1, s2, s, m

\* The invariant of the page.
FlexInv ==
  /\ cursor \in 0 .. Length /\ popped \in 0 .. cursor
  /\ emitted = Upto(popped, cursor)
  /\ gran \in Granularities
  /\ produced \in Seq(Nat) /\ EndsIn(produced, popped)
  /\ Len(produced) <= (IF Cap < Length THEN Length ELSE Cap)

\* It holds what is stated of the page.
LEMMA FlexInvIsSound == FlexInv => TextComesWhole
<1> SUFFICES ASSUME FlexInv PROVE TextComesWhole
  OBVIOUS
<1> USE FlexAssumption
<1>1. popped \in Nat /\ cursor \in Nat /\ popped <= cursor  BY DEF FlexInv
<1>2. Len(emitted) = cursor - popped  BY <1>1, UptoIs DEF FlexInv
<1>3. LET shown == Least(popped, Len(produced)) IN
      SubSeq(produced, Len(produced) - shown + 1, Len(produced)) = Upto(popped - shown, popped)
  BY <1>1, EndsInIs DEF FlexInv
<1> QED  BY <1>1, <1>2, <1>3 DEF FlexInv, TextComesWhole

\* The numbers of a page that is in order
LEMMA FlexNumbers ==
  ASSUME FlexInv
  PROVE  /\ Length \in Nat /\ cursor \in Nat /\ popped \in Nat
         /\ popped <= cursor /\ cursor <= Length
BY FlexAssumption DEF FlexInv

\* Nothing lies between a place and itself.
LEMMA NoneUpto == Upto(0, 0) = <<>>
BY DEF Upto

\* Every page ends in nothing.
LEMMA FreshInv ==
  ASSUME NEW p \in Seq(Nat)
  PROVE  EndsIn(p, 0)
BY DEF EndsIn, Least

\* So does the empty one.
LEMMA NothingShown ==
  /\ <<>> \in Seq(Nat) /\ Len(<<>>) <= (IF Cap < Length THEN Length ELSE Cap) /\ EndsIn(<<>>, 0)
  /\ 0 \in 0 .. Length /\ 0 \in 0 .. 0
<1>1. <<>> \in Seq(Nat) /\ Len(<<>>) = 0  OBVIOUS
<1>2. Len(<<>>) <= (IF Cap < Length THEN Length ELSE Cap)  BY <1>1, FlexAssumption
<1>3. EndsIn(<<>>, 0)  BY <1>1, FreshInv
<1>4. 0 \in 0 .. Length /\ 0 \in 0 .. 0  BY FlexAssumption
<1> QED  BY <1>1, <1>2, <1>3, <1>4

\* The page begins in the invariant.
LEMMA FlexInitInv == FlexInit => FlexInv
<1> SUFFICES ASSUME FlexInit PROVE FlexInv
  OBVIOUS
<1>1. /\ cursor = 0 /\ emitted = <<>> /\ popped = 0 /\ gran = "char" /\ produced = <<>>
  BY DEF FlexInit, FreshText
<1>2. gran \in Granularities  BY <1>1 DEF Granularities
<1> QED  BY <1>1, <1>2, NoneUpto, NothingShown DEF FlexInv

\* The end of the word lies ahead.
LEMMA WordEndAhead ==
  ASSUME FlexInv PROVE WordEnd \in cursor .. Length
<1> DEFINE ends == {s \in Spaces : s > cursor}
<1> USE FlexAssumption
<1>1. CASE ends = {}
  BY <1>1, FlexNumbers DEF WordEnd
<1>2. CASE ends # {}
  <2>1. ends \subseteq Nat /\ \A s \in ends : s \in cursor .. Length
    <3>1. \A s \in Spaces : s \in Nat /\ s <= Length  BY FlexNumbers
    <3>2. ASSUME NEW s \in ends PROVE s \in Nat /\ s \in cursor .. Length
      <4>1. s \in Spaces /\ s > cursor  OBVIOUS
      <4>2. s \in Nat /\ s <= Length  BY <3>1, <4>1
      <4> QED  BY <4>1, <4>2, FlexNumbers
    <3> QED  BY <3>2
  <2>2. \E s \in ends : \A t \in ends : s <= t  BY <1>2, <2>1, LeastNumber, Zenon
  <2>3. (CHOOSE s \in ends : \A t \in ends : s <= t) \in ends  BY <2>2, Zenon
  <2> QED  BY <1>2, <2>1, <2>3 DEF WordEnd
<1> QED  BY <1>1, <1>2

\* What is handed on continues what was.
LEMMA FlexEmits ==
  ASSUME FlexInv, NEW to \in cursor .. Length, EmitTo(to) PROVE FlexInv'
<1> USE FlexAssumption
<1>0. to \in Nat /\ to <= Length /\ cursor <= to  BY FlexNumbers
<1>1. emitted' = Upto(popped, to)
  <2>1. emitted' = Upto(popped, cursor) \o Upto(cursor, to)  BY DEF FlexInv, EmitTo
  <2> QED  BY <1>0, <2>1, FlexNumbers, UptoGrows
<1>2. to \in 0 .. Length /\ popped \in 0 .. to  BY <1>0, FlexNumbers
<1> QED  BY <1>1, <1>2 DEF FlexInv, EmitTo

\* What the page keeps is its end, and with a new text it is not longer than the page.
LEMMA KeptIs ==
  ASSUME FlexInv, NEW t \in Seq(Nat)
  PROVE  /\ Kept(t) \in Seq(Nat) /\ Len(Kept(t)) <= Len(produced)
         /\ Kept(t) # <<>> => Len(Kept(t)) + Len(t) <= Cap
         /\ \A i \in 0 .. Len(Kept(t)) - 1 : Kept(t)[Len(Kept(t)) - i] = produced[Len(produced) - i]
<1> USE FlexAssumption
<1> DEFINE m == Len(produced)
           over == m + Len(t) - Cap
<1>1. produced \in Seq(Nat) /\ m \in Nat /\ Len(t) \in Nat /\ over \in Int
  BY DEF FlexInv
<1>2. CASE over <= 0
  BY <1>1, <1>2 DEF Kept
<1>3. CASE ~ (over <= 0) /\ over >= m
  BY <1>1, <1>3 DEF Kept
<1>4. CASE ~ (over <= 0) /\ ~ (over >= m)
  <2> DEFINE s1 == SubSeq(produced, over + 1, m)
  <2>1. Kept(t) = s1  BY <1>4 DEF Kept
  <2>2. over \in 1 .. m - 1 /\ m - over + Len(t) = Cap /\ m - over <= m  BY <1>1, <1>4
  <2> HIDE DEF over
  <2>3. s1 \in Seq(Nat) /\ Len(s1) = m - over /\ \A i \in 1 .. m - over : s1[i] = produced[over + i]
    <3>1. over \in 0 .. m  BY <1>1, <2>2
    <3>2. s1 = SubSeq(produced, over + 1, Len(produced))  OBVIOUS
    <3> HIDE DEF s1
    <3>3. /\ s1 \in Seq(Nat) /\ Len(s1) = Len(produced) - over
          /\ \A i \in 1 .. Len(s1) : s1[i] = produced[over + i]
      BY <1>1, <3>1, <3>2, TailIs, SMTT(30)
    <3> QED  BY <3>3
  <2> HIDE DEF s1
  <2>4. \A i \in 0 .. m - over - 1 :
          m - over - i \in 1 .. m - over /\ over + (m - over - i) = m - i
    BY <1>1, <2>2
  <2>5. \A i \in 0 .. m - over - 1 : s1[m - over - i] = produced[m - i]
    BY <2>3, <2>4
  <2> QED  BY <1>1, <2>1, <2>2, <2>3, <2>5
<1> QED  BY <1>2, <1>3, <1>4

\* What is taken keeps the invariant.
LEMMA FlexTakes == ASSUME FlexInv, pumpFlexing PROVE FlexInv'
<1> USE FlexAssumption
<1> DEFINE e == cursor - popped
           c == Kept(emitted)
           m == Len(c)
           p == c \o emitted
<1>1. /\ popped \in Nat /\ cursor \in Nat /\ popped <= cursor /\ cursor <= Length /\ e \in Nat
      /\ emitted \in Seq(Nat) /\ Len(emitted) = e /\ \A i \in 1 .. e : emitted[i] = popped + i
  <2>1. /\ popped \in Nat /\ cursor \in Nat /\ popped <= cursor /\ cursor <= Length /\ e \in Nat
    BY FlexNumbers
  <2>2. emitted = Upto(popped, cursor)  BY DEF FlexInv
  <2> QED  BY <2>1, <2>2, UptoIs
<1>2. /\ c \in Seq(Nat) /\ m \in Nat /\ m <= Len(produced) /\ Len(produced) \in Nat
      /\ c # <<>> => m + e <= Cap
      /\ \A i \in 0 .. m - 1 : c[m - i] = produced[Len(produced) - i]
  <2>1. produced \in Seq(Nat) /\ Len(produced) \in Nat  BY DEF FlexInv
  <2>2. /\ c \in Seq(Nat) /\ m <= Len(produced) /\ (c # <<>> => m + Len(emitted) <= Cap)
        /\ \A i \in 0 .. m - 1 : c[m - i] = produced[Len(produced) - i]
    <3> HIDE DEF e
    <3> QED  BY <1>1, KeptIs
  <2> QED  BY <1>1, <2>1, <2>2
<1> HIDE DEF c, e
<1>3. /\ p \in Seq(Nat) /\ Len(p) = m + e
      /\ \A i \in 1 .. m + e : p[i] = IF i <= m THEN c[i] ELSE emitted[i - m]
  BY <1>1, <1>2, ConcatProperties
<1> HIDE DEF p, m
<1>4. EndsIn(p, cursor)
  <2> SUFFICES ASSUME NEW i \in 0 .. Least(cursor, Len(p)) - 1 PROVE p[Len(p) - i] = cursor - i
    BY Zenon DEF EndsIn
  <2>0. i \in Nat /\ i < cursor /\ i < m + e /\ Len(p) = m + e  BY <1>1, <1>2, <1>3 DEF Least
  <2>8. Len(p) - i = m + e - i  BY <2>0, <1>1, <1>2
  <2>1. CASE i < e
    <3>1. /\ m + e - i \in 1 .. m + e /\ ~ (m + e - i <= m) /\ (m + e - i) - m = e - i
          /\ e - i \in 1 .. e /\ popped + (e - i) = cursor - i
      BY <1>1, <1>2, <2>0, <2>1 DEF e
    <3>2. p[m + e - i] = emitted[e - i]  BY <3>1, <1>3
    <3>3. emitted[e - i] = popped + (e - i)  BY <3>1, <1>1
    <3>4. p[Len(p) - i] = p[m + e - i]  BY <2>8, Zenon
    <3>5. popped + (e - i) = cursor - i  BY <3>1
    <3> QED  BY <3>2, <3>3, <3>4, <3>5, Zenon
  <2>2. CASE ~ (i < e)
    <3>1. /\ m + e - i \in 1 .. m + e /\ m + e - i <= m /\ i - e \in 0 .. m - 1
          /\ m + e - i = m - (i - e) /\ popped - (i - e) = cursor - i
          /\ i - e \in 0 .. Least(popped, Len(produced)) - 1
      BY <1>1, <1>2, <2>0, <2>2 DEF e, Least
    <3>2. p[m + e - i] = c[m - (i - e)]  BY <3>1, <1>3
    <3>3. c[m - (i - e)] = produced[Len(produced) - (i - e)]  BY <3>1, <1>2
    <3>4. produced[Len(produced) - (i - e)] = popped - (i - e)
      BY <3>1 DEF FlexInv, EndsIn
    <3>5. p[Len(p) - i] = p[m + e - i]  BY <2>8, Zenon
    <3>6. popped - (i - e) = cursor - i  BY <3>1
    <3> QED  BY <3>2, <3>3, <3>4, <3>5, <3>6, Zenon
  <2> QED  BY <2>1, <2>2
<1>5. produced' = p /\ popped' = cursor /\ cursor' = cursor /\ emitted' = <<>> /\ gran' = gran
  BY <1>1 DEF pumpFlexing, p, c, e
<1>6. emitted' = Upto(cursor, cursor)
  <2>1. 1 .. cursor - cursor = {}  BY <1>1
  <2>2. Upto(cursor, cursor) = <<>>  BY <2>1 DEF Upto
  <2> QED  BY <2>2, <1>5
<1>7. m + e <= (IF Cap < Length THEN Length ELSE Cap)
  <2>1. CASE c = <<>>
    BY <2>1, <1>1 DEF m, e
  <2>2. CASE c # <<>>
    BY <2>2, <1>1, <1>2
  <2> QED  BY <2>1, <2>2
<1> QED  BY <1>1, <1>3, <1>4, <1>5, <1>6, <1>7 DEF FlexInv

\* So does another granularity.
LEMMA FlexKeeps ==
  ASSUME FlexInv, gran' \in Granularities, UNCHANGED <<cursor, emitted, produced, popped>>
  PROVE  FlexInv'
BY DEF FlexInv

\* Every operation keeps the invariant.
LEMMA FlexStepInv == FlexInv /\ FlexNext => FlexInv'
<1> SUFFICES ASSUME FlexInv, FlexNext PROVE FlexInv'
  OBVIOUS
<1> USE FlexAssumption
<1>0. cursor \in 0 .. Length /\ cursor \in cursor .. Length /\ gran \in Granularities
  BY DEF FlexInv
<1>1. \A n \in Nat : Reach(n) \in cursor .. Length  BY <1>0 DEF Reach, Least
<1>2. CASE KeyTypes
  <2>1. WordEnd \in cursor .. Length /\ Reach(NChars) \in cursor .. Length
        /\ Reach(1) \in cursor .. Length
    BY <1>1, WordEndAhead, FlexAssumption
  <2>2. EmitTo(WordEnd) \/ EmitTo(Reach(NChars)) \/ EmitTo(Reach(1))
    BY <1>0, <1>2, Zenon DEF KeyTypes, Granularities
  <2> QED  BY <2>1, <2>2, FlexEmits, Zenon
<1>3. CASE FrameTypes
  BY <1>1, <1>3, FlexEmits DEF FrameTypes
<1>4. CASE SetGranularity
  BY <1>4, FlexKeeps DEF SetGranularity
<1>5. CASE FlexRestart
  <2>1. /\ cursor' = 0 /\ emitted' = <<>> /\ popped' = 0 /\ UNCHANGED <<gran, produced>>
    BY <1>5 DEF FlexRestart, FreshText
  <2> QED  BY <2>1, NoneUpto, NothingShown, FreshInv DEF FlexInv
<1>6. CASE Load
  <2>1. /\ cursor' = 0 /\ emitted' = <<>> /\ popped' = 0 /\ produced' = <<>> /\ gran' = gran
    BY <1>6 DEF Load, FreshText
  <2> QED  BY <1>0, <2>1, NoneUpto, NothingShown DEF FlexInv
<1>7. CASE pumpFlexing
  BY <1>7, FlexTakes
<1>8. CASE FlexLifeKey
  BY <1>0, <1>8, FlexKeeps DEF FlexLifeKey
<1> QED
  BY <1>2, <1>3, <1>4, <1>5, <1>6, <1>7, <1>8 DEF FlexNext

\* It holds while the page waits.
LEMMA FlexStays == FlexInv /\ UNCHANGED flexVars => FlexInv'
BY DEF FlexInv, flexVars

\* The page shows the end of the text streamed to it, whole and in order, for every text, page and
\* granularity (FlexingEngine, pumpFlexing of main.cpp).
THEOREM PageShowsText == FlexSpec => []TextComesWhole
<1> QED  BY FlexInitInv, FlexStepInv, FlexStays, FlexInvIsSound, PTL DEF FlexSpec

(***************************************************************************)
(* The Chaos Laboratory.                                                   *)
(***************************************************************************)
\* What a request may be at any time.
Outcomes == Reported \cup {"none", "queued"}

\* What the variables hold.
LabTypes ==
  /\ alive \subseteq Apps /\ front \in Windows
  /\ requests \in 0 .. MaxRequests
  /\ outcome \in [1 .. MaxRequests -> Outcomes]
  /\ labTyped \in Seq(Windows \X (1 .. requests) \X (1 .. Chunks))

\* How far the text that is under way was typed, and who types it
NothingTyped == \A i \in DOMAIN labTyped : labTyped[i][2] < requests
\* Of the newest text the first n chunks were typed.
TypedTo(n) ==
  IF n = 0 THEN NothingTyped
  ELSE labTyped # <<>> /\ labTyped[Len(labTyped)][2] = requests /\ labTyped[Len(labTyped)][3] = n

\* The injection under way is of the newest request, which waits for it.
InjectionIsLast ==
  injection # Idle =>
    /\ requests # 0 /\ outcome[requests] = "queued"
    /\ injection.request = requests /\ injection.offset \in 0 .. Chunks - 1
    /\ injection = [request |-> requests, offset |-> injection.offset,
                    target |-> injection.target]
    /\ TypedTo(injection.offset)

\* So is the emission under way, and it is of the chunk that is next.
EmissionIsLast ==
  ~ Quiet =>
    /\ requests # 0 /\ outcome[requests] \notin Reported
    /\ \/ /\ injection # Idle
          /\ emission = <<requests, injection.offset + 1, injection.offset + 1>>
       \/ injection = Idle /\ emission = <<requests, 1, Chunks>> /\ NothingTyped

\* What has not been asked for has no outcome.
NothingBegun == \A r \in requests + 1 .. MaxRequests : outcome[r] = "none"

\* The chunks of a text come from its first on, in order and once.
TypedInOrder == \A i \in DOMAIN labTyped : ComesInOrder(i)
\* The last chunk of a text was typed.
Ends(r) == \E i \in DOMAIN labTyped : labTyped[i][2] = r /\ labTyped[i][3] = Chunks
\* A text was sent when its last chunk was typed.
SentWhole == \A r \in 1 .. requests : outcome[r] = "sent" <=> Ends(r)

\* The invariant of the laboratory.
LabInv ==
  LabTypes /\ InjectionIsLast /\ EmissionIsLast /\ NothingBegun /\ TypedInOrder /\ SentWhole

\* It holds what is stated of the laboratory.
LEMMA LabInvIsSound == LabInv => LabIsSound
<1> SUFFICES ASSUME LabInv PROVE LabIsSound
  OBVIOUS
<1>1. \A r : Ends(r) <=> \E t \in ToSet(labTyped) : t[2] = r /\ t[3] = Chunks
  BY DEF Ends, ToSet
<1> QED  BY <1>1, Zenon DEF LabInv, LabIsSound, SentWhole, TypedInOrder

\* The laboratory begins in it.
LEMMA LabInitInv == LabInit => LabInv
<1> SUFFICES ASSUME LabInit PROVE LabInv
  OBVIOUS
<1>1. LabTypes
  <2>1. outcome \in [1 .. MaxRequests -> Outcomes]  BY DEF LabInit, Outcomes
  <2>2. labTyped \in Seq(Windows \X (1 .. requests) \X (1 .. Chunks))  BY DEF LabInit
  <2>3. requests \in 0 .. MaxRequests  BY LabAssumption DEF LabInit
  <2> QED  BY <2>1, <2>2, <2>3 DEF LabInit, LabTypes
<1>2. InjectionIsLast  BY DEF LabInit, InjectionIsLast
<1>3. EmissionIsLast  BY DEF LabInit, EmissionIsLast, Quiet
<1>4. TypedInOrder /\ SentWhole
  <2>1. requests = 0 /\ labTyped = <<>>  BY DEF LabInit
  <2> QED  BY <2>1 DEF TypedInOrder, SentWhole
<1>5. NothingBegun  BY LabAssumption DEF LabInit, NothingBegun
<1> QED  BY <1>1, <1>2, <1>3, <1>4, <1>5 DEF LabInv

\* What is typed, asked and reported stays, and nothing is under way but what was.
LEMMA LabKeeps ==
  ASSUME LabInv, alive' \subseteq Apps, front' \in Windows,
         injection' \in {injection, Idle},
         emission' = emission, emission # <<>> => injection' = injection,
         UNCHANGED <<requests, labTyped, outcome>>
  PROVE  LabInv'
<1>1. LabTypes'  BY DEF LabInv, LabTypes, Windows
<1>2. InjectionIsLast'
  BY Zenon DEF LabInv, InjectionIsLast, TypedTo, NothingTyped
<1>3. EmissionIsLast'
  BY Zenon DEF LabInv, EmissionIsLast, Quiet, NothingTyped
<1>4. (TypedInOrder /\ SentWhole /\ NothingBegun)'
  BY DEF LabInv, TypedInOrder, SentWhole, NothingBegun, ComesInOrder, Ends
<1> QED  BY <1>1, <1>2, <1>3, <1>4 DEF LabInv

\* A text is asked for, and what became of the last one stays as it is.
LEMMA LabAsks ==
  ASSUME NEW o \in {"untargeted", "denied", "queued", "none"}, LabInv, Quiet,
         requests < MaxRequests, requests' = requests + 1,
         alive' = alive, front' \in Windows, labTyped' = labTyped,
         outcome' = [outcome EXCEPT ![requests + 1] = o],
         \/ injection' = Idle /\ emission' = <<>>
         \/ /\ injection' = [request |-> requests + 1, offset |-> 0, target |-> target]
            /\ emission' = <<>> /\ o = "queued"
         \/ injection' = Idle /\ emission' = <<requests + 1, 1, Chunks>> /\ o = "none"
  PROVE  LabInv'
<1> USE LabAssumption DEF Outcomes, Reported
<1>0. /\ MaxRequests \in Nat /\ requests \in Nat /\ Chunks \in Nat \ {0}
      /\ requests' \in 1 .. MaxRequests /\ outcome \in [1 .. MaxRequests -> Outcomes]
      /\ outcome'[requests'] = o
      /\ \A r \in 1 .. MaxRequests : r # requests' => outcome'[r] = outcome[r]
  BY DEF LabInv, LabTypes
<1>1. LabTypes'
  <2>1. labTyped' \in Seq(Windows \X (1 .. requests') \X (1 .. Chunks))
    <3>1. (Windows \X (1 .. requests) \X (1 .. Chunks))
          \subseteq (Windows \X (1 .. requests') \X (1 .. Chunks))
      BY <1>0
    <3> QED  BY <3>1, SeqMonotonic DEF LabInv, LabTypes
  <2>2. outcome' \in [1 .. MaxRequests -> Outcomes]  BY <1>0
  <2> QED  BY <1>0, <2>1, <2>2 DEF LabInv, LabTypes, Windows
<1>2. NothingTyped'
  <2> SUFFICES ASSUME NEW i \in DOMAIN labTyped PROVE labTyped[i][2] < requests'
    BY DEF NothingTyped
  <2>1. labTyped[i] \in Windows \X (1 .. requests) \X (1 .. Chunks)  BY DEF LabInv, LabTypes
  <2> QED  BY <2>1, <1>0
<1>3. InjectionIsLast'
  BY <1>0, <1>2 DEF InjectionIsLast, TypedTo
<1>4. EmissionIsLast'
  BY <1>0, <1>2 DEF EmissionIsLast, Quiet, Reported
<1>5. NothingBegun'
  BY <1>0 DEF LabInv, NothingBegun
<1>6. TypedInOrder'  BY DEF LabInv, TypedInOrder, ComesInOrder
<1>7. SentWhole'
  <2> SUFFICES ASSUME NEW r \in 1 .. requests' PROVE outcome'[r] = "sent" <=> Ends(r)'
    BY Zenon DEF SentWhole
  <2>1. Ends(r)' <=> Ends(r)  BY DEF Ends
  <2>2. CASE r = requests'
    <3>1. ~ Ends(r)'  BY <2>2, <1>2, <1>0 DEF Ends, NothingTyped
    <3> QED  BY <3>1, <2>2, <1>0
  <2>3. CASE r # requests'
    <3>1. r \in 1 .. requests /\ outcome'[r] = outcome[r]  BY <2>3, <1>0
    <3> QED  BY <2>1, <3>1 DEF LabInv, SentWhole
  <2> QED  BY <2>2, <2>3
<1> QED  BY <1>1, <1>3, <1>4, <1>5, <1>6, <1>7 DEF LabInv

\* The timer that hands on the next chunk keeps the invariant.
LEMMA LabPumps == LabInv /\ pumpInjection => LabInv'
<1> SUFFICES ASSUME LabInv, pumpInjection PROVE LabInv'
  OBVIOUS
<1> USE LabAssumption DEF Outcomes, Reported
<1>0. /\ MaxRequests \in Nat /\ requests \in Nat /\ Chunks \in Nat \ {0}
      /\ requests \in 1 .. MaxRequests /\ outcome \in [1 .. MaxRequests -> Outcomes]
      /\ outcome[requests] = "queued"
      /\ injection.request = requests
  BY DEF LabInv, LabTypes, InjectionIsLast, pumpInjection
<1>1. CASE injection' = injection
  <2>1. /\ emission' = <<injection.request, injection.offset + 1, injection.offset + 1>>
        /\ UNCHANGED <<alive, front, requests, labTyped, outcome>>
    BY <1>0, <1>1 DEF pumpInjection, GivenUp, LabInv, InjectionIsLast
  <2>2. InjectionIsLast'
    BY <1>1, <2>1, Zenon DEF LabInv, InjectionIsLast, TypedTo, NothingTyped
  <2>3. EmissionIsLast'
    BY <1>0, <1>1, <2>1 DEF pumpInjection, EmissionIsLast, Quiet, Reported
  <2>4. (LabTypes /\ TypedInOrder /\ SentWhole /\ NothingBegun)'
    BY <2>1 DEF LabInv, LabTypes, TypedInOrder, SentWhole, NothingBegun, ComesInOrder, Ends
  <2> QED  BY <2>2, <2>3, <2>4 DEF LabInv
<1>2. CASE injection' # injection
  <2>1. /\ emission' = <<>> /\ injection' = Idle
        /\ outcome' = [outcome EXCEPT ![requests] = "lost"]
        /\ UNCHANGED <<alive, front, requests, labTyped>>
    BY <1>0, <1>2 DEF pumpInjection, GivenUp, Report, Quiet
  <2>2. /\ outcome' \in [1 .. MaxRequests -> Outcomes] /\ outcome'[requests] = "lost"
        /\ \A r \in 1 .. MaxRequests : r # requests => outcome'[r] = outcome[r]
    BY <1>0, <2>1
  <2>3. LabTypes'  BY <2>1, <2>2 DEF LabInv, LabTypes
  <2>4. InjectionIsLast' /\ EmissionIsLast'
    BY <2>1 DEF InjectionIsLast, EmissionIsLast, Quiet
  <2>5. (TypedInOrder /\ NothingBegun)'
    BY <1>0, <2>1, <2>2 DEF LabInv, TypedInOrder, NothingBegun, ComesInOrder
  <2>6. SentWhole'
    <3>1. \A r \in 1 .. requests : Ends(r)' <=> Ends(r)  BY <2>1 DEF Ends
    <3>2. outcome[requests] # "sent" /\ outcome'[requests] # "sent"  BY <1>0, <2>2
    <3> QED  BY <1>0, <2>1, <2>2, <3>1, <3>2 DEF LabInv, SentWhole
  <2> QED  BY <2>3, <2>4, <2>5, <2>6 DEF LabInv
<1> QED  BY <1>1, <1>2

\* The rest of the text that is under way is typed behind what was typed of it.
NewestText == \A i \in Len(labTyped) + 1 .. Len(labTyped') : labTyped'[i][2] = requests

\* A chunk that is typed is the next of the newest text.
LEMMA LabTypesOn ==
  ASSUME NEW a, NEW b, LabInv, requests # 0, a \in 1 .. b, b \in 1 .. Chunks,
         emission = <<requests, a, b>>, TypedTo(a - 1),
         outcome[requests] \notin Reported, emitForChaosLab,
         injection' = Idle \/ injection' = [request |-> requests, offset |-> b,
                                           target |-> injection'.target]
  PROVE  LabInv' /\ NewestText
<1> USE LabAssumption DEF Outcomes, Reported
<1> DEFINE k == b - a + 1
           more == [i \in 1 .. k |-> <<front, requests, a + i - 1>>]
           n == Len(labTyped)
           E == Windows \X (1 .. requests) \X (1 .. Chunks)
<1>0. /\ MaxRequests \in Nat /\ requests \in 1 .. MaxRequests /\ Chunks \in Nat \ {0}
      /\ outcome \in [1 .. MaxRequests -> Outcomes] /\ labTyped \in Seq(E) /\ n \in Nat
      /\ a \in Nat \ {0} /\ b \in Nat \ {0} /\ a <= b /\ b <= Chunks
  BY DEF LabInv, LabTypes
<1>1. labTyped' = labTyped \o more /\ UNCHANGED <<alive, front, requests>> /\ emission' = <<>>
  BY DEF emitForChaosLab
<1>2. more \in Seq(E) /\ Len(more) = k /\ k \in Nat \ {0}
      /\ \A i \in 1 .. k : more[i] = <<front, requests, a + i - 1>>
  <2>1. \A i \in 1 .. k : <<front, requests, a + i - 1>> \in E
    BY <1>0 DEF LabInv, LabTypes
  <2>2. k \in Nat \ {0}  BY <1>0
  <2>3. more \in [1 .. k -> E]  BY <2>1, Zenon
  <2>4. \A i \in 1 .. k : more[i] = <<front, requests, a + i - 1>>  BY Zenon
  <2> HIDE DEF E, k, more
  <2>5. more \in Seq(E) /\ Len(more) = k  BY <2>2, <2>3
  <2> QED  BY <2>2, <2>4, <2>5
<1> HIDE DEF more, n, E
<1>2a. /\ n \in Nat /\ k \in Nat \ {0} /\ a \in Nat \ {0} /\ b \in Nat \ {0} /\ Chunks \in Nat
       /\ k = b - a + 1 /\ b <= Chunks
  BY <1>0, <1>2
<1> HIDE DEF k
<1>3. /\ labTyped' \in Seq(E) /\ Len(labTyped') = n + k
      /\ \A i \in 1 .. n : labTyped'[i] = labTyped[i]
      /\ \A i \in n + 1 .. n + k : labTyped'[i] = <<front, requests, a + (i - n) - 1>>
  <2>1. /\ labTyped' \in Seq(E) /\ Len(labTyped') = n + k
        /\ \A i \in 1 .. n : labTyped'[i] = labTyped[i]
        /\ \A i \in n + 1 .. n + k : labTyped'[i] = more[i - n]
    <3>1. labTyped \in Seq(E) /\ more \in Seq(E) /\ Len(labTyped) = n /\ Len(more) = k
      BY <1>0, <1>2 DEF n
    <3>2. /\ labTyped \o more \in Seq(E) /\ Len(labTyped \o more) = n + k
          /\ \A i \in 1 .. n + k :
               (labTyped \o more)[i] = IF i <= n THEN labTyped[i] ELSE more[i - n]
      BY <3>1, ConcatProperties
    <3>3. \A i \in 1 .. n : i \in 1 .. n + k /\ i <= n  BY <1>2a
    <3>4. \A i \in n + 1 .. n + k : i \in 1 .. n + k /\ ~ (i <= n)  BY <1>2a
    <3> QED  BY <1>1, <3>2, <3>3, <3>4
  <2>2. \A i \in n + 1 .. n + k : i - n \in 1 .. k  BY <1>0, <1>2
  <2> QED  BY <2>1, <2>2, <1>2
<1>3a. n + k \in 1 .. n + k /\ n + k # 0 /\ labTyped'[n + k] = <<front, requests, b>>
  <2> DEFINE i == n + k
  <2>1. i \in n + 1 .. n + k /\ i \in 1 .. n + k /\ i # 0 /\ a + (i - n) - 1 = b  BY <1>2a
  <2> HIDE DEF i
  <2>2. labTyped'[i] = <<front, requests, b>>  BY <2>1, <1>3
  <2> QED  BY <2>1, <2>2 DEF i
<1>4. \A i \in 1 .. n : labTyped[i][2] \in 1 .. requests /\ labTyped[i][3] \in 1 .. Chunks
  BY <1>0 DEF n, E
<1>5. LabTypes'
  <2>1. E = (Windows \X (1 .. requests) \X (1 .. Chunks))'  BY <1>1 DEF E
  <2>2. outcome' \in [1 .. MaxRequests -> Outcomes]
    BY <1>0 DEF emitForChaosLab, Report
  <2>3. labTyped' \in Seq(Windows \X (1 .. requests) \X (1 .. Chunks))'  BY <2>1, <1>3, Zenon
  <2> QED  BY <1>1, <2>2, <2>3 DEF LabInv, LabTypes
<1>6. TypedInOrder'
  <2> SUFFICES ASSUME NEW i \in 1 .. n + k PROVE ComesInOrder(i)'
    BY <1>3, <1>0 DEF TypedInOrder, E
  <2>1. CASE i <= n
    <3>1. ComesInOrder(i)  BY <2>1, <1>0 DEF LabInv, TypedInOrder, n, E
    <3>2. labTyped'[i] = labTyped[i] /\ \A j \in 1 .. i - 1 : labTyped'[j] = labTyped[j]
      BY <2>1, <1>0, <1>3
    <3>3. i > 1 => i - 1 \in 1 .. i - 1  BY <1>0
    <3> QED  BY <3>1, <3>2, <3>3 DEF ComesInOrder
  <2>2. CASE i = n + 1 /\ a = 1
    <3>1. NothingTyped  BY <2>2 DEF TypedTo
    <3>2. labTyped'[i] = <<front, requests, 1>>  BY <2>2, <1>0, <1>3
    <3>3. \A j \in 1 .. i - 1 : labTyped'[j][2] < requests
      <4>1. i - 1 = n /\ DOMAIN labTyped = 1 .. n  BY <2>2, <1>0 DEF n, E
      <4> QED  BY <4>1, <1>3, <3>1 DEF NothingTyped
    <3> QED  BY <3>2, <3>3 DEF ComesInOrder
  <2>3. CASE i = n + 1 /\ a # 1
    <3>1. n # 0 /\ labTyped[n][2] = requests /\ labTyped[n][3] = a - 1
      BY <2>3, <1>0 DEF TypedTo, n, E
    <3>2. labTyped'[i] = <<front, requests, a>> /\ labTyped'[i - 1] = labTyped[n] /\ i > 1
      <4>1. i \in n + 1 .. n + k /\ a + (i - n) - 1 = a /\ i - 1 = n /\ n \in 1 .. n /\ i > 1
        <5> QED  BY <2>3, <1>2a, <3>1
      <4> QED  BY <4>1, <1>3
    <3> QED  BY <2>3, <1>0, <3>1, <3>2 DEF ComesInOrder
  <2>4. CASE i > n + 1
    <3>1. /\ labTyped'[i] = <<front, requests, a + (i - n) - 1>>
          /\ labTyped'[i - 1] = <<front, requests, a + (i - 1 - n) - 1>>
          /\ a + (i - n) - 1 # 1 /\ a + (i - 1 - n) - 1 = (a + (i - n) - 1) - 1 /\ i > 1
      <4>1. i \in n + 1 .. n + k /\ i - 1 \in n + 1 .. n + k  BY <2>4, <1>0, <1>2
      <4>2. a + (i - n) - 1 # 1 /\ a + (i - 1 - n) - 1 = (a + (i - n) - 1) - 1 /\ i > 1
        <5> QED  BY <2>4, <1>2a
      <4> QED  BY <4>1, <4>2, <1>3
    <3> QED  BY <2>4, <1>0, <3>1 DEF ComesInOrder
  <2> QED  BY <1>0, <2>1, <2>2, <2>3, <2>4
<1>7. DOMAIN labTyped = 1 .. n /\ DOMAIN labTyped' = 1 .. n + k
  BY <1>0, <1>3 DEF n, E
<1>8. ~ Ends(requests)
  BY <1>0 DEF LabInv, SentWhole
<1>9. ASSUME NEW r \in 1 .. requests
      PROVE  Ends(r)' <=> Ends(r) \/ (r = requests /\ b = Chunks)
  <2>1. ASSUME Ends(r) PROVE Ends(r)'
    <3>1. PICK i \in 1 .. n : labTyped[i][2] = r /\ labTyped[i][3] = Chunks
      BY <2>1, <1>7 DEF Ends
    <3>2. i \in 1 .. n + k /\ labTyped'[i] = labTyped[i]
      <4> QED  BY <1>2a, <1>3
    <3> QED  BY <3>1, <3>2, <1>7 DEF Ends
  <2>2. ASSUME r = requests, b = Chunks PROVE Ends(r)'
    <3>1. labTyped'[n + k] = <<front, r, Chunks>>  BY <1>3a, <2>2
    <3> QED  BY <3>1, <1>3a, <1>7 DEF Ends
  <2>3. ASSUME Ends(r)' PROVE Ends(r) \/ (r = requests /\ b = Chunks)
    <3>1. PICK i \in 1 .. n + k : labTyped'[i][2] = r /\ labTyped'[i][3] = Chunks
      BY <2>3, <1>7 DEF Ends
    <3>2. CASE i \in 1 .. n
      BY <3>1, <3>2, <1>3, <1>7 DEF Ends
    <3>3. CASE i \notin 1 .. n
      <4>1. i \in n + 1 .. n + k
        <5> QED  BY <3>3, <1>2a
      <4>2. labTyped'[i] = <<front, requests, a + (i - n) - 1>>  BY <4>1, <1>3
      <4>3. a + (i - n) - 1 <= b  BY <4>1, <1>2a
      <4>4. r = requests /\ a + (i - n) - 1 = Chunks  BY <3>1, <4>2
      <4> QED  BY <4>3, <4>4, <1>0
    <3> QED  BY <3>2, <3>3
  <2> QED  BY <2>1, <2>2, <2>3
<1>10. /\ b # Chunks => outcome' = outcome
       /\ b = Chunks => /\ outcome'[requests] = "sent" /\ injection' = Idle
                        /\ \A r \in 1 .. MaxRequests : r # requests => outcome'[r] = outcome[r]
  BY <1>0 DEF emitForChaosLab, Report
<1>11. SentWhole'
  <2> SUFFICES ASSUME NEW r \in 1 .. requests PROVE outcome'[r] = "sent" <=> Ends(r)'
    BY <1>1, Zenon DEF SentWhole
  <2>1. outcome[r] = "sent" <=> Ends(r)  BY DEF LabInv, SentWhole
  <2>2. CASE b # Chunks
    BY <2>1, <2>2, <1>9, <1>10
  <2>3. CASE b = Chunks /\ r = requests
    BY <2>3, <1>9, <1>10
  <2>4. CASE b = Chunks /\ r # requests
    <3>1. outcome'[r] = outcome[r]  BY <2>4, <1>0, <1>10
    <3> QED  BY <3>1, <2>1, <2>4, <1>9
  <2> QED  BY <2>2, <2>3, <2>4
<1>12. NothingBegun'
  <2> SUFFICES ASSUME NEW r \in requests + 1 .. MaxRequests PROVE outcome'[r] = "none"
    BY <1>1 DEF NothingBegun
  <2>1. r \in 1 .. MaxRequests /\ r # requests /\ outcome[r] = "none"
    BY <1>0 DEF LabInv, NothingBegun
  <2> QED  BY <2>1, <1>10
<1>13. InjectionIsLast'
  <2> SUFFICES ASSUME injection' # Idle PROVE InjectionIsLast'
    BY DEF InjectionIsLast
  <2>1. b # Chunks /\ outcome' = outcome  BY <1>10
  <2>2. injection' = [request |-> requests, offset |-> b, target |-> injection'.target]
    OBVIOUS
  <2>3. TypedTo(b)'
    <3>1. labTyped'[n + k] = <<front, requests, b>> /\ Len(labTyped') = n + k
      BY <1>3a, <1>3
    <3>2. labTyped' # <<>>  BY <3>1, <1>3a
    <3> QED  BY <3>1, <3>2, <1>0, <1>1 DEF TypedTo
  <2>4. outcome[requests] = "queued"
    <3>1. injection # Idle
      BY <2>2, <2>1 DEF emitForChaosLab, Idle
    <3> QED  BY <3>1, Zenon DEF LabInv, InjectionIsLast
  <2> QED  BY <2>1, <2>2, <2>3, <2>4, <1>0, <1>1 DEF InjectionIsLast
<1>14. EmissionIsLast'
  BY <1>1 DEF EmissionIsLast, Quiet
<1>15. NewestText
  <2>1. Len(labTyped) = n /\ Len(labTyped') = n + k  BY <1>3 DEF n
  <2> QED  BY <2>1, <1>3 DEF NewestText
<1> QED
  BY <1>5, <1>6, <1>11, <1>12, <1>13, <1>14, <1>15 DEF LabInv

\* The emission keeps the invariant, and types of the newest text alone.
LEMMA LabEmits == LabInv /\ emitForChaosLab => LabInv' /\ NewestText
<1> SUFFICES ASSUME LabInv, emitForChaosLab PROVE LabInv' /\ NewestText
  OBVIOUS
<1>0. requests # 0 /\ outcome[requests] \notin Reported
  BY DEF LabInv, EmissionIsLast, emitForChaosLab
<1>1. CASE injection # Idle
  <2> DEFINE o == injection.offset
  <2>1. /\ emission = <<requests, o + 1, o + 1>> /\ o \in 0 .. Chunks - 1 /\ TypedTo(o)
        /\ injection = [request |-> requests, offset |-> o, target |-> injection.target]
    BY <1>1, Zenon DEF LabInv, EmissionIsLast, InjectionIsLast, emitForChaosLab
  <2>2. o + 1 \in 1 .. o + 1 /\ o + 1 \in 1 .. Chunks /\ (o + 1) - 1 = o
    BY <2>1, LabAssumption
  <2>3. \/ injection' = Idle
        \/ injection' = [request |-> requests, offset |-> o + 1, target |-> injection.target]
    <3>1. emission[3] = o + 1  BY <2>1
    <3>2. injection' = Idle \/ injection' = [injection EXCEPT !.offset = o + 1]
      BY <3>1, Zenon DEF emitForChaosLab
    <3> QED  BY <2>1, <3>2
  <2>4. \/ injection' = Idle
        \/ injection' = [request |-> requests, offset |-> o + 1, target |-> injection'.target]
    BY <2>3
  <2> HIDE DEF o
  <2> QED  BY <1>0, <2>1, <2>2, <2>4, LabTypesOn
<1>2. CASE injection = Idle
  <2>1. emission = <<requests, 1, Chunks>> /\ NothingTyped
    BY <1>2 DEF LabInv, EmissionIsLast, emitForChaosLab
  <2>2. 1 \in 1 .. Chunks /\ Chunks \in 1 .. Chunks /\ TypedTo(1 - 1)
    BY <2>1, LabAssumption DEF TypedTo
  <2>3. injection' = Idle
    BY <2>1 DEF emitForChaosLab
  <2> QED  BY <1>0, <2>1, <2>2, <2>3, LabTypesOn
<1> QED  BY <1>1, <1>2

\* Every operation keeps the invariant.
LEMMA LabStepInv == LabInv /\ LabNext => LabInv'
<1> SUFFICES ASSUME LabInv, LabNext PROVE LabInv'
  OBVIOUS
<1>0. alive \subseteq Apps /\ front \in Windows /\ Own \in Windows /\ Apps \subseteq Windows
  BY DEF LabInv, LabTypes, Windows
<1>1. CASE Open
  BY <1>0, <1>1, LabKeeps, Zenon DEF Open
<1>2. ASSUME NEW perChunk \in BOOLEAN, Send(perChunk) PROVE LabInv'
  <2>0. /\ Quiet /\ requests < MaxRequests /\ requests' = requests + 1 /\ alive' = alive
        /\ labTyped' = labTyped /\ emission = <<>>
    BY <1>2 DEF Send, Quiet
  <2>1. CASE Report(requests + 1, "untargeted") /\ injection' = Idle
             /\ UNCHANGED <<front, emission>>
    BY <1>0, <2>0, <2>1, LabAsks DEF Report
  <2>2. CASE Report(requests + 1, "denied") /\ injection' = Idle /\ UNCHANGED <<front, emission>>
    BY <1>0, <2>0, <2>2, LabAsks DEF Report
  <2>3. CASE /\ IsExternal(target) /\ front' = target
             /\ injection' = StartOf(requests + 1) /\ Report(requests + 1, "queued")
             /\ UNCHANGED emission
    BY <1>0, <2>0, <2>3, LabAsks DEF Report, IsExternal, StartOf
  <2>4. CASE /\ IsExternal(target) /\ front' = target
             /\ injection' = Idle /\ emission' = <<requests + 1, 1, Chunks>>
             /\ UNCHANGED outcome
    <3>1. requests + 1 \in requests + 1 .. MaxRequests /\ outcome[requests + 1] = "none"
      BY <2>0, LabAssumption DEF LabInv, LabTypes, NothingBegun
    <3>2. outcome' = [outcome EXCEPT ![requests + 1] = "none"]
      BY <2>4, <3>1 DEF LabInv, LabTypes
    <3> QED  BY <1>0, <2>0, <2>4, <3>2, LabAsks DEF IsExternal
  <2> QED  BY <1>2, <2>1, <2>2, <2>3, <2>4 DEF Send
<1>3. CASE pumpInjection
  BY <1>3, LabPumps
<1>4. CASE emitForChaosLab
  BY <1>4, LabEmits
<1>5. CASE Close
  BY <1>0, <1>5, LabKeeps DEF Close, Quiet
<1>6. CASE SwitchWindow
  BY <1>0, <1>6, LabKeeps DEF SwitchWindow
<1>7. CASE AppCloses
  BY <1>0, <1>7, LabKeeps DEF AppCloses
<1> QED
  BY <1>1, <1>2, <1>3, <1>4, <1>5, <1>6, <1>7 DEF LabNext

\* It holds while the laboratory waits.
LEMMA LabStays == LabInv /\ UNCHANGED labVars => LabInv'
BY LabKeeps, Zenon DEF LabInv, LabTypes, labVars

\* Nothing is typed for a text whose end was reported.
LEMMA LabEndsOnce ==
  ASSUME LabInv, LabNext
  PROVE  \A i \in Len(labTyped) + 1 .. Len(labTyped') : outcome[labTyped'[i][2]] \notin Reported
<1>0. labTyped \in Seq(Windows \X (1 .. requests) \X (1 .. Chunks)) /\ Len(labTyped) \in Nat
  BY DEF LabInv, LabTypes
<1>1. CASE emitForChaosLab
  <2>1. NewestText  BY <1>1, LabEmits
  <2>2. outcome[requests] \notin Reported
    BY <1>1 DEF LabInv, EmissionIsLast, emitForChaosLab
  <2> QED  BY <2>1, <2>2 DEF NewestText
<1>2. CASE ~ emitForChaosLab
  <2>1. labTyped' = labTyped
    BY <1>2 DEF LabNext, Open, Send, pumpInjection, Close, SwitchWindow, AppCloses
  <2> QED  BY <1>0, <2>1
<1> QED  BY <1>1, <1>2

\* The chunks of a text come in order and once, texts never mix, and a text is called sent when and
\* only when its last chunk was typed (ChaosLabWindow.cpp, pumpInjection).
THEOREM LabTextArrives == LabSpec => []LabIsSound
<1> QED  BY LabInitInv, LabStepInv, LabStays, LabInvIsSound, PTL DEF LabSpec

\* No text is typed for a request whose end was reported (ChaosLabWindow.cpp, pumpInjection).
THEOREM OverIsOver == LabSpec => NothingAfterEnd
<1>1. LabInv /\ [LabNext]_labVars => LabInv'  BY LabStepInv, LabStays
<1>2. LabInv /\ [LabNext]_labVars
        => [\A i \in Len(labTyped) + 1 .. Len(labTyped') :
              outcome[labTyped'[i][2]] \notin Reported]_labVars
  BY LabEndsOnce
<1> QED  BY LabInitInv, <1>1, <1>2, PTL DEF LabSpec, NothingAfterEnd
=============================================================================

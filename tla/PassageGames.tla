---------------------------- MODULE PassageGames ----------------------------
(***************************************************************************)
(* Two games of src/src/core/Arcade.cpp in which a passage is typed from   *)
(* its beginning to its end.                                               *)
(*                                                                         *)
(* The no-mistake game: the score is the reserve a mistake draws on.       *)
(* English is judged letter by letter, Vietnamese word by word when the    *)
(* space commits one, and once more at the end of the passage, which no    *)
(* space ends.                                                             *)
(*                                                                         *)
(* The typing race: the passage against the clock.  English counts         *)
(* letters, Vietnamese the words a space commits.                          *)
(***************************************************************************)
EXTENDS TypedText, FiniteSets, GameLife

CONSTANTS
  StartReserve, Penalty, SoftPenalty,
  MaxScore, MaxMistakes     \* bounds

\* The Vietnamese passage ends in a letter with a tone (kNoMistakeStreamVn), so
\* no key restored at a space completes it.
ASSUME StrictAssumption ==
  /\ StartReserve \in Nat /\ Penalty \in Nat /\ SoftPenalty \in Nat
  /\ LET end == Target[Len(Target)] IN end \in Letters /\ Base[end] # end

VARIABLES
  strictVn,          \* m_vnMode
  hardcore,    \* m_failMode = Hardcore
  strictTyped,       \* m_composer
  strictIndex,       \* m_currentIndex
  score,       \* m_score
  mistakes,    \* m_mistakes
  strictFinished,    \* m_finished
  endJudged,   \* m_vnEndJudged
  strictLife,
  strict       \* history: the run was hardcore from its start

strictVars == <<strictVn, hardcore, strictTyped, strictIndex, score, mistakes,
                strictFinished, endJudged, strictLife, strict>>

FreshStrict(t, i, s, m, f, e) ==
  t = Nothing /\ i = 0 /\ s = StartReserve /\ m = 0 /\ f = FALSE /\ e = FALSE

StrictInit ==
  /\ strictVn \in BOOLEAN /\ hardcore \in BOOLEAN
  /\ FreshStrict(strictTyped, strictIndex, score, mistakes, strictFinished, endJudged)
  /\ strictLife = Started /\ strict = hardcore

ReserveLeft(loss) == IF score > loss THEN score - loss ELSE 0

\* The penalty of a mistake, applyWrongWordVn and the English branch alike
WrongWord ==
  LET left == ReserveLeft(IF hardcore THEN Penalty ELSE SoftPenalty)
      ends == hardcore \/ left = 0
  IN
  /\ mistakes' = mistakes + 1
  /\ score' = left
  /\ strictLife' = IF ends THEN Ended(strictLife) ELSE strictLife
  /\ strictFinished' = IF ends THEN FALSE ELSE strictFinished

Reward(n) == score' = score + n

Won == strictFinished' = TRUE /\ strictLife' = Ended(strictLife)

StrictOpen == Running(strictLife) /\ score < MaxScore /\ mistakes < MaxMistakes

\* handleKey, English: an index into the passage, no way back
StrictEnglish(s) ==
  /\ StrictOpen /\ ~ strictVn
  /\ IF s = Target[strictIndex + 1]
     THEN /\ strictIndex' = strictIndex + 1
          /\ Reward(1)
          /\ IF strictIndex' = Len(Target)
             THEN Won ELSE UNCHANGED <<strictFinished, strictLife>>
          /\ UNCHANGED mistakes
     ELSE WrongWord /\ UNCHANGED strictIndex
  /\ UNCHANGED <<strictVn, hardcore, strict, strictTyped, endJudged>>

\* handleKey, Vietnamese: Backspace rewinds what is not judged yet
StrictBackspace ==
  /\ StrictOpen /\ strictVn
  /\ strictTyped' = FeedBackspace(strictTyped) /\ strictIndex' = MatchLength(strictTyped')
  /\ UNCHANGED <<strictVn, hardcore, strict, score, mistakes, strictFinished, endJudged,
                 strictLife>>

\* The end of a key that is no space, and of a space after a correct word
\* Mutant: only a text longer than the passage is judged as beta4 left it,
\* by the next space.
BadEndVerdict == /\ strictIndex' < Len(Target)
                 /\ UNCHANGED <<score, mistakes, strictFinished, endJudged, strictLife>>
EndVerdict ==
  IF Len(strictTyped'.text) >= Len(Target) /\ ~ endJudged /\ DefinitivelyWrong(strictTyped')
  THEN endJudged' = TRUE /\ WrongWord
  ELSE UNCHANGED <<score, mistakes, strictFinished, endJudged, strictLife>>

StrictLetter ==
  /\ StrictOpen /\ strictVn
  /\ strictTyped' \in FeedLetter(strictTyped) /\ strictIndex' = MatchLength(strictTyped')
  /\ IF strictIndex' = Len(Target)
     THEN Won /\ UNCHANGED <<score, mistakes, endJudged>>
     ELSE EndVerdict
  /\ UNCHANGED <<strictVn, hardcore, strict>>

\* No passage ends in a space, so no space wins the run.
StrictSpace ==
  /\ StrictOpen /\ strictVn
  /\ strictTyped' \in FeedSpace(strictTyped) /\ strictIndex' = MatchLength(strictTyped')
  /\ UNCHANGED <<strictVn, hardcore, strict, endJudged>>
  /\ IF strictIndex' < Len(strictTyped'.text)
     THEN WrongWord
     ELSE Reward(1) /\ UNCHANGED <<mistakes, strictFinished, strictLife>>

StrictRestart ==
  /\ FreshStrict(strictTyped', strictIndex', score', mistakes', strictFinished', endJudged')
  /\ strictLife' = Restarted(strictLife) /\ strict' = hardcore
  /\ UNCHANGED <<strictVn, hardcore>>

\* setFailMode, pushed by the manager into a run that goes on
SetStrictFailMode ==
  /\ hardcore' = ~ hardcore /\ strict' = (strict /\ hardcore')
  /\ UNCHANGED <<strictVn, strictTyped, strictIndex, score, mistakes, strictFinished,
                 endJudged, strictLife>>

StrictLifeKey ==
  /\ strictLife' \in {ExitKey(strictLife), PauseKey(strictLife), Polled(strictLife)}
  /\ UNCHANGED <<strictVn, hardcore, strict, strictTyped, strictIndex, score, mistakes,
                 strictFinished, endJudged>>

\* The manager drops a game that asked to leave.
StrictNext ==
  /\ ~ strictLife.exiting
  /\ \/ \E s \in Symbols : StrictEnglish(s)
     \/ StrictBackspace
     \/ StrictLetter
     \/ StrictSpace
     \/ StrictRestart
     \/ SetStrictFailMode
     \/ StrictLifeKey

StrictSpec == StrictInit /\ [][StrictNext]_strictVars

-----------------------------------------------------------------------------
\* A run is won with the whole passage typed and, in hardcore, without a
\* mistake; a hardcore run never goes on after one; a lost run has made one,
\* and a run goes on only with a reserve and something left to type.
StrictlyJudged ==
  /\ strictFinished => strictLife.over /\ strictIndex = Len(Target) /\ (strict => mistakes = 0)
  /\ strict /\ mistakes > 0 => strictLife.over
  /\ strictLife.over /\ ~ strictFinished => mistakes > 0
  /\ ~ strictLife.over => strictIndex < Len(Target) /\ (score > 0 \/ StartReserve = 0)

\* A run never just sits there with a text that can no longer become the
\* passage: what reached past the end, or differs there in more than a tone,
\* has been judged.
EndIsJudged ==
  /\ strictVn /\ ~ strictLife.over
  /\ Len(strictTyped.text) >= Len(Target) /\ DefinitivelyWrong(strictTyped)
  => mistakes > 0

-----------------------------------------------------------------------------

CONSTANT MaxKeys      \* bound

VARIABLES
  raceVn, raceTyped,            \* m_vnMode, m_composer
  raceIndex,                \* m_charIndex
  keys, correct, wrong, \* m_totalKeys, m_correctKeys, m_errorKeys
  words, wrongWords,    \* m_vnWordsTotal, m_vnWordsWrong
  raceLife                  \* m_finished is life.over

raceCounts == <<keys, correct, wrong, words, wrongWords>>
raceVars == <<raceVn, raceTyped, raceIndex, raceCounts, raceLife>>

FreshRace(t, i, k, c, e, w, x) ==
  t = Nothing /\ i = 0 /\ k = 0 /\ c = 0 /\ e = 0 /\ w = 0 /\ x = 0

RaceInit ==
  /\ raceVn \in BOOLEAN
  /\ FreshRace(raceTyped, raceIndex, keys, correct, wrong, words, wrongWords)
  /\ raceLife = Started

RaceOpen == Running(raceLife) /\ keys < MaxKeys

\* finish(): the last word, which no space commits, counts as correct
Finish == raceLife' = IF raceIndex' = Len(Target) THEN Ended(raceLife) ELSE raceLife

RaceEnglish(s) ==
  /\ RaceOpen /\ ~ raceVn
  /\ keys' = keys + 1
  /\ IF s = Target[raceIndex + 1]
     THEN raceIndex' = raceIndex + 1 /\ correct' = correct + 1 /\ UNCHANGED wrong
     ELSE wrong' = wrong + 1 /\ UNCHANGED <<raceIndex, correct>>
  /\ Finish
  /\ UNCHANGED <<raceVn, raceTyped, words, wrongWords>>

RaceBackspace ==
  /\ Running(raceLife)
  /\ IF raceVn
     THEN raceTyped' = FeedBackspace(raceTyped) /\ raceIndex' = MatchLength(raceTyped')
     ELSE raceIndex' = (IF raceIndex > 0 THEN raceIndex - 1 ELSE 0) /\ UNCHANGED raceTyped
  /\ UNCHANGED <<raceVn, raceCounts, raceLife>>

\* A key of the Vietnamese game
Compose(texts) ==
  /\ RaceOpen /\ raceVn
  /\ raceTyped' \in texts /\ raceIndex' = MatchLength(raceTyped')
  /\ keys' = keys + 1
  /\ correct' = correct + (IF raceIndex' > raceIndex THEN raceIndex' - raceIndex ELSE 0)
  /\ Finish
  /\ UNCHANGED <<raceVn, wrong>>

\* Mutant: the word no space ends is not counted.
BadLastWord == 0
LastWord == IF raceIndex' = Len(Target) THEN 1 ELSE 0

RaceLetter ==
  /\ Compose(FeedLetter(raceTyped))
  /\ words' = words + LastWord /\ UNCHANGED wrongWords

RaceSpace ==
  /\ Compose(FeedSpace(raceTyped))
  /\ words' = words + 1 + LastWord
  /\ wrongWords' = wrongWords + (IF raceIndex' < Len(raceTyped'.text) THEN 1 ELSE 0)

RaceRestart ==
  /\ FreshRace(raceTyped', raceIndex', keys', correct', wrong', words', wrongWords')
  /\ raceLife' = Restarted(raceLife)
  /\ UNCHANGED raceVn

RaceLifeKey ==
  /\ raceLife' \in {ExitKey(raceLife), PauseKey(raceLife), Polled(raceLife)}
  /\ UNCHANGED <<raceVn, raceTyped, raceIndex, raceCounts>>

\* The manager drops a game that asked to leave.
RaceNext ==
  /\ ~ raceLife.exiting
  /\ \/ \E s \in Symbols : RaceEnglish(s)
     \/ RaceBackspace
     \/ RaceLetter
     \/ RaceSpace
     \/ RaceRestart
     \/ RaceLifeKey

RaceSpec == RaceInit /\ [][RaceNext]_raceVars

-----------------------------------------------------------------------------
WordsOf(p) == 1 + Cardinality({i \in DOMAIN p : p[i] = Blank})

\* The race is over exactly when the passage stands there, however often
\* letters and words were taken back and typed again; the score then rests
\* on at least as many right letters, or words committed right, as the
\* passage has, and on no more right ones than were counted.
FinishIsEarned ==
  /\ raceLife.over <=> raceIndex = Len(Target)
  /\ raceLife.over =>
       IF raceVn THEN words - wrongWords >= WordsOf(Target) ELSE correct >= Len(Target)
  /\ ~ raceVn => correct + wrong = keys
  /\ wrongWords <= words
=============================================================================

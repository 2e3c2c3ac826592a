--------------------------- MODULE ServicesProof ----------------------------
(***************************************************************************)
(* The parts that run beside the keyboard, put together as MCServices does *)
(* it: what GamesProof and PartsProof prove of each part holds in the      *)
(* sum, for every value of its constants, since a step of one part leaves  *)
(* the others where they are.                                              *)
(***************************************************************************)
EXTENDS MCServices, GamesProof, PartsProof

\* A step of the sum is a step of the games' part, or leaves the game alone.
GamesMove ==
  /\ SnakeNext \/ UNCHANGED snakeVars
  /\ TetrisNext \/ UNCHANGED tetrisVars
  /\ StrictNext \/ UNCHANGED strictVars
  /\ FishNext \/ UNCHANGED fishVars
  /\ RaceNext \/ UNCHANGED raceVars
  /\ RoadNext \/ UNCHANGED roadVars
  /\ RhythmNext \/ UNCHANGED rhythmVars
  /\ FlexNext \/ UNCHANGED flexVars
  /\ LabNext \/ UNCHANGED labVars

\* The same of the two ways an edit leaves the program.
OutputsMove ==
  /\ ComposerNext \/ UNCHANGED tsfVars
  /\ EmitterNext \/ UNCHANGED emitterVars

\* The same of what is kept.
KeptMove ==
  /\ ProgressNext \/ UNCHANGED progressVars
  /\ RivalNext \/ UNCHANGED rivalVars
  /\ SettingsNext \/ UNCHANGED settingsVars
  /\ NoticeNext \/ UNCHANGED noticeVars

\* What the part that runs does, each of those proved about.
PartsRun ==
  /\ part = "snake" => SnakeNext
  /\ part = "tetris" => TetrisNext
  /\ part = "strict" => StrictNext
  /\ part = "fishing" => FishNext
  /\ part = "race" => RaceNext
  /\ part = "road" => RoadNext
  /\ part = "rhythm" => RhythmNext
  /\ part = "flexing" => FlexNext
  /\ part = "lab" => LabNext
  /\ part = "composer" => ComposerNext
  /\ part = "output" => EmitterNext
  /\ part \in {"alone", "shared"} => ProgressNext
  /\ part = "rival" => RivalNext
  /\ part = "dialog" => SettingsNext
  /\ part = "notices" => NoticeNext

LEMMA OnePartRuns == ServicesNext => OthersStay /\ PartsRun
<1>1. ServicesNext => OthersStay
  BY Zenon DEF ServicesNext, SnakePart, TetrisPart, StrictPart, FishingPart, RacePart, RoadPart,
     RhythmPart, FlexingPart, LabPart, ComposerPart, OutputPart, AlonePart, SharedPart, RivalPart,
     AnalyticsPart, NoticesPart, CountedPart, TimedPart, TracedPart, DialogPart, LayoutPart
<1>2. ServicesNext => PartsRun
  BY DEF ServicesNext, PartsRun, SnakePart, TetrisPart, StrictPart, FishingPart, RacePart,
     RoadPart, RhythmPart, FlexingPart, LabPart, ComposerPart, OutputPart, AlonePart, SharedPart,
     RivalPart, AnalyticsPart, NoticesPart, CountedPart, TimedPart, TracedPart, DialogPart,
     LayoutPart
<1> QED  BY <1>1, <1>2

\* So every part moves or stays.
LEMMA PartsMove == [ServicesNext]_servicesVars => GamesMove /\ OutputsMove /\ KeptMove
<1>1. ServicesNext => GamesMove
  BY OnePartRuns, Zenon DEF OthersStay, GamesStay, PartsRun, GamesMove
<1>2. ServicesNext => OutputsMove
  BY OnePartRuns, Zenon DEF OthersStay, PartsRun, OutputsMove
<1>3. ServicesNext => KeptMove
  BY OnePartRuns, Zenon DEF OthersStay, PartsRun, KeptMove
<1>4. UNCHANGED servicesVars => GamesMove /\ OutputsMove /\ KeptMove
  BY Zenon DEF servicesVars, gamesVars, GamesMove, OutputsMove, KeptMove
<1> QED  BY <1>1, <1>2, <1>3, <1>4, Zenon

(***************************************************************************)
(* The invariant: every part's own.                                        *)
(***************************************************************************)
GamesInv ==
  /\ SnakeInv /\ TetrisInv /\ StrictInv /\ FishInv /\ RaceInv /\ RoadInv /\ RhythmInv
  /\ FlexInv /\ LabInv

\* Each part begins in one of its own initial states.
LEMMA GamesBegin == ServicesInit => GamesInv
BY SnakeInitInv, TetrisInitInv, StrictInitInv, FishInitInv, RaceInitInv, RoadInitInv,
   RhythmInitInv, FlexInitInv, LabInitInv, Zenon DEF ServicesInit, GamesInit, GamesInv

\* Each part's invariant is kept by its own steps, and while another part runs.
LEMMA GamesKept == GamesInv /\ GamesMove => GamesInv'
<1> SUFFICES ASSUME GamesInv, GamesMove PROVE GamesInv'
  OBVIOUS
<1>1. SnakeInv'  BY SnakeStepInv, SnakeStays, Zenon DEF GamesInv, GamesMove
<1>2. TetrisInv'  BY TetrisStepInv, TetrisStays, Zenon DEF GamesInv, GamesMove
<1>3. StrictInv'  BY StrictStepInv, StrictStays, Zenon DEF GamesInv, GamesMove
<1>4. FishInv'  BY FishStepInv, FishStays, Zenon DEF GamesInv, GamesMove
<1>5. RaceInv'  BY RaceStepInv, RaceStays, Zenon DEF GamesInv, GamesMove
<1>6. RoadInv'  BY RoadStepInv, RoadStays, Zenon DEF GamesInv, GamesMove
<1>7. RhythmInv'  BY RhythmStepInv, RhythmStays, Zenon DEF GamesInv, GamesMove
<1>8. FlexInv'  BY FlexStepInv, FlexStays, Zenon DEF GamesInv, GamesMove
<1>9. LabInv'  BY LabStepInv, LabStays, Zenon DEF GamesInv, GamesMove
<1> QED  BY <1>1, <1>2, <1>3, <1>4, <1>5, <1>6, <1>7, <1>8, <1>9, Zenon DEF GamesInv

\* The invariant of the games, the flexing page and the laboratory.
LEMMA GamesInvariant == ServicesSpec => []GamesInv
<1>1. GamesInv /\ [ServicesNext]_servicesVars => GamesInv'  BY PartsMove, GamesKept, Zenon
<1> QED  BY GamesBegin, <1>1, PTL DEF ServicesSpec

\* The invariant of the progression.
LEMMA ProgressKept == ServicesSpec => []ProgressInv
<1>1. ServicesInit => ProgressInv  BY InitProgress, Zenon DEF ServicesInit
<1>2. ProgressInv /\ [ServicesNext]_servicesVars => ProgressInv'
  BY PartsMove, ProgressStepInv, ProgressStays, Zenon DEF KeptMove
<1> QED  BY <1>1, <1>2, PTL DEF ServicesSpec

\* The invariant of the rival.
LEMMA RivalKept ==
  ASSUME Trainers = {"ui"}
  PROVE  ServicesSpec => []RivalInv
<1>1. ServicesInit => RivalInv  BY InitRival, Zenon DEF ServicesInit
<1>2. RivalInv /\ [ServicesNext]_servicesVars => RivalInv'
  BY PartsMove, RivalStep, RivalStays, Zenon DEF KeptMove
<1> QED  BY <1>1, <1>2, PTL DEF ServicesSpec

(***************************************************************************)
(* The theorems.                                                           *)
(***************************************************************************)
\* Boards, judgements and bookkeeping of the seven games are sound for boards of every size, every
\* passage and every chart, however keys, frames, backspaces and restarts interleave (Arcade.cpp).
THEOREM GamesSafe == ServicesSpec => []GamesAreSound
<1>1. GamesInv => GamesAreSound
  BY SnakeInvIsSound, TetrisInvIsSound, StrictInvIsSound, FishInvIsSound, RaceInvIsSound,
     RoadInvIsSound, RhythmInvIsSound, Zenon DEF GamesInv, GamesAreSound
<1> QED  BY GamesInvariant, <1>1, PTL

\* A text that is streamed to the page comes whole and in order; one that is sent in chunks comes
\* in order and once, never mixes with another, and is called sent when and only when its last
\* chunk was typed: for texts, pages and requests of every number (ChaosLabWindow.cpp, main.cpp).
THEOREM TextsSafe == ServicesSpec => []TextsArrive
<1>1. GamesInv => TextsArrive
  BY FlexInvIsSound, LabInvIsSound, Zenon DEF GamesInv, TextsArrive
<1> QED  BY GamesInvariant, <1>1, PTL

\* No text is typed for a request whose end was reported, whatever windows and applications do
\* (ChaosLabWindow.cpp, pumpInjection).
THEOREM NothingLate == ServicesSpec => NothingAfterEnd
<1>1. GamesInv /\ [ServicesNext]_servicesVars
        => [\A i \in Len(labTyped) + 1 .. Len(labTyped') :
              outcome[labTyped'[i][2]] \notin Reported]_labVars
  BY PartsMove, LabEndsOnce, Zenon DEF GamesInv, GamesMove
<1> QED  BY GamesInvariant, <1>1, PTL DEF ServicesSpec, NothingAfterEnd

\* The TSF composer writes every edit once, where the user typed it, and gives back every reference
\* it took; what is typed instead keeps two edits apart and accounts for every input, for all
\* documents, contexts and batches, any threads, edits and slab of whole keys (TsfComposer.cpp,
\* win32_wrapper.cpp).
THEOREM ComposerSafe ==
  ASSUME Named, WholeSlab
  PROVE  ServicesSpec => []ComposerIsSound
<1> DEFINE I == ComposerInv /\ EmitterInv /\ CountInv
<1>1. ServicesInit => I
  BY InitComposer, InitEmitter, InitCount, Zenon DEF ServicesInit, ComposerInv
<1>2. ASSUME I, OutputsMove PROVE I'
  <2>1. ComposerInv'  BY <1>2, ComposerStep, Zenon DEF OutputsMove
  <2>2. [EmitterNext]_emitterVars  BY <1>2, Zenon DEF OutputsMove
  <2>3. EmitterInv' /\ CountInv'  BY <1>2, <2>2, EmitterStep, CountStep, Zenon
  <2> QED  BY <2>1, <2>3, Zenon
<1>3. I => ComposerIsSound
  BY ComposerInvIsSound, EmitterInvIsSound, Zenon DEF ComposerIsSound
<1>4. I /\ [ServicesNext]_servicesVars => I'  BY <1>2, PartsMove, Zenon
<1> HIDE DEF I
<1> QED  BY <1>1, <1>3, <1>4, PTL DEF ServicesSpec

\* Keys are counted once and achievements paid once through folds, resets and restarts, for all
\* thresholds, rewards and threads that fold; the rival, trained by the UI's timer, never fits torn
\* samples or samples of before a purge (Progression.cpp, AiRival.cpp).
THEOREM CountedSafe ==
  ASSUME Trainers = {"ui"}
  PROVE  ServicesSpec => []CountedOnce
<1>1. ProgressInv /\ RivalInv => CountedOnce
  BY ProgressInvIsSound, RivalInvIsSound, Zenon DEF CountedOnce
<1> QED  BY ProgressKept, RivalKept, <1>1, PTL

\* A restart finds the counts that had been folded half a minute before the process died, whatever
\* was locked, cut or written meanwhile (Progression.cpp, main.cpp).
THEOREM FoldsSafe == ServicesSpec => FoldsSurvive
<1> DEFINE Restored == power = "off" /\ power' = "on" /\ ~behind /\ progressFile # Empty
                      /\ ~stats'.salvaged => stats'.keys >= aged
<1>1. ProgressInv /\ [ServicesNext]_servicesVars => [Restored]_progressVars
  BY PartsMove, RestartFinds, Zenon DEF KeptMove
<1>2. ServicesSpec => [][Restored]_progressVars  BY ProgressKept, <1>1, PTL DEF ServicesSpec
<1> QED  BY <1>2 DEF FoldsSurvive, FoldedSurvives

\* Dialog, options, engine, registry and macro file agree on what the user chose, whatever the
\* registry holds at the first start and whatever is typed into the editor (main.cpp, Config.cpp).
THEOREM SettingsSafe == ServicesSpec => []SettingsAreSound
<1>1. ServicesInit => SettingsInv  BY InitSettings, Zenon DEF ServicesInit
<1>2. SettingsInv /\ [ServicesNext]_servicesVars => SettingsInv'
  BY PartsMove, SettingsStep, SettingsStays, Zenon DEF KeptMove
<1>3. SettingsInv => SettingsAreSound  BY SettingsInvIsSound, Zenon DEF SettingsAreSound
<1> QED  BY <1>1, <1>2, <1>3, PTL DEF ServicesSpec

\* No notice after a refusal or within its cooldown, whatever its thread had found due before, and
\* no expansion counted twice, for any notices, policies and weights (Notifications.hpp).
THEOREM NoticesSafe == ServicesSpec => []NoticesAllowed
<1>1. ServicesInit => NoticeInv  BY InitNotice, Zenon DEF ServicesInit
<1>2. NoticeInv /\ [ServicesNext]_servicesVars => NoticeInv'
  BY PartsMove, NoticeStep, NoticeStays, Zenon DEF KeptMove
<1>3. NoticeInv => NoticesAllowed  BY NoticeInvIsSound, Zenon DEF NoticesAllowed
<1> QED  BY <1>1, <1>2, <1>3, PTL DEF ServicesSpec
=============================================================================

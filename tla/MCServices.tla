----------------------------- MODULE MCServices -----------------------------
(* Everything that runs beside the keyboard: the arcade's games, the        *)
(* flexing page and the Chaos Lab, the TSF composer, what is counted and    *)
(* kept (progression, the rival's profile, typing analytics, diagnostics),  *)
(* the notices and the settings dialog.  The parts share no state: one of   *)
(* them, chosen at the start, runs while the others stay where they begin.  *)
(*                                                                          *)
(* A prompt of two words, the second with a mark that is typed after its    *)
(* letter, has a letter, a blank and a syllable to be judged.  A board of 4 *)
(* by 2 can be filled by the snake; four rows and the pieces I and O fill   *)
(* and clear lines.  The road holds two rows of two lanes.  Two notes of    *)
(* one lane, half a beat apart or more, have windows that overlap.  A text  *)
(* of four characters is longer than a step of three and, twice, longer     *)
(* than the page.  Two requests of two chunks are sent to two applications. *)
(*                                                                          *)
(* Composer: two documents, one with a context pushed over another; three   *)
(* edits fill a batch of two and start another. Output: an edit without     *)
(* inputs, one of four keys and one of more backspaces than a slab, two at  *)
(* a time. Progression: once without the bridge, with a run of a game or a  *)
(* reset and a restart, once with both threads that fold and one of the     *)
(* three. Rival: a ring of two samples that four keys overwrite, two        *)
(* trainings, one purge. Analytics: a ring of two. Notices: two of          *)
(* different threads and policies, an hour and a cooldown that pass, time   *)
(* for a second notice while the first is open. Diagnostics: once with      *)
(* events, once with latencies, once with traces. Settings: a fresh         *)
(* registry and one a later build left, two changes, two starts. Layout: a  *)
(* page whose row grows, two monitors that differ in scale and one with too *)
(* little height for the window.                                            *)
EXTENDS SnakeGame, TetrisGame, RhythmGame, FishingGame, PassageGames, WasdRaceGame, ChaosLab,
        TsfComposer, InlineEmitter, Progress, AiRival, Notifications, Settings

VARIABLES
  part,
  keyLog, start, from,
  level, hc, diagCounters, callback, sync, rebased, stage, samples, emits, emitting,
  delivered, events, flush, fileLog, traced,
  job, d, monitor, asked, authored96, settled, layoutChanges

MCStart == <<<<2, 1>>, <<1, 1>>, <<0, 1>>>>
MCTarget == <<"b", Blank, "as">>
MCBase == [a |-> "a", as |-> "a", b |-> "b"]
MCOwner == 11 :> 1 @@ 12 :> 1 @@ 21 :> 2
MCShapes == {[back |-> 0, len |-> 0], [back |-> 1, len |-> 3], [back |-> 3, len |-> 0]}

Games == {"snake", "tetris", "strict", "fishing", "race", "road", "rhythm", "flexing", "lab"}

GamesStay ==
  /\ part = "snake" \/ UNCHANGED snakeVars
  /\ part = "tetris" \/ UNCHANGED tetrisVars
  /\ part = "strict" \/ UNCHANGED strictVars
  /\ part = "fishing" \/ UNCHANGED fishVars
  /\ part = "race" \/ UNCHANGED raceVars
  /\ part = "road" \/ UNCHANGED roadVars
  /\ part = "rhythm" \/ UNCHANGED rhythmVars
  /\ part = "flexing" \/ UNCHANGED flexVars
  /\ part = "lab" \/ UNCHANGED labVars

\* A part that stays begins in one of its initial states.
Some(S) == CHOOSE e \in S : TRUE

GamesInit ==
  /\ SnakeInit /\ (part # "snake" => food = Some(Food(Start)))
  /\ TetrisInit /\ (part # "tetris" => cur = Some(Pieces) /\ upcoming = Some(Draws(Rest({}, cur))))
  /\ StrictInit /\ (part # "strict" => ~strictVn /\ ~hardcore)
  /\ FishInit /\ (part # "fishing" => ~fishVn /\ strain = Some(Strains))
  /\ RaceInit /\ (part # "race" => ~raceVn)
  /\ RoadInit /\ (part # "road" => ~roadVn /\ ~steering)
  /\ RhythmInit /\ (part # "rhythm" => ~failMode /\ chart = Some(Charts))
  /\ FlexInit
  /\ LabInit /\ (part # "lab" => front = Own)

gamesVars == <<snakeVars, tetrisVars, strictVars, fishVars, raceVars, roadVars,
               rhythmVars, flexVars, labVars>>

analyticsVars == <<keyLog, start, from>>
diagVars == <<level, hc, diagCounters, callback, sync, rebased, stage, samples, emits,
              emitting, delivered, events, flush, fileLog, traced>>
layoutVars == <<job, d, monitor, asked, authored96, settled, layoutChanges>>

MCThresholds == <<2, 4>>
MCRewards == "first" :> 1 @@ "third" :> 2
MCKeysFor == "first" :> 1 @@ "third" :> 3

Analytics == INSTANCE TypingAnalytics
  WITH log <- keyLog, Capacity <- 2, Pause <- 1, Intervals <- {0, 2}, MinHalf <- 1,
       MaxKeys <- 4

MCRaisedBy == "telex" :> "hook" @@ "slow" :> "consumer"
MCPolicy ==
  "telex" :> [min |-> 75, cooldown |-> 2, perHour |-> 2, repeat |-> TRUE]
  @@ "slow" :> [min |-> 60, cooldown |-> 3, perHour |-> 1, repeat |-> TRUE]

Counted == INSTANCE Diagnostics
  WITH counters <- diagCounters, log <- fileLog, Latencies <- {1, 2}, Buckets <- 4, RingSize <- 2, BatchSize <- 1,
       MaxBytes <- 6, MaxEvents <- 1, MaxEmits <- 0, MaxTraced <- 0

Timed == INSTANCE Diagnostics
  WITH counters <- diagCounters, log <- fileLog, Latencies <- {0, 1, 2, 5}, Buckets <- 4, RingSize <- 2,
       BatchSize <- 1, MaxBytes <- 6, MaxEvents <- 0, MaxEmits <- 4, MaxTraced <- 0

Traced == INSTANCE Diagnostics
  WITH counters <- diagCounters, log <- fileLog, Latencies <- {1, 2}, Buckets <- 4, RingSize <- 2, BatchSize <- 1,
       MaxBytes <- 6, MaxEvents <- 0, MaxEmits <- 0, MaxTraced <- 4

MCFresh == [method |-> 0, quick |-> TRUE, modern |-> FALSE, dict |-> FALSE,
            digits |-> FALSE, profile |-> 9, hybrid |-> {"inline"}, migration |-> 0]
MCLater == [method |-> 7, quick |-> TRUE, modern |-> FALSE, dict |-> TRUE,
            digits |-> FALSE, profile |-> 3, hybrid |-> {}, migration |-> 2]

MCNote == [abbr |-> "", as |-> "note"]
MCMacro == [abbr |-> "hcm", as |-> "city"]

MCRegistries == {MCFresh, MCLater}
MCTexts == {<<MCNote, MCMacro>>, <<>>}

Row(y0, h, w) == [y |-> y0, h |-> h, w |-> w]
MCDesign == "a" :> Row(90, 16, 200) @@ "b" :> Row(110, 16, 100)
            @@ "c" :> Row(90, 16, 270) @@ "e" :> Row(120, 40, 260)
MCPageOf == "a" :> 0 @@ "b" :> 0 @@ "c" :> 1 @@ "e" :> 1
MCFrame == [tab |-> 66, strip |-> 24, band |-> 42, margin |-> 12, line |-> 16,
            bar |-> 17, width |-> 300, height |-> 230, least |-> 120]

Layout == INSTANCE SettingsLayout
  WITH Rows <- {"a", "b", "c", "e"}, PageOf <- MCPageOf, Design <- MCDesign,
       Growing <- {"a"}, Widths <- {150, 450, 900}, Strip <- 270, Frame <- MCFrame,
       Monitors <- {[dpi |-> 96, work |-> 400], [dpi |-> 144, work |-> 320],
                    [dpi |-> 96, work |-> 190]},
       MaxChanges <- 3

OthersStay ==
  /\ UNCHANGED part
  /\ GamesStay
  /\ part = "composer" \/ UNCHANGED tsfVars
  /\ part = "output" \/ UNCHANGED emitterVars
  /\ part \in {"alone", "shared"} \/ UNCHANGED progressVars
  /\ part = "rival" \/ UNCHANGED rivalVars
  /\ part = "analytics" \/ UNCHANGED analyticsVars
  /\ part = "notices" \/ UNCHANGED noticeVars
  /\ part \in {"counted", "timed", "traced"} \/ UNCHANGED diagVars
  /\ part = "dialog" \/ UNCHANGED settingsVars
  /\ part = "layout" \/ UNCHANGED layoutVars

SnakePart == part = "snake" /\ SnakeNext /\ OthersStay
TetrisPart == part = "tetris" /\ TetrisNext /\ OthersStay
StrictPart == part = "strict" /\ StrictNext /\ OthersStay
FishingPart == part = "fishing" /\ FishNext /\ OthersStay
RacePart == part = "race" /\ RaceNext /\ OthersStay
RoadPart == part = "road" /\ RoadNext /\ OthersStay
RhythmPart == part = "rhythm" /\ RhythmNext /\ OthersStay
FlexingPart == part = "flexing" /\ FlexNext /\ OthersStay
LabPart == part = "lab" /\ LabNext /\ OthersStay
ComposerPart == part = "composer" /\ ComposerNext /\ OthersStay
OutputPart == part = "output" /\ EmitterNext /\ OthersStay
AlonePart == part = "alone" /\ ProgressNext /\ UNCHANGED fold["bridge"] /\ OthersStay
SharedPart == part = "shared" /\ ProgressNext /\ runs' + restarts' <= 1 /\ OthersStay
RivalPart == part = "rival" /\ RivalNext /\ OthersStay
AnalyticsPart == part = "analytics" /\ Analytics!AnalyticsNext /\ OthersStay
NoticesPart == part = "notices" /\ NoticeNext /\ OthersStay
CountedPart == part = "counted" /\ Counted!DiagNext /\ OthersStay
TimedPart == part = "timed" /\ Timed!DiagNext /\ OthersStay
TracedPart == part = "traced" /\ Traced!DiagNext /\ OthersStay
DialogPart == part = "dialog" /\ SettingsNext /\ OthersStay
LayoutPart == part = "layout" /\ Layout!LayoutNext /\ OthersStay

ServicesInit ==
  /\ part \in Games \cup {"composer", "output", "alone", "shared", "rival", "analytics",
                          "notices", "counted", "timed", "traced", "dialog", "layout"}
  /\ GamesInit
  /\ ComposerInit
  /\ part # "composer" =>
       focus = Some(Docs) /\ top = [n \in Docs |-> Some({c \in Contexts : Owner[c] = n})]
  /\ EmitterInit
  /\ ProgressInit
  /\ RivalInit /\ Analytics!AnalyticsInit /\ NoticeInit
  /\ IF part = "timed" THEN Timed!DiagInit ELSE Counted!DiagInit
  /\ part \notin {"counted", "timed", "traced"} => level = 0
  /\ SettingsInit
  /\ part # "dialog" => registry = MCFresh /\ macroFile = <<>>
  /\ Layout!LayoutInit /\ (part # "layout" => monitor = [dpi |-> 96, work |-> 400])

ServicesNext ==
  \/ SnakePart \/ TetrisPart \/ StrictPart \/ FishingPart \/ RacePart
  \/ RoadPart \/ RhythmPart \/ FlexingPart \/ LabPart
  \/ ComposerPart \/ OutputPart \/ AlonePart \/ SharedPart \/ RivalPart
  \/ AnalyticsPart \/ NoticesPart \/ CountedPart \/ TimedPart \/ TracedPart
  \/ DialogPart \/ LayoutPart

servicesVars == <<part, gamesVars, tsfVars, emitterVars, progressVars, rivalVars, analyticsVars,
                  noticeVars, diagVars, settingsVars, layoutVars>>

ServicesSpec == ServicesInit /\ [][ServicesNext]_servicesVars

(***************************************************************************)
(* Properties                                                              *)
(***************************************************************************)
\* Boards, judgements and bookkeeping of the seven games, however keys, frames,
\* backspaces and restarts interleave.
GamesAreSound ==
  /\ part = "snake" => SnakeSound
  /\ part = "tetris" => TetrisSound /\ BagIsFair
  /\ part = "strict" => StrictlyJudged /\ EndIsJudged
  /\ part = "fishing" => FishOnHook
  /\ part = "race" => FinishIsEarned
  /\ part = "road" => NoWall /\ Fuelled
  /\ part = "rhythm" => EveryNoteOnce /\ NoSwallowedKey

\* A text that is streamed to the page comes whole and in order; one that is sent
\* in chunks begins at its beginning, goes on in order, never mixes with another,
\* and is called sent when and only when its last chunk was typed.
TextsArrive ==
  /\ part = "flexing" => TextComesWhole
  /\ part = "lab" => LabIsSound

\* The TSF composer writes every edit once, where the user typed it, and gives
\* back every reference it took, whatever fails or moves; what is typed instead
\* keeps two edits apart and accounts for every input (TsfComposer.cpp,
\* win32_wrapper.cpp).
ComposerIsSound ==
  /\ part = "composer" => EditsLandOnce /\ ReferencesBalance
  /\ part = "output" => EmitterIsSound

\* Keys are counted once and achievements paid once through folds, resets and
\* restarts; the rival never fits torn samples or samples of before a purge
\* (Progression.cpp, AiRival.cpp).
CountedOnce ==
  /\ part \in {"alone", "shared"} => ProgressSound
  /\ part = "rival" => RivalSound

\* What the user is told is allowed: no notice after a refusal or within its
\* cooldown, and none for an expansion that was never taken back
\* (Notifications.hpp, main.cpp).
NoticesAllowed == part = "notices" => NoticesSound

\* What the user is shown is true and within reach: a coach whose figures are of
\* the session's keys with each interval once, a report whose counters,
\* percentiles and traces agree with what happened, pages of which every pixel can
\* be reached where the layout was solved (TypingAnalytics.cpp, Diagnostics.cpp,
\* DialogLayout.hpp).
ShownIsTrue ==
  /\ part = "analytics" => Analytics!AnalyticsSound
  /\ part \in {"counted", "traced"} => Counted!DiagSound
  /\ part = "timed" => Timed!DiagSound
  /\ part = "layout" => Layout!LayoutSound

\* Dialog, options, engine, registry and macro file agree on what the user chose
\* (main.cpp, Config.cpp).
SettingsAreSound == part = "dialog" => SettingsSound

\* Counts folded half a minute before the process died are there after a restart
\* (Progression.cpp, main.cpp).
FoldsSurvive == FoldedSurvives
=============================================================================

---------------------------- MODULE ArcadeManager ----------------------------
(***************************************************************************)
(* ArcadeManager of src/src/core/Arcade.cpp as functions of its state: the *)
(* one running game, the queue of results and the configuration.  A call   *)
(* is atomic: the desktop makes all of them on the UI thread, the web      *)
(* bridge under m_gameMutex.  A game is what the manager sees of it; a run *)
(* is numbered, and the numbers beyond the game, the queue and the         *)
(* configuration are history.                                              *)
(***************************************************************************)
EXTENDS Integers, Sequences, FiniteSets, SequencesExt, GameLife

CONSTANTS
  MaxRuns,      \* bound: runs begun
  MaxResults    \* cap of m_results: 64

ASSUME ArcadeAssumption == MaxRuns \in Nat /\ MaxResults \in Nat

Types == {"flexing", "other"}
None == [type |-> "none"]
Runs == 1 .. MaxRuns
Configs == [chart : BOOLEAN, live : BOOLEAN]

Idle ==
  [game |-> None, results |-> <<>>, collected |-> FALSE,
   config |-> [chart |-> FALSE, live |-> FALSE], runChart |-> FALSE,
   runs |-> 0, credits |-> [r \in Runs |-> 0],
   ended |-> {},        \* runs that reached their end
   hurried |-> {},      \* of them, those reset before a frame polled them
   lost |-> {},         \* runs whose result found the queue full
   leftLate |-> {}]     \* runs whose player pressed Escape after the report

Playing(m) == m.game # None
IsFlexing(m) == m.game.type = "flexing"
CanBegin(m) == m.runs < MaxRuns

\* A full queue refuses the result.
Push(m, r) ==
  IF Len(m.results) < MaxResults THEN [m EXCEPT !.results = Append(@, r)]
                                 ELSE [m EXCEPT !.lost = @ \cup {r}]

\* collectResultFrom
\* Mutant: the pending flag survives the poll.
BadCollect(m) ==
  IF Playing(m) /\ m.game.life.pending
  THEN [Push(m, m.game.run) EXCEPT !.collected = TRUE]
  ELSE m
Collect(m) ==
  IF Playing(m) /\ m.game.life.pending
  THEN [Push(m, m.game.run) EXCEPT !.collected = TRUE, !.game.life = Polled(@)]
  ELSE m

\* applyFullConfigToGame and applyLiveConfigToGame
ApplyFull(game, config) == [game EXCEPT !.chart = config.chart, !.live = config.live]
ApplyLive(game, config) == [game EXCEPT !.live = config.live]

\* makeGame
MakeGame(type, run, config) ==
  ApplyFull([type |-> type, run |-> run, life |-> Started, scored |-> FALSE,
             chart |-> FALSE, live |-> FALSE], config)

\* launchGame
Launch(m, type) ==
  LET c == Collect(m) IN
  [c EXCEPT !.game = MakeGame(type, c.runs + 1, c.config),
            !.runs = @ + 1, !.collected = FALSE, !.runChart = c.config.chart]

\* stopGame: the score of a run that has not reported is reported for it
\* Mutant: whether the run has reported is not asked.
BadStop(m) ==
  LET c == Collect(m) IN
  IF ~ Playing(m) THEN m
  ELSE [(IF c.game.scored THEN Push(c, c.game.run) ELSE c) EXCEPT !.game = None]
Stop(m) ==
  LET c == Collect(m) IN
  IF ~ Playing(m) THEN m
  ELSE [(IF c.game.scored /\ ~ c.collected THEN Push(c, c.game.run) ELSE c)
          EXCEPT !.game = None]

\* reset() of the game, by its restart key or by a new prepared text: the
\* manager is not told.
ResetGame(m) ==
  [m EXCEPT !.game.run = m.runs + 1, !.runs = @ + 1,
            !.game.life = Restarted(@), !.game.scored = FALSE,
            !.hurried = IF m.game.life.pending THEN @ \cup {m.game.run} ELSE @]

\* restartGame
RestartGame(m) ==
  IF ~ Playing(m) THEN m
  ELSE [ResetGame(Collect(m)) EXCEPT !.collected = FALSE, !.game.life = Started]

\* drainRunResultsToProgression
Occurrences(s, r) == Cardinality({i \in DOMAIN s : s[i] = r})

Drain(m) ==
  [m EXCEPT !.results = <<>>,
            !.credits = [r \in Runs |-> @[r] + Occurrences(m.results, r)]]

Scores(m) == IF Playing(m) /\ Running(m.game.life) THEN [m EXCEPT !.game.scored = TRUE] ELSE m
Ends(m) ==
  IF Playing(m) /\ Running(m.game.life)
  THEN [m EXCEPT !.game.life = Ended(@), !.ended = @ \cup {m.game.run}]
  ELSE m

\* What a game may make of a frame or of a key it plays with
Plays(m) == {m, Scores(m), Ends(m), Ends(Scores(m))}

\* update: a run that ended is reported and credited with the frame
\* Mutant: the result waits for a key, as it did before v1.3.0.
BadUpdate(m) == Plays(m)
Update(m) == IF Playing(m) THEN {Drain(Collect(p)) : p \in Plays(m)} ELSE {m}

\* handleKey: Escape leaves the game whatever it is at
Escape(m) ==
  LET left == [m EXCEPT !.game.life = ExitKey(@),
                        !.leftLate = IF m.collected /\ ~ m.game.life.pending
                                     THEN @ \cup {m.game.run} ELSE @]
  IN [Collect(left) EXCEPT !.game = None]

Key(m) ==
  IF ~ Playing(m) THEN {m}
  ELSE Plays(m) \cup {Escape(m), [m EXCEPT !.game.life = PauseKey(@)]}
       \cup (IF CanBegin(m) THEN {ResetGame(m)} ELSE {})

\* setConfig pushes the live subset into the running game.
\* Mutant: it is stored for the next launch only, as before v1.3.0.
BadSetConfig(m, config) == [m EXCEPT !.config = config]
SetConfig(m, config) ==
  IF Playing(m) THEN [m EXCEPT !.config = config, !.game = ApplyLive(@, config)]
                ELSE [m EXCEPT !.config = config]

\* configNeedsRelaunch
\* Mutant: compared with the stored configuration only, as before beta8.
BadConfigNeedsRelaunch(m, config) == config.chart # m.config.chart
ConfigNeedsRelaunch(m, config) ==
  config.chart # m.config.chart \/ (Playing(m) /\ config.chart # m.runChart)

\* runNeedsRelaunch
RunNeedsRelaunch(m) == Playing(m) /\ m.config.chart # m.runChart

\* relaunchCurrentGame
Relaunch(m) == IF Playing(m) THEN Launch(m, m.game.type) ELSE m

(***************************************************************************)
(* What every front-end needs of these functions.                          *)
(***************************************************************************)
Queued(m) == ToSet(m.results)
Reported(m) == Queued(m) \cup {r \in Runs : m.credits[r] > 0}

\* A run that ended is reported, or its game still holds the result; but for
\* one whose player restarted before a frame could report it, and one that
\* found as many results waiting as the queue holds.
EndedIsReported(m) ==
  \A r \in m.ended \ (m.hurried \cup m.lost) :
    r \in Reported(m) \/ (Playing(m) /\ m.game.run = r /\ m.game.life.pending)

\* A run is credited once, and once more only when its player pressed Escape
\* on the screen of a run already reported.
Times(m, r) == m.credits[r] + Occurrences(m.results, r)
CreditedFairly(m) ==
  \A r \in Runs : Times(m, r) <= IF r \in m.leftLate THEN 2 ELSE 1
=============================================================================

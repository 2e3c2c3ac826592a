----------------------------- MODULE RhythmGame -----------------------------
(***************************************************************************)
(* The rhythm game of src/src/core/Arcade.cpp.  A unit of time is the      *)
(* longest frame; a half beat is longer, so no two notes of a chart are    *)
(* due in one frame.                                                       *)
(***************************************************************************)
EXTENDS Integers, Sequences, FiniteSets, GameLife

CONSTANTS
  NoteLanes, Notes,                    \* lanes, notes of a chart
  LeadIn, HalfBeat,                \* time to the first note, between notes
  PerfectWindow, GoodWindow, LateWindow,
  EndPause,                        \* from the end of the last window to the end
  FullHealth, MissCost, BadCost, MaxExtra   \* MaxExtra bounds bad inputs

ASSUME RhythmAssumption ==
  /\ Notes \in Nat \ {0} /\ LeadIn \in Nat /\ HalfBeat \in Nat \ {0}
  /\ GoodWindow \in Nat /\ LateWindow \in Nat /\ EndPause \in Nat \ {0}

VARIABLES
  chart,                   \* m_notes: lane and targetTimeSec, in time order
  state,                   \* of each note
  time,                    \* m_songTime
  judged, misses, health,  \* m_judged, m_misses, m_health
  failMode,                \* m_failMode
  cleared, rhythmLife

tallies == <<judged, misses, health>>
rhythmVars == <<chart, state, time, tallies, failMode, cleared, rhythmLife>>

\* generateChart: a note on every beat, some of them half a beat late
ChartOf(song) ==
  [i \in 1 .. Notes |->
     [lane |-> song.lane[i], at |-> LeadIn + 2 * (i - 1) * HalfBeat + song.late[i]]]
Charts ==
  {ChartOf(song) : song \in [lane : [1 .. Notes -> 1 .. NoteLanes],
                             late : [1 .. Notes -> {0, HalfBeat}]]}

FreshSong(c, s, t, j, m, h, f) ==
  /\ s = [i \in 1 .. Notes |-> "pending"]
  /\ t = 0 /\ j = 0 /\ m = 0 /\ h = FullHealth /\ f = FALSE

RhythmInit ==
  /\ chart \in Charts
  /\ FreshSong(chart, state, time, judged, misses, health, cleared)
  /\ failMode \in BOOLEAN
  /\ rhythmLife = Started

Pending == {i \in 1 .. Notes : state[i] = "pending"}
LastNote == chart[Notes].at
Distance(i) == IF time > chart[i].at THEN time - chart[i].at ELSE chart[i].at - time

\* registerOutcome
GoodOutcome(heal) ==
  /\ judged' = judged + 1
  /\ health' = IF health + heal > FullHealth THEN FullHealth ELSE health + heal
  /\ UNCHANGED <<misses, rhythmLife>>

BadOutcome(cost) ==
  /\ judged' = judged + 1 /\ misses' = misses + 1
  /\ health' = IF failMode THEN health ELSE IF health > cost THEN health - cost ELSE 0
  /\ rhythmLife' = IF failMode \/ health' = 0 THEN Ended(rhythmLife) ELSE rhythmLife

\* judge(): the nearest pending note of the lane, the earlier of two
\* Mutant: the first pending one, however far.
BadNearest(lane) ==
  {i \in Pending : chart[i].lane = lane /\ \A j \in Pending : chart[j].lane = lane => i <= j}
Nearest(lane) ==
  {i \in Pending :
     /\ chart[i].lane = lane
     /\ \A j \in Pending \ {i} : chart[j].lane = lane =>
          Distance(i) < Distance(j) \/ (Distance(i) = Distance(j) /\ i < j)}

Judge(lane) ==
  LET hit == {i \in Nearest(lane) : Distance(i) <= LateWindow} IN
  /\ Running(rhythmLife) /\ misses < MaxExtra
  /\ IF hit = {}
     THEN BadOutcome(MissCost) /\ UNCHANGED state          \* an extra key
     ELSE \E i \in hit :
            IF Distance(i) <= GoodWindow
            THEN /\ state' = [state EXCEPT ![i] = "hit"]
                 /\ GoodOutcome(IF Distance(i) <= PerfectWindow THEN 2 ELSE 1)
            ELSE /\ state' = [state EXCEPT ![i] = "missed"]
                 /\ BadOutcome(BadCost)
  /\ UNCHANGED <<chart, time, failMode, cleared>>

\* update: a note left behind is missed; the chart is cleared when the last
\* window has passed and no note is left
Frame ==
  /\ Running(rhythmLife)
  /\ time' = time + 1
  /\ LET behind == {i \in Pending : time' > chart[i].at + LateWindow} IN
     IF behind # {}
     THEN /\ \E i \in behind : state' = [state EXCEPT ![i] = "missed"]
          /\ BadOutcome(MissCost) /\ UNCHANGED cleared
     ELSE IF time' > LastNote + LateWindow + EndPause /\ Pending = {}
     THEN cleared' = TRUE /\ rhythmLife' = Ended(rhythmLife) /\ UNCHANGED <<state, tallies>>
     ELSE UNCHANGED <<state, tallies, cleared, rhythmLife>>
  /\ UNCHANGED <<chart, failMode>>

\* setFailMode, pushed by the manager into a run that goes on
SetRhythmFailMode ==
  /\ failMode' = ~ failMode
  /\ UNCHANGED <<chart, state, time, tallies, cleared, rhythmLife>>

\* reset() keeps the chart
RhythmRestart ==
  /\ FreshSong(chart, state', time', judged', misses', health', cleared')
  /\ rhythmLife' = Restarted(rhythmLife)
  /\ UNCHANGED <<chart, failMode>>

RhythmLifeKey ==
  /\ rhythmLife' \in {ExitKey(rhythmLife), PauseKey(rhythmLife), Polled(rhythmLife)}
  /\ UNCHANGED <<chart, state, time, tallies, failMode, cleared>>

\* The manager drops a game that asked to leave.
RhythmNext ==
  /\ ~ rhythmLife.exiting
  /\ \/ \E lane \in 1 .. NoteLanes : Judge(lane)
     \/ Frame
     \/ SetRhythmFailMode
     \/ RhythmRestart
     \/ RhythmLifeKey

RhythmSpec == RhythmInit /\ [][RhythmNext]_rhythmVars

-----------------------------------------------------------------------------
Missed == {i \in 1 .. Notes : state[i] = "missed"}

\* However keys and frames interleave, every note is judged once and within
\* its window: outcomes beyond one a note are extra keys, a note that waits
\* can still be hit, and a run that was not lost ends soon after the last
\* window, with every note judged.
EveryNoteOnce ==
  /\ judged - Cardinality((1 .. Notes) \ Pending) = misses - Cardinality(Missed)
  /\ ~ rhythmLife.over => \A i \in Pending : time <= chart[i].at + LateWindow
  /\ ~ rhythmLife.over => time <= LastNote + LateWindow + EndPause
  /\ cleared => rhythmLife.over /\ Pending = {}
  /\ rhythmLife.over /\ ~ cleared => misses > 0

\* A key within the window of a note of its lane never counts as extra.
\* (A far note must not swallow the key meant for the near one.)
NoSwallowedKey ==
  \A lane \in 1 .. NoteLanes :
    (\E i \in Pending : chart[i].lane = lane /\ Distance(i) <= GoodWindow)
      => \E i \in Nearest(lane) : Distance(i) <= GoodWindow
=============================================================================

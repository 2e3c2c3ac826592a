---------------------------- MODULE WasdRaceGame ----------------------------
(***************************************************************************)
(* The road game of src/src/core/Arcade.cpp: typing fuels the car, which   *)
(* the arrows steer, and the letters a, d, w, s too where the player chose *)
(* so or types English.  Distance is in steps of the road; when the next   *)
(* obstacle comes is left open.                                            *)
(***************************************************************************)
EXTENDS TypedText, FiniteSets, GameLife

CONSTANTS
  Lanes,              \* 3 in the code
  RoadLength,         \* where obstacles appear (100)
  RowDepth,           \* how near obstacles form one row (25)
  MaxObstacles,       \* 8
  StartFuel, FuelGain, FuelMax, CrashCost,
  MaxRoadText         \* bound: symbols typed on the road

\* The car starts in the second lane with fuel.
ASSUME RoadAssumption ==
  /\ Lanes \in Nat \ {0, 1} /\ RoadLength \in Nat \ {0} /\ RowDepth \in Nat
  /\ FuelMax \in Nat /\ StartFuel \in 1 .. FuelMax /\ FuelGain \in Nat /\ CrashCost \in Nat

VARIABLES
  roadVn, steering,       \* m_vnMode, m_steering has letters
  roadTyped, roadIndex,       \* m_composer, m_textIndex
  lane,               \* m_playerLane
  obstacles,          \* m_obstacles: <<lane, dist>>
  fuel,               \* m_fuel
  roadLife

car == <<lane, obstacles, fuel>>
roadVars == <<roadVn, steering, roadTyped, roadIndex, car, roadLife>>

FreshRoad(t, i, l, o, f) ==
  t = Nothing /\ i = 0 /\ l = 1 /\ o = {} /\ f = StartFuel

RoadInit ==
  /\ roadVn \in BOOLEAN /\ steering \in BOOLEAN
  /\ FreshRoad(roadTyped, roadIndex, lane, obstacles, fuel)
  /\ roadLife = Started

\* spawnObstacle: no obstacle closes the last lane of a row
\* Mutant: the lane of the new obstacle is not counted.
BadRowStaysOpen(l) == {o[1] : o \in {p \in obstacles : p[2] > RoadLength - RowDepth}} # 0 .. Lanes - 1
RowStaysOpen(l) ==
  {l} \cup {o[1] : o \in {p \in obstacles : p[2] > RoadLength - RowDepth}} # 0 .. Lanes - 1

SpawnObstacle ==
  /\ Running(roadLife) /\ Cardinality(obstacles) < MaxObstacles
  /\ \E l \in 0 .. Lanes - 1 :
       /\ <<l, RoadLength>> \notin obstacles
       /\ RowStaysOpen(l)
       /\ obstacles' = obstacles \cup {<<l, RoadLength>>}
  /\ UNCHANGED <<roadVn, steering, roadTyped, roadIndex, lane, fuel, roadLife>>

Minus(a, b) == IF a > b THEN a - b ELSE 0

\* update: the car burns fuel and comes nearer to every obstacle; the one it
\* meets in its lane costs fuel.  Of a run that is over nothing but the
\* result is looked at.
Drive ==
  LET met == {o \in obstacles : o[2] = 1}
      crash == \E o \in met : o[1] = lane
  IN
  /\ Running(roadLife)
  /\ \E burnt \in {fuel, fuel - 1} : fuel' = IF crash THEN Minus(burnt, CrashCost) ELSE burnt
  /\ IF fuel' = 0
     THEN roadLife' = Ended(roadLife) /\ UNCHANGED obstacles
     ELSE /\ obstacles' = {<<o[1], o[2] - 1>> : o \in obstacles \ met}
          /\ UNCHANGED roadLife
  /\ UNCHANGED <<roadVn, steering, roadTyped, roadIndex, lane>>

SteerLeft == Minus(lane, 1)
SteerRight == IF lane = Lanes - 1 THEN lane ELSE lane + 1

\* handleKey: the arrows
Arrow ==
  /\ Running(roadLife)
  /\ lane' \in {SteerLeft, SteerRight}
  /\ UNCHANGED <<roadVn, steering, roadTyped, roadIndex, obstacles, fuel, roadLife>>

\* n symbols of the passage more; at its end it begins again
Fuel(n) == fuel' = IF fuel + n * FuelGain > FuelMax THEN FuelMax ELSE fuel + n * FuelGain

\* a letter that steers types as well
RoadEnglish(s) ==
  /\ Running(roadLife) /\ ~ roadVn
  /\ lane' = CASE s = "a" -> SteerLeft [] s = "d" -> SteerRight [] OTHER -> lane
  /\ IF s = Target[roadIndex + 1]
     THEN roadIndex' = (roadIndex + 1) % Len(Target) /\ Fuel(1)
     ELSE UNCHANGED <<roadIndex, fuel>>
  /\ UNCHANGED <<roadVn, steering, roadTyped, obstacles, roadLife>>

RoadBackspace ==
  /\ Running(roadLife)
  /\ IF roadVn
     THEN roadTyped' = FeedBackspace(roadTyped) /\ roadIndex' = MatchLength(roadTyped')
     ELSE roadIndex' = Minus(roadIndex, 1) /\ UNCHANGED roadTyped
  /\ UNCHANGED <<roadVn, steering, car, roadLife>>

\* Mutant: the composer keeps the passage when it begins again.
BadLoop(t) == roadTyped' = t /\ roadIndex' = MatchLength(t) % Len(Target)
Loop(t) ==
  IF MatchLength(t) = Len(Target)
  THEN roadTyped' = Nothing /\ roadIndex' = 0
  ELSE roadTyped' = t /\ roadIndex' = MatchLength(t)

\* A key makes one of the texts; what matches more is fuel.
Fed(texts) ==
  \E t \in texts :
    Len(t.text) <= MaxRoadText /\ Loop(t) /\ Fuel(Minus(MatchLength(t), roadIndex))

VnKey ==
  /\ Running(roadLife) /\ roadVn
  /\ \/ /\ Fed(FeedLetter(roadTyped))
        /\ lane' \in IF steering THEN {lane, SteerLeft, SteerRight} ELSE {lane}
     \/ Fed(FeedSpace(roadTyped)) /\ UNCHANGED lane
  /\ UNCHANGED <<roadVn, steering, obstacles, roadLife>>

RoadRestart ==
  /\ FreshRoad(roadTyped', roadIndex', lane', obstacles', fuel')
  /\ roadLife' = Restarted(roadLife)
  /\ UNCHANGED <<roadVn, steering>>

RoadLifeKey ==
  /\ roadLife' \in {ExitKey(roadLife), PauseKey(roadLife), Polled(roadLife)}
  /\ UNCHANGED <<roadVn, steering, roadTyped, roadIndex, car>>

\* The manager drops a game that asked to leave.
RoadNext ==
  /\ ~ roadLife.exiting
  /\ \/ SpawnObstacle
     \/ Drive
     \/ Arrow
     \/ \E s \in Symbols : RoadEnglish(s)
     \/ RoadBackspace
     \/ VnKey
     \/ RoadRestart
     \/ RoadLifeKey

RoadSpec == RoadInit /\ [][RoadNext]_roadVars

-----------------------------------------------------------------------------
\* The obstacles of a row, however the car's speed spaced them, leave a lane
\* to drive through ("never spawn an unavoidable wall").
NoWall ==
  \A o \in obstacles :
    {p[1] : p \in {q \in obstacles : o[2] - RowDepth < q[2] /\ q[2] <= o[2]}} # 0 .. Lanes - 1

\* A run goes on as long as there is fuel, and the passage always has a next
\* symbol to type for it.
Fuelled ==
  /\ fuel \in 0 .. FuelMax /\ (roadLife.over <=> fuel = 0)
  /\ roadIndex < Len(Target) /\ (roadVn => roadIndex = MatchLength(roadTyped))
=============================================================================

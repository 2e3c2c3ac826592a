----------------------------- MODULE SnakeGame ------------------------------
(***************************************************************************)
(* The snake of src/src/core/Arcade.cpp on a board of Width by Height      *)
(* cells (20 by 15 in the code).  A frame is shorter than the tick, so an  *)
(* update makes at most one step.                                          *)
(***************************************************************************)
EXTENDS Integers, Sequences, SequencesExt, GameLife

CONSTANTS
  Width, Height,
  Start        \* the body at the start, head first

VARIABLES
  body,        \* m_body, head first
  food,        \* m_food
  dir, next,   \* m_dir: of the last step; m_nextDir: of the next one
  snakeLife

snakeVars == <<body, food, dir, next, snakeLife>>

Cell == (0 .. Width - 1) \X (0 .. Height - 1)
Nowhere == <<-1, -1>>

Step == [Up |-> <<0, -1>>, Down |-> <<0, 1>>, Left |-> <<-1, 0>>, Right |-> <<1, 0>>]
Opposite == [Up |-> "Down", Down |-> "Up", Left |-> "Right", Right |-> "Left"]
Directions == DOMAIN Step

Ahead(cell, d) == <<cell[1] + Step[d][1], cell[2] + Step[d][2]>>

\* The snake starts to the right, across the board.
ASSUME SnakeAssumption ==
  /\ Start \in Seq(Cell) /\ Len(Start) >= 2
  /\ \A i, j \in DOMAIN Start : i # j => Start[i] # Start[j]
  /\ \A i \in 1 .. Len(Start) - 1 : Start[i] = Ahead(Start[i + 1], "Right")

\* spawnFood: 200 random cells, then the first free one: any free cell
Food(b) ==
  LET free == Cell \ ToSet(b) IN IF free = {} THEN {Nowhere} ELSE free

FreshSnake(b, f, d, n) == /\ b = Start
                     /\ f \in Food(Start)
                     /\ d = "Right" /\ n = "Right"

SnakeInit == FreshSnake(body, food, dir, next) /\ snakeLife = Started

(***************************************************************************)
(* step(): the tail leaves its cell in the same step, so the head may      *)
(* enter it, unless the snake grows.                                       *)
(***************************************************************************)
Obstacles(eats) == ToSet(IF eats THEN body ELSE Front(body))

StepOn ==
  LET head == Ahead(Head(body), next)
      eats == head = food
  IN
  /\ Running(snakeLife)
  /\ dir' = next
  /\ IF head \notin Cell \/ head \in Obstacles(eats)
     THEN snakeLife' = Ended(snakeLife) /\ UNCHANGED <<body, food>>
     ELSE /\ body' = <<head>> \o (IF eats THEN body ELSE Front(body))
          /\ food' \in IF eats THEN Food(body') ELSE {food}
          /\ UNCHANGED snakeLife
  /\ UNCHANGED next

\* A turn is judged by the direction of the last step, not by the last turn:
\* two turns between two steps cannot reverse the snake.
\* Mutant: judged by the turn before it.
BadTurnAllowed(d) == d # Opposite[next]
TurnAllowed(d) == d # Opposite[dir]

Turn(d) ==
  /\ TurnAllowed(d)
  /\ next' = d
  /\ UNCHANGED <<body, food, dir, snakeLife>>

SnakeRestart ==
  /\ FreshSnake(body', food', dir', next')
  /\ snakeLife' = Restarted(snakeLife)

SnakeLifeKey ==
  /\ snakeLife' \in {ExitKey(snakeLife), PauseKey(snakeLife), Polled(snakeLife)}
  /\ UNCHANGED <<body, food, dir, next>>

\* The manager drops a game that asked to leave.
SnakeNext ==
  /\ ~ snakeLife.exiting
  /\ \/ StepOn
     \/ \E d \in Directions : Turn(d)
     \/ SnakeRestart
     \/ SnakeLifeKey

SnakeSpec == SnakeInit /\ [][SnakeNext]_snakeVars

-----------------------------------------------------------------------------
\* The body is a chain of different cells on the board, each next to the
\* one before it.
Chain ==
  /\ body \in Seq(Cell) /\ Len(body) >= 2
  /\ \A i, j \in DOMAIN body : i # j => body[i] # body[j]
  /\ \A i \in 1 .. Len(body) - 1 : \E d \in Directions : body[i] = Ahead(body[i + 1], d)

\* Food lies on a free cell of the board, and only a full board has none
\* ("a nearly full board can never leave food inside the snake").
FoodIsFree == food \in Food(body)

\* No sequence of turns, accepted also while the game is paused, makes the
\* next step enter the neck: a reversal can never be what ends a run.
NoReversal == ~ snakeLife.over => Ahead(Head(body), next) # body[2]

SnakeSound == Chain /\ FoodIsFree /\ NoReversal
=============================================================================

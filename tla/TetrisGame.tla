----------------------------- MODULE TetrisGame -----------------------------
(***************************************************************************)
(* The falling blocks of src/src/core/Arcade.cpp on a board of Cols by     *)
(* Rows cells (10 by 20 in the code).  A frame is shorter than the drop    *)
(* interval, so an update makes at most one gravity step.                  *)
(***************************************************************************)
EXTENDS Integers, Sequences, FiniteSets, SequencesExt, GameLife

CONSTANTS
  Cols, Rows,
  SpawnX,      \* 3 in the code
  Pieces       \* the pieces of a bag, out of 0 .. 6

\* A piece spawns within the sides and the first two rows.
ASSUME TetrisAssumption ==
  /\ Cols \in Nat \ {0} /\ Rows \in Nat \ {0, 1}
  /\ SpawnX \in Nat /\ SpawnX + 3 < Cols
  /\ Pieces \subseteq 0 .. 6 /\ Pieces # {}

VARIABLES
  grid,            \* m_grid: the filled cells
  cur, x, y, rot,  \* m_curPiece, m_curX, m_curY, m_curRot
  upcoming,        \* m_nextPiece
  bag,             \* what m_bag holds from m_bagIndex on
  grace,           \* m_lockTimer < 0.5
  tetrisLife

tetrisVars == <<grid, cur, x, y, rot, upcoming, bag, grace, tetrisLife>>

\* kPieces: the cells of each piece in each rotation, <<dx, dy>>
Shape ==
  LET I == {<<0,0>>,<<1,0>>,<<2,0>>,<<3,0>>}
      I1 == {<<2,-1>>,<<2,0>>,<<2,1>>,<<2,2>>}
      O == {<<1,0>>,<<2,0>>,<<1,1>>,<<2,1>>}
      S == {<<1,0>>,<<2,0>>,<<0,1>>,<<1,1>>}
      S1 == {<<1,0>>,<<1,1>>,<<2,1>>,<<2,2>>}
      Z == {<<0,0>>,<<1,0>>,<<1,1>>,<<2,1>>}
      Z1 == {<<2,0>>,<<1,1>>,<<2,1>>,<<1,2>>}
  IN <<<<I, I1, I, I1>>, <<O, O, O, O>>,
       <<{<<1,0>>,<<0,1>>,<<1,1>>,<<2,1>>}, {<<1,0>>,<<1,1>>,<<2,1>>,<<1,2>>},
         {<<0,1>>,<<1,1>>,<<2,1>>,<<1,2>>}, {<<1,0>>,<<0,1>>,<<1,1>>,<<1,2>>}>>,
       <<S, S1, S, S1>>, <<Z, Z1, Z, Z1>>,
       <<{<<0,0>>,<<0,1>>,<<1,1>>,<<2,1>>}, {<<1,0>>,<<2,0>>,<<1,1>>,<<1,2>>},
         {<<0,1>>,<<1,1>>,<<2,1>>,<<2,2>>}, {<<1,0>>,<<1,1>>,<<0,2>>,<<1,2>>}>>,
       <<{<<2,0>>,<<0,1>>,<<1,1>>,<<2,1>>}, {<<1,0>>,<<1,1>>,<<1,2>>,<<2,2>>},
         {<<0,1>>,<<1,1>>,<<2,1>>,<<0,2>>}, {<<0,0>>,<<1,0>>,<<1,1>>,<<1,2>>}>> >>

Cells(p, px, py, r) == {<<px + c[1], py + c[2]>> : c \in Shape[p + 1][r + 1]}

\* collidesPiece: nothing is above the board
Collides(g, p, px, py, r) ==
  \E c \in Cells(p, px, py, r) :
    c[1] < 0 \/ c[1] >= Cols \/ c[2] >= Rows \/ c \in g

\* nextFromBag, refillBag: a bag is shuffled when the last one is used up
Draws(b) == IF b = {} THEN Pieces ELSE b
Rest(b, p) == Draws(b) \ {p}

\* clearLines: what is left of full rows' neighbours drops by the full rows
\* below it.
\* Mutant: the row that takes a cleared row's place is not looked at again.
BadCleared(g) ==
  LET FullRow(r) == \A c \in 0 .. Cols - 1 : <<c, r>> \in g
      full == {r \in 0 .. Rows - 1 : FullRow(r) /\ ~ FullRow(r + 1)}
      Below(r) == Cardinality({f \in full : f > r})
  IN {<<c[1], c[2] + Below(c[2])>> : c \in {d \in g : d[2] \notin full}}
Cleared(g) ==
  LET full == {r \in 0 .. Rows - 1 : \A c \in 0 .. Cols - 1 : <<c, r>> \in g}
      Below(r) == Cardinality({f \in full : f > r})
  IN {<<c[1], c[2] + Below(c[2])>> : c \in {d \in g : d[2] \notin full}}

-----------------------------------------------------------------------------
\* spawnPiece over the grid g: a piece that does not fit ends the run
Spawn(g, piece, b, l) ==
  /\ grid' = g
  /\ cur' = piece /\ x' = SpawnX /\ y' = 0 /\ rot' = 0
  /\ \E p \in Draws(b) : upcoming' = p /\ bag' = Rest(b, p)
  /\ grace' = TRUE
  /\ tetrisLife' = IF Collides(g, piece, SpawnX, 0, 0) THEN Ended(l) ELSE l

\* start(): an empty grid and a fresh bag
TetrisInit ==
  \E first, second \in Pieces :
    /\ second \in Draws(Rest({}, first))
    /\ grid = {}
    /\ cur = first /\ x = SpawnX /\ y = 0 /\ rot = 0
    /\ upcoming = second /\ bag = Rest(Rest({}, first), second)
    /\ grace = TRUE
    /\ tetrisLife = Started

\* reset()
TetrisRestart ==
  \E first \in Pieces : Spawn({}, first, Rest({}, first), Restarted(tetrisLife))

\* lockPiece at row py: cells above the board are lost
LockPiece(py) ==
  LET landed == {c \in Cells(cur, x, py, rot) : c[2] >= 0}
  IN Spawn(Cleared(grid \cup landed), upcoming, bag, tetrisLife)

\* tryMove
Move(dx, dy) ==
  /\ Running(tetrisLife)
  /\ ~ Collides(grid, cur, x + dx, y + dy, rot)
  /\ x' = x + dx /\ y' = y + dy
  /\ UNCHANGED <<grid, cur, rot, upcoming, bag, grace, tetrisLife>>

\* tryRotate: in place, then one and two columns to either side
Rotate ==
  LET turned == (rot + 1) % 4
      kicks == <<0, -1, 1, -2, 2>>
      fits(k) == ~ Collides(grid, cur, x + k, y, turned)
  IN
  /\ Running(tetrisLife)
  /\ \E i \in DOMAIN kicks :
       /\ fits(kicks[i]) /\ \A j \in 1 .. i - 1 : ~ fits(kicks[j])
       /\ x' = x + kicks[i] /\ rot' = turned
  /\ UNCHANGED <<grid, cur, y, upcoming, bag, grace, tetrisLife>>

\* getGhostY: the row a hard drop lands in
GhostY ==
  CHOOSE py \in y .. Rows :
    /\ Collides(grid, cur, x, py + 1, rot)
    /\ \A q \in y + 1 .. py : ~ Collides(grid, cur, x, q, rot)

HardDrop == Running(tetrisLife) /\ LockPiece(GhostY)

\* update: the timer runs from the last gravity step that moved the piece
Elapse ==
  /\ Running(tetrisLife) /\ grace
  /\ grace' = FALSE
  /\ UNCHANGED <<grid, cur, x, y, rot, upcoming, bag, tetrisLife>>

Gravity ==
  /\ Running(tetrisLife)
  /\ IF Collides(grid, cur, x, y + 1, rot)
     THEN ~ grace /\ LockPiece(y)
     ELSE /\ y' = y + 1 /\ grace' = TRUE
          /\ UNCHANGED <<grid, cur, x, rot, upcoming, bag, tetrisLife>>

TetrisLifeKey ==
  /\ tetrisLife' \in {ExitKey(tetrisLife), PauseKey(tetrisLife), Polled(tetrisLife)}
  /\ UNCHANGED <<grid, cur, x, y, rot, upcoming, bag, grace>>

\* The manager drops a game that asked to leave.
TetrisNext ==
  /\ ~ tetrisLife.exiting
  /\ \/ \E dx \in {-1, 1} : Move(dx, 0)
     \/ Move(0, 1)
     \/ Rotate
     \/ HardDrop
     \/ Elapse
     \/ Gravity
     \/ TetrisRestart
     \/ TetrisLifeKey

TetrisSpec == TetrisInit /\ [][TetrisNext]_tetrisVars

-----------------------------------------------------------------------------
\* Whatever moves, turns and drops are made and wherever rows vanish, the
\* falling piece overlaps nothing and hangs over no side of the board until
\* the run is over; what is on the grid is on the board, in no full row, and
\* ends a run only when the piece to come has no room.
TetrisSound ==
  /\ grid \subseteq (0 .. Cols - 1) \X (0 .. Rows - 1)
  /\ tetrisLife.over <=> Collides(grid, cur, x, y, rot)
  /\ \A r \in 0 .. Rows - 1 : \E c \in 0 .. Cols - 1 : <<c, r>> \notin grid

\* The preview is a piece of the bag the current piece came from, or of the
\* next: until a bag is used up no piece comes twice.
BagIsFair == bag \subseteq Pieces \ {upcoming} /\ (cur \in bag => bag \cup {upcoming} = Pieces)
=============================================================================

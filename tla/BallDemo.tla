------------------------------ MODULE BallDemo -----------------------------
(***************************************************************************)
(* led.c: the sleep animation, two balls that bounce on the grid of        *)
(* buttons.  An update scans the grid row by row and moves the ball it     *)
(* meets in each cell; a ball that moves ahead of the scan is met, and     *)
(* moved, again.                                                           *)
(***************************************************************************)
EXTENDS Integers

CONSTANTS
  ROWS, COLS,          \* the grid: 8 by 8
  Vertical,            \* vertical_slowdown_factors, by rows below the ceiling
  Horizontal,          \* the random horizontal factors: 8..39
  OVERRIDE,            \* OVERRIDE_BALL_SLOWDOWN_FACTOR
  DELAY,               \* BALL_DEMO_NEW_BALL_DELAY_LIMIT
  MAX_SETUPS           \* bound: times the device falls asleep again

ASSUME BallAssumption ==
  /\ ROWS \in Nat /\ ROWS > 2 /\ COLS \in Nat \ {0} /\ DELAY \in Nat \ {0} /\ MAX_SETUPS \in Nat
  /\ Vertical \in [0 .. (ROWS - 1) -> Nat \ {0}]
  /\ Horizontal \subseteq Nat \ {0} /\ OVERRIDE \in Nat

Ball == 0..1
NONE == 2                                    \* BALL_DEMO_MAX_BALLS: an empty cell
Cell == (0 .. (ROWS - 1)) \X (0 .. (COLS - 1))

VARIABLES
  ball_grid,
  ball,                      \* the ball_... arrays, by ball
  ball_index,                \* the next ball's
  new_ball_delay_counter,
  direction,                 \* the last ball came from the right
  cursor,                    \* the scan: cells passed,
  balls_on_grid,             \*   balls met,
  disable_collision,         \*   and balls that were run into
  setups                     \* setups so far

ballVars == <<ball_grid, ball, ball_index, new_ball_delay_counter, direction, cursor,
              balls_on_grid, disable_collision, setups>>

\* left and down are ball_horizontal_direction and ball_vertical_direction.
Still == [left |-> FALSE, down |-> FALSE, hcount |-> 0, vcount |-> 0, factor |-> 0, max |-> 0]

\* After the first ball_demo_setup.
BallInit ==
  /\ ball_grid = [c \in Cell |-> NONE]
  /\ ball = [b \in Ball |-> Still]
  /\ ball_index = 0
  /\ new_ball_delay_counter = DELAY
  /\ direction = TRUE
  /\ cursor = 0 /\ balls_on_grid = 0 /\ disable_collision = {}
  /\ setups = 0

\* ball_demo_setup, when the device falls asleep again.
ball_demo_setup ==
  /\ setups < MAX_SETUPS /\ cursor = 0
  /\ ball_grid' = [c \in Cell |-> NONE]
  /\ setups' = setups + 1
  /\ UNCHANGED <<ball, ball_index, new_ball_delay_counter, direction, cursor, balls_on_grid,
                 disable_collision>>

\* Where a ball goes on one axis, and the ball after that: it waits, moves, or turns
\* at a wall, to move at the next update.
move_ball_horizontally(b, col) ==
  LET to == IF b.left THEN col - 1 ELSE col + 1
  IN  IF b.hcount + 1 < b.factor THEN <<col, [b EXCEPT !.hcount = @ + 1]>>
      ELSE IF to \in 0 .. (COLS - 1) THEN <<to, [b EXCEPT !.hcount = 0]>>
      ELSE <<col, [b EXCEPT !.left = ~@, !.hcount = b.factor]>>

\* Mutant: the ceiling is the grid's, not the ball's.
move_ball_vertically_grid(b, row) ==
  LET factor == Vertical[(b.max - row) % ROWS]
      to == IF b.down THEN row - 1 ELSE row + 1
  IN  IF b.vcount + 1 < factor THEN <<row, [b EXCEPT !.vcount = @ + 1]>>
      ELSE IF to \in 0 .. (ROWS - 1) THEN <<to, [b EXCEPT !.vcount = 0]>>
      ELSE <<row, [b EXCEPT !.down = ~@, !.vcount = factor]>>

move_ball_vertically(b, row) ==
  LET factor == Vertical[(b.max - row) % ROWS]
      to == IF b.down THEN row - 1 ELSE row + 1
  IN  IF b.vcount + 1 < factor THEN <<row, [b EXCEPT !.vcount = @ + 1]>>
      ELSE IF to \in 0 .. b.max THEN <<to, [b EXCEPT !.vcount = 0]>>
      ELSE <<row, [b EXCEPT !.down = ~@, !.vcount = factor]>>

\* The two balls after this_ball ran into that_ball.  Neither changes its cell.  The
\* branch for repeated collisions is never taken: last_this_ball is never assigned.
Collided(balls, this_ball, that_ball, cell, to, disabled) ==
  LET v == IF disabled \/ to[1] = cell[1] THEN balls
           ELSE [balls EXCEPT ![this_ball].down = (to[1] < cell[1]),
                              ![this_ball].vcount = OVERRIDE,
                              ![that_ball].down = (to[1] > cell[1])]
  IN  IF to[2] = cell[2] THEN v
      ELSE [v EXCEPT ![this_ball].left = (to[2] < cell[2]),
                     ![this_ball].hcount = OVERRIDE,
                     ![that_ball].left = (to[2] > cell[2])]

\* The grid after the ball in a cell moved to an open one.
Moved(cell, to) == [ball_grid EXCEPT ![cell] = NONE, ![to] = ball_grid[cell]]

\* The scan of ball_demo_run meets a ball in the next cell that holds one.
CellIndex(cell) == cell[1] * COLS + cell[2]
Ahead == {c \in Cell : ball_grid[c] # NONE /\ CellIndex(c) >= cursor}
Visit ==
  \E cell \in Ahead :
    LET b == ball_grid[cell]
        h == move_ball_horizontally(ball[b], cell[2])
        v == move_ball_vertically(h[2], cell[1])
        to == <<v[1], h[1]>>
        that == ball_grid[to]
        moved == [ball EXCEPT ![b] = v[2]]
    IN  /\ \A c \in Ahead : CellIndex(cell) <= CellIndex(c)
        /\ cursor' = CellIndex(cell) + 1
        /\ balls_on_grid' = balls_on_grid + 1
        /\ IF that \in {NONE, b}
           THEN /\ ball' = moved
                /\ ball_grid' = IF that = b THEN ball_grid ELSE Moved(cell, to)
                /\ UNCHANGED disable_collision
           ELSE /\ ball' = Collided(moved, b, that, cell, to, b \in disable_collision)
                /\ disable_collision' = disable_collision \cup {that}
                /\ UNCHANGED ball_grid
        /\ UNCHANGED <<ball_index, new_ball_delay_counter, direction, setups>>

\* Mutant: the index is advanced when the ball cannot be placed.
new_ball_skips(row, factor) ==
  LET left == ~direction
      cell == <<row, IF left THEN COLS - 1 ELSE 0>>
  IN  IF new_ball_delay_counter + 1 < DELAY
      THEN /\ new_ball_delay_counter' = new_ball_delay_counter + 1
           /\ UNCHANGED <<ball_grid, ball, ball_index, direction>>
      ELSE /\ new_ball_delay_counter' = 0
           /\ direction' = left
           /\ ball_index' = (ball_index + 1) % 2
           /\ IF ball_grid[cell] # NONE
              THEN UNCHANGED <<ball_grid, ball>>
              ELSE /\ ball_grid' = [ball_grid EXCEPT ![cell] = ball_index]
                   /\ ball' = [ball EXCEPT ![ball_index] =
                                 [Still EXCEPT !.left = left, !.factor = factor, !.max = row]]

\* new_ball, with its random row and speed; the lowest ceiling is row 2.
new_ball(row, factor) ==
  LET left == ~direction
      cell == <<row, IF left THEN COLS - 1 ELSE 0>>
  IN  IF new_ball_delay_counter + 1 < DELAY
      THEN /\ new_ball_delay_counter' = new_ball_delay_counter + 1
           /\ UNCHANGED <<ball_grid, ball, ball_index, direction>>
      ELSE /\ new_ball_delay_counter' = 0
           /\ direction' = left
           /\ IF ball_grid[cell] # NONE
              THEN /\ ball' = [ball EXCEPT ![ball_index].left = left]
                   /\ UNCHANGED <<ball_grid, ball_index>>
              ELSE /\ ball_grid' = [ball_grid EXCEPT ![cell] = ball_index]
                   /\ ball' = [ball EXCEPT ![ball_index] =
                                 [Still EXCEPT !.left = left, !.factor = factor, !.max = row]]
                   /\ ball_index' = (ball_index + 1) % 2

\* The end of the scan, and g_led_counter[2] at 0 again: the next scan.
EndScan ==
  /\ Ahead = {}
  /\ IF balls_on_grid < 2
     THEN \E row \in 2 .. (ROWS - 1), factor \in Horizontal : new_ball(row, factor)
     ELSE UNCHANGED <<ball_grid, ball, ball_index, new_ball_delay_counter, direction>>
  /\ cursor' = 0 /\ balls_on_grid' = 0 /\ disable_collision' = {}
  /\ UNCHANGED setups

BallNext == ball_demo_setup \/ Visit \/ EndScan
BallFairness == WF_ballVars(Visit \/ EndScan)
BallSpec == BallInit /\ [][BallNext]_ballVars /\ BallFairness

----------------------------------------------------------------------------
CellsOf(b) == {c \in Cell : ball_grid[c] = b}

\* Types; a ball is never above its own ceiling, which indexes the speed table.
BallTypeOK ==
  /\ ball_grid \in [Cell -> Ball \cup {NONE}]
  /\ ball \in [Ball -> [left : BOOLEAN, down : BOOLEAN, hcount : Nat, vcount : Nat,
                        factor : Horizontal \cup {0}, max : 0 .. (ROWS - 1)]]
  /\ \A b \in Ball : \A c \in CellsOf(b) : c[1] <= ball[b].max
  /\ ball_index \in Ball /\ direction \in BOOLEAN
  /\ cursor \in 0 .. (ROWS * COLS) /\ balls_on_grid \in Nat /\ disable_collision \subseteq Ball
  /\ new_ball_delay_counter \in 0..DELAY /\ setups \in 0..MAX_SETUPS

\* A ball is in one cell at most, although the scan may meet it twice, a new ball
\* takes the next index without looking for a free one, and balls collide.
OneCellPerBall == \A b \in Ball : \A c, d \in CellsOf(b) : c = d

\* The show goes on: both balls come, and neither stops for good. Balls that run
\* into each other come free again, though a collision turns each to the other.
BothBallsKeepMoving == \A b \in Ball : []<><<CellsOf(b)' # CellsOf(b)>>_ballVars
=============================================================================

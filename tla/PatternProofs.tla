---------------------------- MODULE PatternProofs ---------------------------
(***************************************************************************)
(* What is drawn on the grid: each ball of the demo in one cell, for every *)
(* size of the grid, and the shapes for every button and step.             *)
(***************************************************************************)
EXTENDS BallDemo, Shapes, TLAPS

\* A step that names no prover is given to Zenon, then to the SMT solver.
USE ZenonT(20), SMTT(30)

----------------------------------------------------------------------------
(* The ball demo.                                                          *)

BallRecord == [left : BOOLEAN, down : BOOLEAN, hcount : Nat, vcount : Nat,
               factor : Horizontal \cup {0}, max : 0 .. (ROWS - 1)]

\* The scan has passed ball b.
Passed(b) == \E c \in CellsOf(b) : CellIndex(c) < cursor

\* The scan has met every ball it passed, so that it ends with fewer than two balls
\* met only if fewer than two are there.
AllMet ==
  /\ Passed(0) \/ Passed(1) => balls_on_grid >= 1
  /\ Passed(0) /\ Passed(1) => balls_on_grid >= 2

\* The balls come in turn: the next one is there only if the other one is.
InTurn == CellsOf(ball_index) # {} => CellsOf(1 - ball_index) # {}

GridInv == BallTypeOK /\ OneCellPerBall /\ AllMet /\ InTurn

\* The cells of a row come after those of the rows above.
LEMMA RowsApart ==
  ASSUME NEW r \in Int, NEW s \in Int, r < s
  PROVE  COLS * r + COLS <= COLS * s /\ COLS * r \in Int /\ COLS * s \in Int
<1>1. COLS \in Nat \ {0}
  BY BallAssumption
<1>2. \A d \in Nat : d >= 1 => COLS * d >= COLS
  BY <1>1
<1>3. s - r \in Nat /\ s - r >= 1
  OBVIOUS
<1>4. COLS * (s - r) >= COLS
  BY <1>2, <1>3
<1>5. COLS * (s - r) = COLS * s - COLS * r /\ COLS * s \in Int /\ COLS * r \in Int
  BY <1>1
<1> QED
  BY <1>1, <1>4, <1>5

\* Cells are numbered row by row, each with a number of its own.
LEMMA CellNumbers ==
  ASSUME NEW c \in Cell
  PROVE  /\ c[1] \in 0 .. (ROWS - 1) /\ c[2] \in 0 .. (COLS - 1) /\ c = <<c[1], c[2]>>
         /\ CellIndex(c) \in Nat /\ CellIndex(c) + 1 <= ROWS * COLS
         /\ \A d \in Cell : CellIndex(c) = CellIndex(d) => c = d
<1>1. ROWS \in Nat /\ COLS \in Nat \ {0} /\ ROWS * COLS \in Nat
  BY BallAssumption, SMTT(30) DEF BallAssumption
<1>2. \A d \in Cell : /\ d[1] \in 0 .. (ROWS - 1) /\ d[2] \in 0 .. (COLS - 1)
                      /\ d = <<d[1], d[2]>>
  BY DEF Cell
<1>3. \A d \in Cell : CellIndex(d) \in Nat /\ CellIndex(d) = COLS * d[1] + d[2]
  BY <1>1, <1>2 DEF CellIndex
<1>4. CellIndex(c) + 1 <= ROWS * COLS
  <2>1. COLS * c[1] + COLS <= COLS * ROWS
    BY <1>1, <1>2, RowsApart, SMTT(30)
  <2>2. COLS * ROWS = ROWS * COLS /\ COLS * c[1] \in Nat
    BY <1>1, <1>2
  <2> QED
    BY <1>1, <1>2, <1>3, <2>1, <2>2, SMTT(30)
<1>5. ASSUME NEW d \in Cell, CellIndex(c) = CellIndex(d) PROVE c = d
  <2>1. ~(c[1] < d[1]) /\ ~(d[1] < c[1])
    BY <1>1, <1>2, <1>3, <1>5, RowsApart
  <2>2. c[1] = d[1]
    BY <1>1, <1>2, <2>1, SMTT(30)
  <2>3. PICK first \in Int : first = COLS * c[1]
    BY <1>1, <1>2
  <2>4. c[2] = d[2]
    <3>1. first + c[2] = first + d[2]
      BY <1>3, <1>5, <2>2, <2>3
    <3> QED
      BY <1>1, <1>2, <3>1, SMTT(30)
  <2> QED
    BY <1>2, <2>2, <2>4
<1> QED
  BY <1>2, <1>3, <1>4, <1>5

\* Horizontally a ball stays on the grid.
LEMMA HorizontalMove ==
  ASSUME NEW b \in BallRecord, NEW col \in 0 .. (COLS - 1)
  PROVE  /\ move_ball_horizontally(b, col)[1] \in 0 .. (COLS - 1)
         /\ move_ball_horizontally(b, col)[2] \in BallRecord
         /\ move_ball_horizontally(b, col)[2].max = b.max
<1>1. b.factor \in Nat /\ b.hcount \in Nat /\ b.left \in BOOLEAN /\ COLS \in Nat
  <2>1. Horizontal \cup {0} \subseteq Nat /\ COLS \in Nat
    BY BallAssumption, SMTT(30) DEF BallAssumption
  <2> QED
    BY <2>1 DEF BallRecord
<1> DEFINE to == IF b.left THEN col - 1 ELSE col + 1
<1>2. CASE b.hcount + 1 < b.factor
  BY <1>1, <1>2, SMTT(30) DEF move_ball_horizontally, BallRecord
<1>3. CASE ~(b.hcount + 1 < b.factor) /\ to \in 0 .. (COLS - 1)
  BY <1>1, <1>3 DEF move_ball_horizontally, BallRecord
<1>4. CASE ~(b.hcount + 1 < b.factor) /\ to \notin 0 .. (COLS - 1)
  BY <1>1, <1>4 DEF move_ball_horizontally, BallRecord
<1> QED
  BY <1>2, <1>3, <1>4

\* Vertically it stays between the floor and its own ceiling.
LEMMA VerticalMove ==
  ASSUME NEW b \in BallRecord, NEW row \in 0 .. b.max
  PROVE  /\ move_ball_vertically(b, row)[1] \in 0 .. b.max
         /\ move_ball_vertically(b, row)[2] \in BallRecord
         /\ move_ball_vertically(b, row)[2].max = b.max
<1> DEFINE factor == Vertical[(b.max - row) % ROWS]
           to == IF b.down THEN row - 1 ELSE row + 1
<1>1. /\ b.max \in Nat /\ b.vcount \in Nat /\ b.down \in BOOLEAN /\ factor \in Nat
  <2>1. ROWS \in Nat /\ ROWS > 2 /\ Vertical \in [0 .. (ROWS - 1) -> Nat \ {0}]
    BY BallAssumption DEF BallAssumption
  <2>2. b.max \in Nat /\ b.vcount \in Nat /\ b.down \in BOOLEAN
    BY <2>1, SMTT(30) DEF BallRecord
  <2>3. (b.max - row) % ROWS \in 0 .. (ROWS - 1)
    BY <2>1, <2>2, SMTT(30)
  <2> QED
    BY <2>1, <2>2, <2>3
<1>2. CASE b.vcount + 1 < factor
  BY <1>1, <1>2, SMTT(30) DEF move_ball_vertically, BallRecord
<1>3. CASE ~(b.vcount + 1 < factor) /\ to \in 0 .. b.max
  BY <1>1, <1>3 DEF move_ball_vertically, BallRecord
<1>4. CASE ~(b.vcount + 1 < factor) /\ to \notin 0 .. b.max
  BY <1>1, <1>4 DEF move_ball_vertically, BallRecord
<1> QED
  BY <1>2, <1>3, <1>4

\* Ball g has a record for every ball, with the ceilings of f.
Alike(f, g) == g \in [Ball -> BallRecord] /\ \A x \in Ball : g[x].max = f[x].max

\* One turn of one ball keeps the records and the ceilings.
LEMMA TurnKeeps ==
  ASSUME NEW f \in [Ball -> BallRecord], NEW b \in Ball, NEW d \in BOOLEAN, NEW n \in Nat
  PROVE  /\ Alike(f, [f EXCEPT ![b].down = d]) /\ Alike(f, [f EXCEPT ![b].left = d])
         /\ Alike(f, [f EXCEPT ![b].vcount = n]) /\ Alike(f, [f EXCEPT ![b].hcount = n])
<1>1. Alike(f, [f EXCEPT ![b].down = d])
  BY ZenonT(60) DEF BallRecord, Alike
<1>2. Alike(f, [f EXCEPT ![b].left = d])
  BY ZenonT(60) DEF BallRecord, Alike
<1>3. Alike(f, [f EXCEPT ![b].vcount = n])
  BY ZenonT(60) DEF BallRecord, Alike
<1>4. Alike(f, [f EXCEPT ![b].hcount = n])
  BY ZenonT(60) DEF BallRecord, Alike
<1> QED
  BY <1>1, <1>2, <1>3, <1>4

LEMMA AlikeChain ==
  ASSUME NEW f, NEW g, NEW h, Alike(f, g), Alike(g, h)
  PROVE  Alike(f, h)
BY DEF Alike

\* A collision turns the balls and changes nothing else of them.
LEMMA CollisionKeeps ==
  ASSUME NEW balls \in [Ball -> BallRecord], NEW this_ball \in Ball, NEW that_ball \in Ball,
         NEW cell \in Cell, NEW to \in Cell, NEW disabled
  PROVE  Alike(balls, Collided(balls, this_ball, that_ball, cell, to, disabled))
<1>1. OVERRIDE \in Nat
  BY BallAssumption DEF BallAssumption
<1> DEFINE d1 == to[1] < cell[1]  d2 == to[1] > cell[1]
           l1 == to[2] < cell[2]  l2 == to[2] > cell[2]
           v1 == [balls EXCEPT ![this_ball].down = d1]
           v2 == [v1 EXCEPT ![this_ball].vcount = OVERRIDE]
           v3 == [v2 EXCEPT ![that_ball].down = d2]
           v == IF disabled \/ to[1] = cell[1] THEN balls ELSE v3
           w1 == [v EXCEPT ![this_ball].left = l1]
           w2 == [w1 EXCEPT ![this_ball].hcount = OVERRIDE]
           w3 == [w2 EXCEPT ![that_ball].left = l2]
           w == IF to[2] = cell[2] THEN v ELSE w3
<1>2. Collided(balls, this_ball, that_ball, cell, to, disabled) = w
  BY DEF Collided
<1>3. d1 \in BOOLEAN /\ d2 \in BOOLEAN /\ l1 \in BOOLEAN /\ l2 \in BOOLEAN
  BY DEF Cell
<1>4. Alike(balls, balls)
  BY DEF Alike
<1> HIDE DEF d1, d2, l1, l2
<1>5. Alike(balls, v1)
  <2>1. balls \in [Ball -> BallRecord]
    BY <1>4 DEF Alike
  <2> QED
    BY <1>1, <1>3, <2>1, TurnKeeps
<1> HIDE DEF v1
<1>6. Alike(v1, v2)
  <2>1. v1 \in [Ball -> BallRecord]
    BY <1>5 DEF Alike
  <2> QED
    BY <1>1, <1>3, <2>1, TurnKeeps
<1> HIDE DEF v2
<1>7. Alike(v2, v3)
  <2>1. v2 \in [Ball -> BallRecord]
    BY <1>6 DEF Alike
  <2> QED
    BY <1>1, <1>3, <2>1, TurnKeeps
<1> HIDE DEF v3
<1>8. Alike(balls, v3)
  BY <1>5, <1>6, <1>7, AlikeChain
<1>9. Alike(balls, v)
  BY <1>4, <1>8
<1> HIDE DEF v
<1>10. Alike(v, w1)
  <2>1. v \in [Ball -> BallRecord]
    BY <1>9 DEF Alike
  <2> QED
    BY <1>1, <1>3, <2>1, TurnKeeps
<1> HIDE DEF w1
<1>11. Alike(w1, w2)
  <2>1. w1 \in [Ball -> BallRecord]
    BY <1>10 DEF Alike
  <2> QED
    BY <1>1, <1>3, <2>1, TurnKeeps
<1> HIDE DEF w2
<1>12. Alike(w2, w3)
  <2>1. w2 \in [Ball -> BallRecord]
    BY <1>11 DEF Alike
  <2> QED
    BY <1>1, <1>3, <2>1, TurnKeeps
<1> HIDE DEF w3
<1>13. Alike(balls, w3)
  BY <1>9, <1>10, <1>11, <1>12, AlikeChain
<1>14. Alike(balls, w)
  BY <1>9, <1>13
<1> HIDE DEF w
<1> QED
  BY <1>2, <1>14 DEF Alike

\* A ball that moves to an open cell leaves its own; the other ball stays.
Kept(b) == CellsOf(b)' = CellsOf(b)

LEMMA MoveCells ==
  ASSUME ball_grid \in [Cell -> Ball \cup {NONE}], OneCellPerBall,
         NEW b \in Ball, NEW cell \in Cell, NEW to \in Cell, ball_grid[cell] = b,
         ball_grid[to] = NONE, ball_grid' = Moved(cell, to)
  PROVE  /\ ball_grid' \in [Cell -> Ball \cup {NONE}]
         /\ \A x \in Ball : x # b => Kept(x)
         /\ CellsOf(b)' = {to}
<1>1. \A c \in Cell : ball_grid'[c] = IF c = to THEN b
                                      ELSE IF c = cell THEN NONE ELSE ball_grid[c]
  BY DEF Moved
<1>2. NONE \notin Ball
  BY DEF NONE, Ball
<1>3. \A c \in Cell : ball_grid[c] = b => c = cell
  BY DEF OneCellPerBall, CellsOf
<1>4. ball_grid' \in [Cell -> Ball \cup {NONE}]
  BY DEF Moved
<1>5. ASSUME NEW x \in Ball, x # b PROVE Kept(x)
  <2>1. \A c \in Cell : ball_grid'[c] = x <=> ball_grid[c] = x
    BY <1>1, <1>2, <1>5
  <2> QED
    BY <2>1 DEF Kept, CellsOf
<1>6. CellsOf(b)' = {to}
  <2>1. \A c \in Cell : ball_grid'[c] = b <=> c = to
    <3>1. to # cell
      BY <1>2
    <3> QED
      BY <3>1, <1>1, <1>2, <1>3
  <2> QED
    BY <2>1 DEF CellsOf
<1> QED
  BY <1>4, <1>5, <1>6

\* The scan passes one ball at a time: those passed after a visit were passed before
\* it, or are the one it met.
LEMMA PassedBefore ==
  ASSUME GridInv, NEW b \in Ball, NEW cell \in Cell, ball_grid[cell] = b,
         \A c \in Ahead : CellIndex(cell) <= CellIndex(c),
         cursor' = CellIndex(cell) + 1, NEW x \in Ball, x # b, Kept(x)
  PROVE  Passed(x)' => Passed(x)
<1> SUFFICES ASSUME NEW c \in CellsOf(x), CellIndex(c) < CellIndex(cell) + 1 PROVE Passed(x)
  BY DEF Passed, Kept, CellIndex
<1>1. c \in Cell /\ ball_grid[c] = x /\ x # NONE /\ cursor \in Nat
  BY SMTT(30) DEF CellsOf, GridInv, BallTypeOK, Ball, NONE
<1>2. CellIndex(c) \in Nat /\ CellIndex(cell) \in Nat /\ CellIndex(c) # CellIndex(cell)
  BY <1>1, CellNumbers
<1>3. CellIndex(c) < cursor
  BY <1>1, <1>2 DEF Ahead
<1> QED
  BY <1>3 DEF Passed

LEMMA VisitCounts ==
  ASSUME GridInv, NEW b \in Ball, NEW cell \in Cell, ball_grid[cell] = b,
         \A c \in Ahead : CellIndex(cell) <= CellIndex(c),
         cursor' = CellIndex(cell) + 1, balls_on_grid' = balls_on_grid + 1,
         \A x \in Ball : x # b => Kept(x)
  PROVE  AllMet'
<1>1. balls_on_grid \in Nat /\ b \in {0, 1} /\ AllMet
  BY SMTT(30) DEF GridInv, BallTypeOK, Ball
<1>2. balls_on_grid' >= 1
  BY <1>1
<1>3. ASSUME Passed(0)', Passed(1)' PROVE Passed(1 - b)
  <2>1. 1 - b \in Ball /\ 1 - b # b /\ Passed(1 - b)'
    BY <1>1, <1>3 DEF Ball
  <2> QED
    BY <2>1, PassedBefore
<1>4. Passed(0)' /\ Passed(1)' => balls_on_grid' >= 2
  BY <1>1, <1>3 DEF AllMet
<1> QED
  BY <1>2, <1>4 DEF AllMet

\* Where the ball that a visit meets may go, and what becomes of its record.
LEMMA VisitMove ==
  ASSUME GridInv, NEW b \in Ball, NEW cell \in Cell, ball_grid[cell] = b
  PROVE  LET h == move_ball_horizontally(ball[b], cell[2])
             v == move_ball_vertically(h[2], cell[1])
         IN  /\ <<v[1], h[1]>> \in Cell /\ v[1] <= ball[b].max
             /\ Alike(ball, [ball EXCEPT ![b] = v[2]])
<1> DEFINE h == move_ball_horizontally(ball[b], cell[2])
           v == move_ball_vertically(h[2], cell[1])
<1>1. ball \in [Ball -> BallRecord] /\ ball[b] \in BallRecord
  BY DEF GridInv, BallTypeOK, BallRecord
<1>2. /\ ball[b].max \in 0 .. (ROWS - 1) /\ cell[1] \in 0 .. ball[b].max
      /\ cell[2] \in 0 .. (COLS - 1)
  <2>1. cell[1] <= ball[b].max
    BY DEF GridInv, BallTypeOK, CellsOf
  <2>2. ball[b].max \in 0 .. (ROWS - 1) /\ ROWS \in Nat
    BY <1>1, BallAssumption DEF BallRecord, BallAssumption
  <2>3. cell[1] \in 0 .. (ROWS - 1) /\ cell[2] \in 0 .. (COLS - 1)
    BY CellNumbers
  <2> QED
    BY <2>1, <2>2, <2>3
<1>3. h[1] \in 0 .. (COLS - 1) /\ h[2] \in BallRecord /\ h[2].max = ball[b].max
  BY <1>1, <1>2, HorizontalMove
<1> HIDE DEF h
<1>4. v[1] \in 0 .. ball[b].max /\ v[2] \in BallRecord /\ v[2].max = ball[b].max
  BY <1>2, <1>3, VerticalMove, SMTT(30)
<1> HIDE DEF v
<1>5. <<v[1], h[1]>> \in Cell /\ v[1] <= ball[b].max
  <2>1. v[1] \in 0 .. (ROWS - 1) /\ v[1] <= ball[b].max
    BY <1>2, <1>4, BallAssumption, SMTT(30) DEF BallAssumption
  <2> QED
    BY <1>3, <2>1 DEF Cell
<1>6. Alike(ball, [ball EXCEPT ![b] = v[2]])
  BY <1>1, <1>4 DEF Alike
<1> QED
  BY <1>5, <1>6 DEF h, v

\* A visit keeps the invariant: the ball moves to an open cell, stays, or runs into
\* the other one, and then both stay.
LEMMA VisitKeeps == GridInv /\ Visit => GridInv'
<1> SUFFICES ASSUME GridInv, Visit PROVE GridInv'
  OBVIOUS
<1>1. PICK cell \in Ahead :
        LET b == ball_grid[cell]
            h == move_ball_horizontally(ball[b], cell[2])
            v == move_ball_vertically(h[2], cell[1])
            to == <<v[1], h[1]>>
            that == ball_grid[to]
            moved == [ball EXCEPT ![b] = v[2]]
        IN  /\ \A c \in Ahead : CellIndex(cell) <= CellIndex(c)
            /\ cursor' = CellIndex(cell) + 1
            /\ balls_on_grid' = balls_on_grid + 1
            /\ IF that \in {NONE, b}
               THEN /\ ball' = moved
                    /\ ball_grid' = IF that = b THEN ball_grid ELSE Moved(cell, to)
                    /\ UNCHANGED disable_collision
               ELSE /\ ball' = Collided(moved, b, that, cell, to, b \in disable_collision)
                    /\ disable_collision' = disable_collision \cup {that}
                    /\ UNCHANGED ball_grid
            /\ UNCHANGED <<ball_index, new_ball_delay_counter, direction, setups>>
  BY DEF Visit
<1>2. /\ ball_grid \in [Cell -> Ball \cup {NONE}] /\ ball \in [Ball -> BallRecord]
      /\ ball_index \in Ball /\ direction \in BOOLEAN /\ balls_on_grid \in Nat
      /\ disable_collision \subseteq Ball /\ OneCellPerBall /\ InTurn
  BY DEF GridInv, BallTypeOK, BallRecord
<1>3. cell \in Cell /\ ball_grid[cell] \in Ball
  BY <1>2 DEF Ahead
<1>4. PICK b \in Ball : ball_grid[cell] = b
  BY <1>3
<1> DEFINE h == move_ball_horizontally(ball[b], cell[2])
           v == move_ball_vertically(h[2], cell[1])
           dest == <<v[1], h[1]>>
           moved == [ball EXCEPT ![b] = v[2]]
<1>5. dest \in Cell /\ dest[1] <= ball[b].max /\ Alike(ball, moved)
  BY <1>3, <1>4, VisitMove
<1>6. PICK to \in Cell : to = dest
  BY <1>5
<1>7. /\ \A c \in Ahead : CellIndex(cell) <= CellIndex(c)
      /\ cursor' = CellIndex(cell) + 1 /\ balls_on_grid' = balls_on_grid + 1
      /\ UNCHANGED <<ball_index, new_ball_delay_counter, direction, setups>>
      /\ IF ball_grid[to] \in {NONE, b}
         THEN /\ ball' = moved
              /\ ball_grid' = IF ball_grid[to] = b THEN ball_grid ELSE Moved(cell, to)
              /\ UNCHANGED disable_collision
         ELSE /\ ball' = Collided(moved, b, ball_grid[to], cell, to, b \in disable_collision)
              /\ disable_collision' = disable_collision \cup {ball_grid[to]}
              /\ UNCHANGED ball_grid
  BY <1>1, <1>4, <1>6
<1>8. to[1] <= ball[b].max
  BY <1>5, <1>6
<1> HIDE DEF h, v, dest, moved
<1>9. Alike(ball, ball') /\ disable_collision' \subseteq Ball
  <2>1. CASE ball_grid[to] \in {NONE, b}
    BY <1>2, <1>5, <1>7, <2>1
  <2>2. CASE ball_grid[to] \notin {NONE, b}
    <3>1. ball_grid[to] \in Ball /\ moved \in [Ball -> BallRecord]
      BY <1>2, <1>5, <2>2 DEF Alike
    <3>2. Alike(moved, Collided(moved, b, ball_grid[to], cell, to, b \in disable_collision))
      BY <1>3, <3>1, CollisionKeeps
    <3>3. Alike(ball, ball')
      BY <1>5, <1>7, <2>2, <3>2, AlikeChain
    <3> QED
      BY <1>2, <1>7, <2>2, <3>1, <3>3
  <2> QED
    BY <2>1, <2>2
<1>10. /\ ball_grid' \in [Cell -> Ball \cup {NONE}]
       /\ \A x \in Ball : x # b => Kept(x)
       /\ Kept(b) \/ CellsOf(b)' = {to}
  <2>1. CASE ball_grid[to] = NONE
    <3>1. ball_grid' = Moved(cell, to)
      BY <1>4, <1>7, <2>1 DEF Ball, NONE
    <3> QED
      BY <1>2, <1>3, <1>4, <2>1, <3>1, MoveCells
  <2>2. CASE ball_grid[to] # NONE
    <3>1. ball_grid' = ball_grid
      BY <1>7, <2>2
    <3> QED
      BY <1>2, <3>1 DEF Kept, CellsOf
  <2> QED
    BY <2>1, <2>2
<1>11. AllMet'
  BY <1>3, <1>4, <1>7, <1>10, VisitCounts
<1>12. OneCellPerBall'
  BY <1>2, <1>10, SMTT(30) DEF OneCellPerBall, Kept
<1>13. InTurn'
  <2>1. ball_index' = ball_index /\ 1 - ball_index \in Ball
    BY <1>2, <1>7, SMTT(30) DEF Ball
  <2>2. \A x \in Ball : CellsOf(x)' = {} <=> CellsOf(x) = {}
    BY <1>3, <1>4, <1>10 DEF Kept, CellsOf
  <2> QED
    BY <1>2, <2>1, <2>2 DEF InTurn
<1>14. BallTypeOK'
  <2>1. \A x \in Ball : \A c \in CellsOf(x)' : c[1] <= ball'[x].max
    <3>1. ASSUME NEW x \in Ball, NEW c \in CellsOf(x)' PROVE c[1] <= ball[x].max
      BY <1>8, <1>10, <3>1 DEF Kept, GridInv, BallTypeOK
    <3> QED
      BY <1>9, <3>1 DEF Alike
  <2>2. CellIndex(cell) + 1 \in 0 .. (ROWS * COLS)
    <3>1. CellIndex(cell) \in Nat /\ CellIndex(cell) + 1 <= ROWS * COLS
      BY <1>3, CellNumbers
    <3>2. ROWS * COLS \in Nat
      BY BallAssumption, SMTT(30) DEF BallAssumption
    <3> QED
      BY <3>1, <3>2
  <2> QED
    BY <1>2, <1>7, <1>9, <1>10, <2>1, <2>2, SMTT(30) DEF GridInv, BallTypeOK, BallRecord, Alike, CellsOf
<1> QED
  BY <1>11, <1>12, <1>13, <1>14 DEF GridInv

\* A scan that starts again has passed no ball.
LEMMA NothingPassed == cursor' = 0 => AllMet'
<1> SUFFICES ASSUME cursor' = 0 PROVE ~Passed(0)' /\ ~Passed(1)'
  BY DEF AllMet
<1>1. \A b : \A c \in CellsOf(b)' : c \in Cell
  BY DEF CellsOf
<1>2. \A c \in Cell : CellIndex(c)' = CellIndex(c) /\ ~(CellIndex(c) < 0)
  BY CellNumbers, SMTT(30) DEF CellIndex
<1> QED
  BY <1>1, <1>2 DEF Passed

\* At the end of a scan that met fewer than two balls the next ball is not there.
LEMMA NextIsFree ==
  ASSUME GridInv, Ahead = {}, balls_on_grid < 2
  PROVE  CellsOf(ball_index) = {}
<1>1. ball_index \in Ball /\ balls_on_grid \in Nat /\ cursor \in Nat /\ NONE \notin Ball
  BY DEF GridInv, BallTypeOK, Ball, NONE
<1>2. ASSUME NEW x \in Ball, CellsOf(x) # {} PROVE Passed(x)
  <2>1. PICK c \in CellsOf(x) : TRUE
    BY <1>2
  <2>2. c \in Cell /\ ball_grid[c] # NONE /\ CellIndex(c) \in Nat
    BY <1>1, <2>1, CellNumbers DEF CellsOf
  <2>3. CellIndex(c) < cursor
    BY <1>1, <2>2 DEF Ahead
  <2> QED
    BY <2>3 DEF Passed
<1> SUFFICES ASSUME CellsOf(ball_index) # {} PROVE FALSE
  OBVIOUS
<1>3. CellsOf(1 - ball_index) # {} /\ 1 - ball_index \in Ball
  BY <1>1 DEF GridInv, InTurn, Ball
<1>4. Passed(ball_index) /\ Passed(1 - ball_index)
  BY <1>1, <1>2, <1>3
<1>5. Passed(0) /\ Passed(1)
  BY <1>1, <1>4 DEF Ball
<1> QED
  BY <1>1, <1>5 DEF GridInv, AllMet

\* new_ball keeps the invariant when the scan met fewer than two balls.
LEMMA NewBallKeeps ==
  ASSUME GridInv, Ahead = {}, balls_on_grid < 2,
         NEW row \in 2 .. (ROWS - 1), NEW factor \in Horizontal, new_ball(row, factor)
  PROVE  /\ ball_grid' \in [Cell -> Ball \cup {NONE}] /\ ball' \in [Ball -> BallRecord]
         /\ ball_index' \in Ball /\ direction' \in BOOLEAN /\ new_ball_delay_counter' \in 0..DELAY
         /\ \A b \in Ball : \A c \in CellsOf(b)' : c[1] <= ball'[b].max
         /\ OneCellPerBall' /\ InTurn'
<1>1. /\ ball_grid \in [Cell -> Ball \cup {NONE}] /\ ball \in [Ball -> BallRecord]
      /\ ball_index \in Ball /\ direction \in BOOLEAN /\ new_ball_delay_counter \in 0..DELAY
      /\ \A b \in Ball : \A c \in CellsOf(b) : c[1] <= ball[b].max
      /\ OneCellPerBall /\ InTurn
  BY DEF GridInv, BallTypeOK, BallRecord
<1>2. DELAY \in Nat /\ ROWS \in Nat /\ COLS \in Nat \ {0}
  BY BallAssumption DEF BallAssumption
<1>3. (~direction) \in BOOLEAN
  <2>1. CASE direction = TRUE
    BY <2>1
  <2>2. CASE direction = FALSE
    BY <2>2
  <2> QED
    BY <1>1, <2>1, <2>2
<1>4. CASE new_ball_delay_counter + 1 < DELAY
  <2>1. /\ new_ball_delay_counter' = new_ball_delay_counter + 1
        /\ UNCHANGED <<ball_grid, ball, ball_index, direction>>
    BY <1>4 DEF new_ball
  <2> QED
    BY <1>1, <1>2, <1>4, <2>1, SMTT(30) DEF OneCellPerBall, InTurn, CellsOf
<1>5. CASE ~(new_ball_delay_counter + 1 < DELAY)
  <2> DEFINE left == ~direction
  <2>1. PICK cell : cell = <<row, IF left THEN COLS - 1 ELSE 0>>
    OBVIOUS
  <2>2. cell \in Cell /\ cell[1] = row
    BY <1>2, <2>1 DEF Cell
  <2>3. /\ new_ball_delay_counter' = 0 /\ direction' = left
        /\ IF ball_grid[cell] # NONE
           THEN /\ ball' = [ball EXCEPT ![ball_index].left = left]
                /\ UNCHANGED <<ball_grid, ball_index>>
           ELSE /\ ball_grid' = [ball_grid EXCEPT ![cell] = ball_index]
                /\ ball' = [ball EXCEPT ![ball_index] =
                              [Still EXCEPT !.left = left, !.factor = factor, !.max = row]]
                /\ ball_index' = (ball_index + 1) % 2
    BY <1>5, <2>1 DEF new_ball
  <2>4. new_ball_delay_counter' \in 0..DELAY /\ direction' \in BOOLEAN
    BY <1>2, <1>3, <2>3, SMTT(30)
  <2>5. PICK d \in BOOLEAN : d = left
    BY <1>3
  <2>6. CASE ball_grid[cell] # NONE
    <3>1. Alike(ball, ball')
      <4>1. ball' = [ball EXCEPT ![ball_index].left = d]
        BY <2>3, <2>5, <2>6
      <4>2. PICK i \in Ball, n \in Nat : i = ball_index
        BY <1>1
      <4> QED
        BY <1>1, <4>1, <4>2, TurnKeeps
    <3> QED
      BY <1>1, <2>3, <2>4, <2>6, <3>1, SMTT(30) DEF OneCellPerBall, InTurn, CellsOf, Alike
  <2>7. CASE ball_grid[cell] = NONE
    <3>1. PICK i \in Ball : i = ball_index
      BY <1>1
    <3>2. CellsOf(i) = {} /\ NONE \notin Ball
      BY <3>1, NextIsFree DEF NONE, Ball
    <3>3. PICK new : new = [Still EXCEPT !.left = left, !.factor = factor, !.max = row]
      OBVIOUS
    <3>4. new \in BallRecord /\ new.max = row
      <4>1. new = [left |-> d, down |-> FALSE, hcount |-> 0, vcount |-> 0, factor |-> factor,
                   max |-> row]
        BY <2>5, <3>3 DEF Still
      <4>2. row \in 0 .. (ROWS - 1) /\ factor \in Horizontal \cup {0}
        BY <1>2
      <4> QED
        BY <4>1, <4>2 DEF BallRecord
    <3>5. /\ ball_grid' = [ball_grid EXCEPT ![cell] = i] /\ ball' = [ball EXCEPT ![i] = new]
          /\ ball_index' = (i + 1) % 2
      BY <2>3, <2>7, <3>1, <3>3
    <3>6. CellsOf(i)' = {cell}
      <4>1. \A c \in Cell : ball_grid'[c] = i <=> c = cell
        BY <1>1, <2>2, <3>2, <3>5 DEF CellsOf
      <4> QED
        BY <2>2, <4>1 DEF CellsOf
    <3>7. ASSUME NEW x \in Ball, x # i PROVE Kept(x)
      <4>1. \A c \in Cell : ball_grid'[c] = x <=> ball_grid[c] = x
        BY <1>1, <2>2, <2>7, <3>2, <3>5, <3>7
      <4> QED
        BY <4>1 DEF CellsOf, Kept
    <3>8. ball_grid' \in [Cell -> Ball \cup {NONE}] /\ ball' \in [Ball -> BallRecord]
      BY <1>1, <3>4, <3>5
    <3>9. \A b \in Ball : \A c \in CellsOf(b)' : c[1] <= ball'[b].max
      <4>1. row <= row
        BY <1>2
      <4> QED
        BY <1>1, <2>2, <3>4, <3>5, <3>6, <3>7, <4>1 DEF Kept
    <3>10. OneCellPerBall'
      BY <1>1, <3>6, <3>7, SMTT(30) DEF OneCellPerBall, Kept
    <3>11. ball_index' \in Ball /\ 1 - ball_index' = i
      BY <3>5 DEF Ball
    <3>12. InTurn'
      BY <3>6, <3>11 DEF InTurn
    <3> QED
      BY <2>4, <3>8, <3>9, <3>10, <3>11, <3>12
  <2> QED
    BY <2>6, <2>7
<1> QED
  BY <1>4, <1>5

\* Every step of the demo keeps the invariant.
LEMMA GridStep == GridInv /\ [BallNext]_ballVars => GridInv'
<1> SUFFICES ASSUME GridInv, [BallNext]_ballVars PROVE GridInv'
  OBVIOUS
<1>1. CASE UNCHANGED ballVars
  BY <1>1 DEF ballVars, GridInv, BallTypeOK, OneCellPerBall, AllMet, InTurn, Passed, CellsOf,
              CellIndex
<1>2. CASE ball_demo_setup
  <2>1. NONE \notin Ball /\ MAX_SETUPS \in Nat
    BY BallAssumption, SMTT(30) DEF NONE, Ball, BallAssumption
  <2>2. /\ ball_grid' = [c \in Cell |-> NONE] /\ setups < MAX_SETUPS /\ setups' = setups + 1
        /\ cursor' = 0
        /\ UNCHANGED <<ball, ball_index, new_ball_delay_counter, direction, cursor,
                       balls_on_grid, disable_collision>>
    BY <1>2 DEF ball_demo_setup
  <2>3. \A b \in Ball : CellsOf(b)' = {}
    BY <2>1, <2>2 DEF CellsOf
  <2>4. BallTypeOK'
    BY <2>1, <2>2, <2>3, SMTT(30) DEF GridInv, BallTypeOK, CellsOf
  <2>5. AllMet'
    BY <2>2, NothingPassed
  <2>6. OneCellPerBall' /\ InTurn'
    BY <2>3, <2>4 DEF OneCellPerBall, InTurn, BallTypeOK
  <2> QED
    BY <2>4, <2>5, <2>6 DEF GridInv
<1>3. CASE EndScan
  <2>1. /\ Ahead = {} /\ cursor' = 0 /\ balls_on_grid' = 0 /\ disable_collision' = {}
        /\ setups' = setups
    BY <1>3 DEF EndScan
  <2>2. AllMet'
    BY <2>1, NothingPassed
  <2>3. /\ ball_grid' \in [Cell -> Ball \cup {NONE}] /\ ball' \in [Ball -> BallRecord]
        /\ ball_index' \in Ball /\ direction' \in BOOLEAN /\ new_ball_delay_counter' \in 0..DELAY
        /\ \A b \in Ball : \A c \in CellsOf(b)' : c[1] <= ball'[b].max
        /\ OneCellPerBall' /\ InTurn'
    <3>1. CASE balls_on_grid < 2
      <4>1. PICK row \in 2 .. (ROWS - 1), factor \in Horizontal : new_ball(row, factor)
        BY <1>3, <3>1 DEF EndScan
      <4> QED
        BY <2>1, <3>1, <4>1, NewBallKeeps
    <3>2. CASE ~(balls_on_grid < 2)
      <4>1. UNCHANGED <<ball_grid, ball, ball_index, new_ball_delay_counter, direction>>
        BY <1>3, <3>2 DEF EndScan
      <4> QED
        BY <4>1 DEF GridInv, BallTypeOK, BallRecord, OneCellPerBall, InTurn, CellsOf
    <3> QED
      BY <3>1, <3>2
  <2>4. BallTypeOK'
    <3>1. ROWS * COLS \in Nat /\ 0 \in 0 .. (ROWS * COLS) /\ setups \in 0..MAX_SETUPS
      BY BallAssumption, SMTT(30) DEF BallAssumption, GridInv, BallTypeOK
    <3> QED
      BY <2>1, <2>3, <3>1 DEF BallTypeOK, BallRecord, CellsOf
  <2> QED
    BY <2>2, <2>3, <2>4 DEF GridInv
<1> QED
  BY <1>1, <1>2, <1>3, VisitKeeps DEF BallNext

\* The demo starts in the invariant.
LEMMA GridStart == BallInit => GridInv
<1> SUFFICES ASSUME BallInit PROVE GridInv
  OBVIOUS
<1>1. /\ NONE \notin Ball /\ MAX_SETUPS \in Nat /\ DELAY \in Nat /\ ROWS \in Nat /\ ROWS > 2
      /\ ROWS * COLS \in Nat
  BY BallAssumption, SMTT(30) DEF NONE, Ball, BallAssumption
<1>2. \A b \in Ball : CellsOf(b) = {}
  BY <1>1 DEF BallInit, CellsOf
<1>3. BallTypeOK
  <2>1. Still \in BallRecord
    BY <1>1 DEF Still, BallRecord
  <2>2. ball \in [Ball -> BallRecord]
    BY <2>1 DEF BallInit
  <2> QED
    BY <1>1, <1>2, <2>2, SMTT(30) DEF BallInit, BallTypeOK, BallRecord, Ball
<1>4. AllMet /\ OneCellPerBall /\ InTurn
  BY <1>2, <1>3, SMTT(30) DEF AllMet, OneCellPerBall, InTurn, Passed, BallTypeOK, Ball
<1> QED
  BY <1>3, <1>4 DEF GridInv

\* For every size of the grid, every speed table and every random row and speed: the
\* balls stay on the grid and under their ceilings, and each is in one cell at most.
THEOREM OneCellPerBallAlways == BallSpec => [](BallTypeOK /\ OneCellPerBall)
<1>1. GridInv => BallTypeOK /\ OneCellPerBall
  BY DEF GridInv
<1> QED
  BY <1>1, GridStart, GridStep, PTL DEF BallSpec

----------------------------------------------------------------------------
(* Shapes.                                                                 *)

Row(b) == get_geometric_button_row(b)
Col(b) == get_geometric_button_column(b)
ButtonAt(row, col) == get_button_id_from_row_column(row, col)

\* Buttons and cells of the grid correspond.
LEMMA ButtonsAreCells ==
  /\ \A b \in Button : Row(b) \in Line /\ Col(b) \in Line /\ ButtonAt(Row(b), Col(b)) = b
  /\ \A row, col \in Line : /\ ButtonAt(row, col) \in Button
                            /\ Row(ButtonAt(row, col)) = row /\ Col(ButtonAt(row, col)) = col
  /\ \A row, col \in Int : ~(row \in Line /\ col \in Line) => ButtonAt(row, col) = 255
<1>1. ASSUME NEW b \in Button
      PROVE  Row(b) \in Line /\ Col(b) \in Line /\ ButtonAt(Row(b), Col(b)) = b
  BY DEF Button, Line, Row, Col, ButtonAt, get_geometric_button_row, get_geometric_button_column,
         get_button_id_from_row_column
<1>2. ASSUME NEW row \in Line, NEW col \in Line
      PROVE  /\ ButtonAt(row, col) \in Button
             /\ Row(ButtonAt(row, col)) = row /\ Col(ButtonAt(row, col)) = col
  BY DEF Button, Line, Row, Col, ButtonAt, get_geometric_button_row, get_geometric_button_column,
         get_button_id_from_row_column
<1>3. ASSUME NEW row \in Int, NEW col \in Int, ~(row \in Line /\ col \in Line)
      PROVE  ButtonAt(row, col) = 255
  BY <1>3 DEF ButtonAt, get_button_id_from_row_column
<1> QED
  BY <1>1, <1>2, <1>3

\* The buttons of a set of cells.
LEMMA ButtonsOf ==
  ASSUME NEW S, S \subseteq Line \X Line, NEW b
  PROVE  b \in {get_button_id_from_row_column(cell[1], cell[2]) : cell \in S}
         <=> b \in Button /\ <<Row(b), Col(b)>> \in S
<1>1. ASSUME NEW cell \in S, b = ButtonAt(cell[1], cell[2])
      PROVE  b \in Button /\ <<Row(b), Col(b)>> \in S
  <2>1. cell[1] \in Line /\ cell[2] \in Line /\ cell = <<cell[1], cell[2]>>
    OBVIOUS
  <2> QED
    BY <1>1, <2>1, ButtonsAreCells, SMTT(30)
<1>2. ASSUME b \in Button, <<Row(b), Col(b)>> \in S
      PROVE  \E cell \in S : b = ButtonAt(cell[1], cell[2])
  <2>1. b = ButtonAt(Row(b), Col(b))
    BY <1>2, ButtonsAreCells
  <2> QED
    BY <1>2, <2>1
<1> QED
  BY <1>1, <1>2 DEF ButtonAt

\* A number that eight bits hold is a line of the grid only if it did not wrap.
LEMMA NoWrap ==
  ASSUME NEW n \in Int, -128 <= n, n < 128, NEW x \in Line
  PROVE  (x = n % 256 <=> x = n) /\ (x = (n + 256) % 256 <=> x = n)
  BY SMTT(30) DEF Line

\* The lines between pos below and pos above a line, and the two outer ones.
LEMMA LinesAbout ==
  ASSUME NEW line \in Line, NEW pos \in 1..15
  PROVE  /\ \A x : x \in Clipped(Diff(line, pos), Sum8(line, pos))
                   <=> x \in Line /\ line - pos <= x /\ x <= line + pos
         /\ \A x \in Line : /\ x = Diff(line, pos) <=> x = line - pos
                            /\ x = Sum8(line, pos) <=> x = line + pos
<1>1. ASSUME NEW x \in Line
      PROVE  /\ x = Diff(line, pos) <=> x = line - pos
             /\ x = Sum8(line, pos) <=> x = line + pos
  BY DEF Diff, Sum8, Line
<1>2. /\ Diff(line, pos) = IF pos <= line THEN line - pos ELSE line - pos + 256
      /\ Sum8(line, pos) = line + pos
  BY DEF Diff, Sum8, Line
<1>3. ASSUME NEW x
      PROVE  x \in Clipped(Diff(line, pos), Sum8(line, pos))
             <=> x \in Line /\ line - pos <= x /\ x <= line + pos
  BY <1>2, SMTT(30) DEF Clipped, Line
<1> QED
  BY <1>1, <1>3

\* InShape, shape by shape.
Far(dr, dc) == IF Abs(dr) > Abs(dc) THEN Abs(dr) ELSE Abs(dc)
Wide(pos) == IF pos = 1 THEN 0 ELSE IF pos < 6 THEN pos \div 2 ELSE 3

LEMMA ShapeByType ==
  ASSUME NEW pos \in Int, NEW dr \in Int, NEW dc \in Int
  PROVE  /\ InShape(SQUARE, pos, dr, dc) <=> Far(dr, dc) = pos
         /\ InShape(CIRCLE, pos, dr, dc) <=>
              /\ Far(dr, dc) <= pos
              /\ \/ Abs(dr) + Abs(dc) = pos /\ Far(dr, dc) = pos
                 \/ pos < Abs(dr) + Abs(dc) /\ Abs(dr) + Abs(dc) <= pos + Wide(pos)
         /\ InShape(STAR, pos, dr, dc) <=>
              /\ dr = 0 \/ dc = 0 \/ Abs(dr) = Abs(dc)
              /\ Far(dr, dc) > 0 /\ pos - TAIL < Far(dr, dc) /\ Far(dr, dc) <= pos
         /\ InShape(TRIANGLE, pos, dr, dc) <=>
              /\ dr + pos - 1 \in 0 .. (2 * pos - 1)
              /\ IF dr + pos - 1 = 0 THEN Abs(dc) <= 2 * pos - 1
                 ELSE Abs(dc) = 2 * pos - 1 - (dr + pos - 1)
<1>1. InShape(SQUARE, pos, dr, dc) <=> Far(dr, dc) = pos
  BY DEF InShape, SQUARE, CIRCLE, STAR, Far
<1>2. InShape(CIRCLE, pos, dr, dc) <=>
        /\ Far(dr, dc) <= pos
        /\ \/ Abs(dr) + Abs(dc) = pos /\ Far(dr, dc) = pos
           \/ pos < Abs(dr) + Abs(dc) /\ Abs(dr) + Abs(dc) <= pos + Wide(pos)
  BY DEF InShape, SQUARE, CIRCLE, STAR, Far, Wide
<1>3. InShape(STAR, pos, dr, dc) <=>
        /\ dr = 0 \/ dc = 0 \/ Abs(dr) = Abs(dc)
        /\ Far(dr, dc) > 0 /\ pos - TAIL < Far(dr, dc) /\ Far(dr, dc) <= pos
  BY DEF InShape, SQUARE, CIRCLE, STAR, Far
<1>4. InShape(TRIANGLE, pos, dr, dc) <=>
        /\ dr + pos - 1 \in 0 .. (2 * pos - 1)
        /\ IF dr + pos - 1 = 0 THEN Abs(dc) <= 2 * pos - 1
           ELSE Abs(dc) = 2 * pos - 1 - (dr + pos - 1)
  BY DEF InShape, SQUARE, CIRCLE, STAR, TRIANGLE
<1> QED
  BY <1>1, <1>2, <1>3, <1>4

\* run_geometric_square_animation lights a square.
LEMMA SquareIsMeant ==
  ASSUME NEW row \in Line, NEW col \in Line, NEW pos \in 1..7, NEW b
  PROVE  b \in SquareLit(row, col, pos)
         <=> b \in Button /\ InShape(SQUARE, pos, Row(b) - row, Col(b) - col)
<1> DEFINE A == Clipped(Diff(row, pos), Sum8(row, pos))
           B == Clipped(Diff(col, pos), Sum8(col, pos))
           S == {cell \in A \X B : \/ cell[1] \in {Diff(row, pos), Sum8(row, pos)}
                                   \/ cell[2] \in {Diff(col, pos), Sum8(col, pos)}}
<1>1. /\ \A x : x \in A <=> x \in Line /\ row - pos <= x /\ x <= row + pos
      /\ \A x : x \in B <=> x \in Line /\ col - pos <= x /\ x <= col + pos
  BY LinesAbout, SMTT(30)
<1> HIDE DEF A, B
<1>2. b \in SquareLit(row, col, pos) <=> b \in Button /\ <<Row(b), Col(b)>> \in S
  <2>1. S \subseteq Line \X Line
    BY <1>1
  <2>2. SquareLit(row, col, pos)
        = {get_button_id_from_row_column(cell[1], cell[2]) : cell \in S}
    BY DEF SquareLit, A, B
  <2> HIDE DEF S
  <2> QED
    BY <2>1, <2>2, ButtonsOf
<1>3. ASSUME NEW r \in Line, NEW c \in Line
      PROVE  <<r, c>> \in S <=> InShape(SQUARE, pos, r - row, c - col)
  <2>1. <<r, c>> \in S <=> /\ r \in A /\ c \in B
                           /\ \/ r \in {Diff(row, pos), Sum8(row, pos)}
                              \/ c \in {Diff(col, pos), Sum8(col, pos)}
    <3>1. <<r, c>>[1] = r /\ <<r, c>>[2] = c /\ (<<r, c>> \in A \X B <=> r \in A /\ c \in B)
      OBVIOUS
    <3> QED
      BY <3>1
  <2> HIDE DEF S
  <2>2. <<r, c>> \in S <=> /\ row - pos <= r /\ r <= row + pos
                           /\ col - pos <= c /\ c <= col + pos
                           /\ r = row - pos \/ r = row + pos \/ c = col - pos \/ c = col + pos
    BY <1>1, <2>1, LinesAbout, SMTT(30)
  <2>3. InShape(SQUARE, pos, r - row, c - col) <=> Far(r - row, c - col) = pos
    BY ShapeByType, SMTT(30) DEF Line
  <2> QED
    BY <2>2, <2>3 DEF Far, Abs, Line
<1> QED
  BY <1>2, <1>3, ButtonsAreCells, ZenonT(60)

\* run_geometric_circle_animation lights a ring.
LEMMA CircleIsMeant ==
  ASSUME NEW row \in Line, NEW col \in Line, NEW pos \in 1..13, NEW b
  PROVE  b \in CircleLit(row, col, pos)
         <=> b \in Button /\ InShape(CIRCLE, pos, Row(b) - row, Col(b) - col)
<1> DEFINE A == Clipped(Diff(row, pos), Sum8(row, pos))
           B == Clipped(Diff(col, pos), Sum8(col, pos))
           incrementer == IF pos \div 2 <= 3 THEN pos \div 2 ELSE 3
           maximum == IF pos = 1 THEN pos ELSE pos + incrementer
           Reached(r, c) ==
             LET distance == get_distance_from_center_in_steps(row, col, r, c)
             IN  IF distance = pos
                 THEN r \in {Diff(row, pos), Sum8(row, pos)} \/ c \in {Diff(col, pos), Sum8(col, pos)}
                 ELSE pos < distance /\ distance <= maximum
           S == {cell \in A \X B : Reached(cell[1], cell[2])}
<1>1. /\ \A x : x \in A <=> x \in Line /\ row - pos <= x /\ x <= row + pos
      /\ \A x : x \in B <=> x \in Line /\ col - pos <= x /\ x <= col + pos
  BY LinesAbout, SMTT(30)
<1>0. maximum = pos + Wide(pos)
  BY DEF Wide
<1> HIDE DEF A, B
<1>2. b \in CircleLit(row, col, pos) <=> b \in Button /\ <<Row(b), Col(b)>> \in S
  <2>2. CircleLit(row, col, pos)
        = {get_button_id_from_row_column(cell[1], cell[2]) : cell \in S}
    BY DEF CircleLit, A, B
  <2> HIDE DEF Reached
  <2>1. S \subseteq Line \X Line
    BY <1>1
  <2> HIDE DEF S
  <2> QED
    BY <2>1, <2>2, ButtonsOf
<1> HIDE DEF maximum
<1>3. ASSUME NEW r \in Line, NEW c \in Line
      PROVE  <<r, c>> \in S <=> InShape(CIRCLE, pos, r - row, c - col)
  <2> HIDE DEF Reached
  <2>1. <<r, c>> \in S <=> r \in A /\ c \in B /\ Reached(r, c)
    <3>1. <<r, c>>[1] = r /\ <<r, c>>[2] = c /\ (<<r, c>> \in A \X B <=> r \in A /\ c \in B)
      OBVIOUS
    <3> QED
      BY <3>1
  <2> HIDE DEF S
  <2>2. PICK steps \in Int : steps = Abs(r - row) + Abs(c - col)
    BY DEF Abs, Line
  <2>3. get_distance_from_center_in_steps(row, col, r, c) = steps
    BY <2>2 DEF get_distance_from_center_in_steps, Abs, Line
  <2>4. Reached(r, c) <=> IF steps = pos THEN \/ r \in {Diff(row, pos), Sum8(row, pos)}
                                              \/ c \in {Diff(col, pos), Sum8(col, pos)}
                          ELSE pos < steps /\ steps <= maximum
    BY <2>3 DEF Reached
  <2>5. <<r, c>> \in S <=>
          /\ row - pos <= r /\ r <= row + pos /\ col - pos <= c /\ c <= col + pos
          /\ IF steps = pos
             THEN r = row - pos \/ r = row + pos \/ c = col - pos \/ c = col + pos
             ELSE pos < steps /\ steps <= maximum
    BY <1>1, <2>1, <2>4, LinesAbout, SMTT(30)
  <2>6. InShape(CIRCLE, pos, r - row, c - col) <=>
          /\ Far(r - row, c - col) <= pos
          /\ \/ steps = pos /\ Far(r - row, c - col) = pos
             \/ pos < steps /\ steps <= pos + Wide(pos)
    BY <2>2, ShapeByType, SMTT(30) DEF Line
  <2>7. maximum \in Int
    BY <1>0 DEF Wide
  <2> QED
    BY <1>0, <2>2, <2>5, <2>6, <2>7 DEF Far, Abs, Line
<1> QED
  BY <1>2, <1>3, ButtonsAreCells, ZenonT(60)

\* run_geometric_star_animation lights the ends of eight rays.
LEMMA StarIsMeant ==
  ASSUME NEW row \in Line, NEW col \in Line, NEW pos \in 1..10, NEW b
  PROVE  b \in StarLit(row, col, pos)
         <=> b \in Button /\ InShape(STAR, pos, Row(b) - row, Col(b) - col)
<1> DEFINE Tails == 0 .. ((IF pos < TAIL THEN pos ELSE TAIL) - 1)
           Rows(tail) == {Diff(Sum8(row, pos), tail), Sum8(Diff(row, pos), tail), row}
           Cols(tail) == {Sum8(Diff(col, pos), tail), Diff(Sum8(col, pos), tail), col}
           Cells(tail) == (Rows(tail) \X Cols(tail)) \ {<<row, col>>}
<1>1. ASSUME NEW tail \in Tails, NEW line \in Line
      PROVE  /\ Diff(Sum8(line, pos), tail) \in Int /\ Sum8(Diff(line, pos), tail) \in Int
             /\ \A x \in Line : /\ x = Diff(Sum8(line, pos), tail) <=> x = line + pos - tail
                                /\ x = Sum8(Diff(line, pos), tail) <=> x = line - pos + tail
  <2>1. tail \in 0..2
    BY DEF TAIL
  <2> QED
    BY <2>1, SMTT(30) DEF Diff, Sum8, Line
<1>2. b \in StarLit(row, col, pos)
      <=> /\ b < 64
          /\ \E tail \in Tails : \E cell \in Cells(tail) :
               b = get_button_id_from_row_column(cell[1], cell[2])
  BY SMTT(30) DEF StarLit
<1> HIDE DEF Tails, Rows, Cols
<1>3. ASSUME NEW tail \in Tails, NEW cell \in Cells(tail), b = ButtonAt(cell[1], cell[2]), b < 64
      PROVE  b \in Button /\ <<Row(b), Col(b)>> \in Cells(tail)
  <2>1. cell = <<cell[1], cell[2]>> /\ cell[1] \in Rows(tail) /\ cell[2] \in Cols(tail)
    OBVIOUS
  <2>2. cell[1] \in Int /\ cell[2] \in Int
    BY <1>1, <2>1, SMTT(30) DEF Rows, Cols, Line
  <2>3. cell[1] \in Line /\ cell[2] \in Line
    BY <1>3, <2>2, ButtonsAreCells, SMTT(30)
  <2> QED
    BY <1>3, <2>1, <2>3, ButtonsAreCells, SMTT(30)
<1>4. ASSUME NEW tail \in Tails, b \in Button, <<Row(b), Col(b)>> \in Cells(tail)
      PROVE  b < 64 /\ \E cell \in Cells(tail) : b = ButtonAt(cell[1], cell[2])
  <2>1. b = ButtonAt(Row(b), Col(b))
    BY <1>4, ButtonsAreCells
  <2>2. <<Row(b), Col(b)>>[1] = Row(b) /\ <<Row(b), Col(b)>>[2] = Col(b)
    OBVIOUS
  <2>3. b < 64
    BY <1>4 DEF Button
  <2> QED
    BY <1>4, <2>1, <2>2, <2>3
<1>5. b \in StarLit(row, col, pos)
      <=> b \in Button /\ \E tail \in Tails : <<Row(b), Col(b)>> \in Cells(tail)
  <2> HIDE DEF Cells
  <2> QED
    BY <1>2, <1>3, <1>4 DEF ButtonAt
<1>6. ASSUME NEW r \in Line, NEW c \in Line
      PROVE  (\E tail \in Tails : <<r, c>> \in Cells(tail))
             <=> InShape(STAR, pos, r - row, c - col)
  <2>1. ASSUME NEW tail \in Tails
        PROVE  <<r, c>> \in Cells(tail) <=>
                 /\ r = row + pos - tail \/ r = row - pos + tail \/ r = row
                 /\ c = col + pos - tail \/ c = col - pos + tail \/ c = col
                 /\ ~(r = row /\ c = col)
    <3>1. <<r, c>> \in Cells(tail) <=> r \in Rows(tail) /\ c \in Cols(tail) /\ ~(r = row /\ c = col)
      OBVIOUS
    <3> HIDE DEF Cells
    <3> QED
      BY <1>1, <3>1, ZenonT(60) DEF Rows, Cols
  <2>2. InShape(STAR, pos, r - row, c - col) <=>
          /\ r = row \/ c = col \/ Abs(r - row) = Abs(c - col)
          /\ Far(r - row, c - col) > 0 /\ pos - 3 < Far(r - row, c - col)
          /\ Far(r - row, c - col) <= pos
    BY ShapeByType, SMTT(30) DEF Line, TAIL
  <2>3. \A tail : tail \in Tails <=> tail \in Int /\ 0 <= tail /\ tail < pos /\ tail < 3
    BY DEF Tails, TAIL
  <2> HIDE DEF Cells
  <2>4. ASSUME NEW tail \in Tails, <<r, c>> \in Cells(tail)
        PROVE  InShape(STAR, pos, r - row, c - col)
    BY <2>1, <2>2, <2>3, <2>4 DEF Far, Abs, Line
  <2>5. ASSUME InShape(STAR, pos, r - row, c - col)
        PROVE  \E tail \in Tails : <<r, c>> \in Cells(tail)
    <3>0. Far(r - row, c - col) \in Int
      BY DEF Far, Abs, Line
    <3>1. PICK tail \in Int : tail = pos - Far(r - row, c - col)
      BY <3>0
    <3>2. tail \in Tails
      BY <2>2, <2>3, <2>5, <3>1 DEF Far, Abs, Line
    <3>3. /\ r = row + pos - tail \/ r = row - pos + tail \/ r = row
          /\ c = col + pos - tail \/ c = col - pos + tail \/ c = col
          /\ ~(r = row /\ c = col)
      BY <2>2, <2>5, <3>1 DEF Far, Abs, Line
    <3> QED
      BY <2>1, <3>2, <3>3
  <2> QED
    BY <2>4, <2>5
<1> HIDE DEF Cells
<1> QED
  BY <1>5, <1>6, ButtonsAreCells, ZenonT(60)

\* run_geometric_triangle_animation lights the sides of a triangle; its base line and
\* its top are off the grid or on it.
LEMMA TriangleIsMeant ==
  ASSUME NEW row \in Line, NEW col \in Line, NEW pos \in 1..14, NEW b
  PROVE  b \in TriangleLit(row, col, pos)
         <=> b \in Button /\ InShape(TRIANGLE, pos, Row(b) - row, Col(b) - col)
<1> DEFINE half == 2 * (pos - 1) + 1
           min_row == Diff(row, pos - 1)
           max_row == Sum8(row, pos)
           min_col == Diff(col, half)
           max_col == Sum8(col, half)
           rows == Clipped(min_row, max_row)
           Sides(r) == {Sum8(min_col, Diff(r, min_row)), Diff(max_col, Diff(r, min_row))} \cap Line
           In(r, c) == \/ r = min_row /\ c \in Clipped(min_col, max_col)
                       \/ r = max_row /\ c = col
                       \/ r \in rows /\ c \in Sides(r)
<1>0. /\ min_row = IF pos - 1 <= row THEN row - (pos - 1) ELSE row - (pos - 1) + 256
      /\ max_row = row + pos
      /\ min_col = IF half <= col THEN col - half ELSE col - half + 256
      /\ max_col = col + half
  BY DEF Diff, Sum8, Line
<1>1. /\ \A x : x \in rows <=> x \in Line /\ row - (pos - 1) <= x /\ x <= row + pos
      /\ \A x : x \in Clipped(min_col, max_col) <=> x \in Line /\ col - half <= x /\ x <= col + half
      /\ \A x \in Line : /\ x = min_row <=> x = row - (pos - 1)
                         /\ x = max_row <=> x = row + pos
  <2> HIDE DEF min_row, max_row, min_col, max_col
  <2> QED
    BY <1>0, SMTT(30) DEF Clipped, Line
<1>2. ASSUME NEW r \in rows, NEW c \in Line
      PROVE  c \in Sides(r) <=> \/ c = col - half + (r - row + pos - 1)
                                \/ c = col + half - (r - row + pos - 1)
  <2>1. r \in Line /\ row - (pos - 1) <= r /\ r <= row + pos
    BY <1>1
  <2> HIDE DEF rows
  <2>2. Diff(r, min_row) = r - row + pos - 1
    BY <2>1 DEF Diff, Line
  <2>3. PICK up \in 0..27 : up = r - row + pos - 1
    BY <2>1 DEF Line
  <2>4. /\ c = Sum8(min_col, up) <=> c = col - half + up
        /\ c = Diff(max_col, up) <=> c = col + half - up
    <3> HIDE DEF min_col, max_col
    <3>1. PICK lo \in Int, hi \in Int : /\ lo = col - half /\ -27 <= lo /\ lo <= 7
                                        /\ hi = col + half /\ 0 <= hi /\ hi <= 34
      BY DEF Line
    <3>2. max_col = hi /\ min_col = IF 0 <= lo THEN lo ELSE lo + 256
      BY <1>0, <3>1, SMTT(30) DEF Line
    <3> HIDE DEF half
    <3>3. c = Diff(max_col, up) <=> c = hi - up
      <4>1. PICK n \in Int : n = hi - up /\ -128 <= n /\ n < 128
        BY <3>1
      <4>2. Diff(max_col, up) = n % 256
        BY <3>2, <4>1 DEF Diff
      <4> QED
        BY <4>1, <4>2, NoWrap, SMTT(30)
    <3>4. c = Sum8(min_col, up) <=> c = lo + up
      <4>1. PICK n \in Int : n = lo + up /\ -128 <= n /\ n < 128
        BY <3>1
      <4>2. Sum8(min_col, up) \in {n % 256, (n + 256) % 256}
        <5>1. min_col + up \in {n, n + 256}
          BY <3>1, <3>2, <4>1, SMTT(30)
        <5> QED
          BY <5>1, ZenonT(60) DEF Sum8
      <4> QED
        BY <4>1, <4>2, NoWrap, SMTT(30)
    <3> QED
      BY <3>1, <3>3, <3>4 DEF half, Line
  <2> HIDE DEF min_row, min_col, max_col
  <2> QED
    BY <2>2, <2>3, <2>4
<1>3. b \in TriangleLit(row, col, pos)
      <=> \/ min_row \in Line /\ \E c \in Clipped(min_col, max_col) :
               b = get_button_id_from_row_column(min_row, c)
          \/ max_row \in Line /\ b = get_button_id_from_row_column(max_row, col)
          \/ \E r \in rows : \E c \in Sides(r) : b = get_button_id_from_row_column(r, c)
  BY SMTT(30) DEF TriangleLit
<1>4. rows \subseteq Line /\ Clipped(min_col, max_col) \subseteq Line
  BY <1>1
<1>5. \A r : Sides(r) \subseteq Line
  OBVIOUS
<1> HIDE DEF min_row, max_row, min_col, max_col, rows, Sides
<1>6. b \in TriangleLit(row, col, pos) <=> \E r, c \in Line : In(r, c) /\ b = ButtonAt(r, c)
  BY <1>3, <1>4, <1>5 DEF ButtonAt
<1>7. ASSUME NEW r \in Line, NEW c \in Line
      PROVE  In(r, c) <=> InShape(TRIANGLE, pos, r - row, c - col)
  <2>1. In(r, c) <=>
          \/ r = row - (pos - 1) /\ col - half <= c /\ c <= col + half
          \/ r = row + pos /\ c = col
          \/ /\ row - (pos - 1) <= r /\ r <= row + pos
             /\ \/ c = col - half + (r - row + pos - 1)
                \/ c = col + half - (r - row + pos - 1)
    BY <1>1, <1>2
  <2> HIDE DEF In
  <2>2. InShape(TRIANGLE, pos, r - row, c - col) <=>
          /\ r - row + pos - 1 \in 0 .. (2 * pos - 1)
          /\ IF r - row + pos - 1 = 0 THEN Abs(c - col) <= 2 * pos - 1
             ELSE Abs(c - col) = 2 * pos - 1 - (r - row + pos - 1)
    BY ShapeByType, SMTT(30) DEF Line
  <2> QED
    BY <2>1, <2>2 DEF Abs, Line
<1> HIDE DEF In
<1>8. /\ \A x \in Button : Row(x) \in Line /\ Col(x) \in Line /\ ButtonAt(Row(x), Col(x)) = x
      /\ \A r, c \in Line : /\ ButtonAt(r, c) \in Button
                            /\ Row(ButtonAt(r, c)) = r /\ Col(ButtonAt(r, c)) = c
  BY ButtonsAreCells
<1> QED
  BY <1>6, <1>7, <1>8, ZenonT(60)

\* The steps of each shape.
LEMMA ShapeSteps ==
  /\ Steps(SQUARE) = 8 /\ Steps(CIRCLE) = 14 /\ Steps(STAR) = 11 /\ Steps(TRIANGLE) = 15
  /\ 0..3 = {SQUARE, CIRCLE, STAR, TRIANGLE}
  BY DEF Steps, SQUARE, CIRCLE, STAR, TRIANGLE

\* What a step of an animation lights is its shape.
LEMMA LitIsMeant ==
  ASSUME NEW btn \in Button, NEW type \in 0..3, NEW pos \in 1 .. (Steps(type) - 1)
  PROVE  Lit(btn, type, pos) = Meant(btn, type, pos)
<1>1. PICK row \in Line, col \in Line : row = Row(btn) /\ col = Col(btn)
  BY ButtonsAreCells
<1>2. \A b : b \in Meant(btn, type, pos)
             <=> b \in Button /\ InShape(type, pos, Row(b) - row, Col(b) - col)
  BY <1>1 DEF Meant, Row, Col
<1>3. ~(pos = 0 \/ pos >= Steps(type))
  BY ShapeSteps
<1>4. CASE type = SQUARE
  <2>1. Lit(btn, type, pos) = SquareLit(row, col, pos) /\ pos \in 1..7
    BY <1>1, <1>3, <1>4, ShapeSteps, SMTT(30) DEF Lit, Row, Col, SQUARE, CIRCLE, STAR
  <2> QED
    BY <1>2, <1>4, <2>1, SquareIsMeant
<1>5. CASE type = CIRCLE
  <2>1. Lit(btn, type, pos) = CircleLit(row, col, pos) /\ pos \in 1..13
    BY <1>1, <1>3, <1>5, ShapeSteps, SMTT(30) DEF Lit, Row, Col, SQUARE, CIRCLE, STAR
  <2> QED
    BY <1>2, <1>5, <2>1, CircleIsMeant
<1>6. CASE type = STAR
  <2>1. Lit(btn, type, pos) = StarLit(row, col, pos) /\ pos \in 1..10
    BY <1>1, <1>3, <1>6, ShapeSteps, SMTT(30) DEF Lit, Row, Col, SQUARE, CIRCLE, STAR
  <2> QED
    BY <1>2, <1>6, <2>1, StarIsMeant
<1>7. CASE type = TRIANGLE
  <2>1. Lit(btn, type, pos) = TriangleLit(row, col, pos) /\ pos \in 1..14
    BY <1>1, <1>3, <1>7, ShapeSteps, SMTT(30) DEF Lit, Row, Col, SQUARE, CIRCLE, STAR, TRIANGLE
  <2> QED
    BY <1>2, <1>7, <2>1, TriangleIsMeant
<1> QED
  BY <1>4, <1>5, <1>6, <1>7, ShapeSteps

\* After its last step nothing of a shape is left on the grid.
LEMMA ShapeLeaves ==
  ASSUME NEW btn \in Button, NEW type \in 0..3
  PROVE  Meant(btn, type, Steps(type)) = {}
<1>1. PICK row \in Line, col \in Line : row = Row(btn) /\ col = Col(btn)
  BY ButtonsAreCells
<1> SUFFICES ASSUME NEW b \in Button, InShape(type, Steps(type), Row(b) - row, Col(b) - col)
             PROVE  FALSE
  BY <1>1 DEF Meant, Row, Col
<1>2. PICK dr \in Int, dc \in Int : /\ dr = Row(b) - row /\ -7 <= dr /\ dr <= 7
                                    /\ dc = Col(b) - col /\ -7 <= dc /\ dc <= 7
  BY ButtonsAreCells, SMTT(30) DEF Line
<1>3. InShape(type, Steps(type), dr, dc)
  BY <1>2
<1>4. CASE type = SQUARE
  <2>1. Far(dr, dc) = 8
    BY <1>3, <1>4, ShapeSteps, ShapeByType, SMTT(30)
  <2> QED
    BY <1>2, <2>1 DEF Far, Abs
<1>5. CASE type = CIRCLE
  <2>1. Far(dr, dc) = 14 \/ 14 < Abs(dr) + Abs(dc)
    BY <1>3, <1>5, ShapeSteps, ShapeByType, SMTT(30)
  <2> QED
    BY <1>2, <2>1 DEF Far, Abs
<1>6. CASE type = STAR
  <2>1. 11 - TAIL < Far(dr, dc)
    BY <1>3, <1>6, ShapeSteps, ShapeByType, SMTT(30)
  <2> QED
    BY <1>2, <2>1 DEF Far, Abs, TAIL
<1>7. CASE type = TRIANGLE
  <2>1. Abs(dc) = 29 - (dr + 14) \/ dr + 14 = 0
    BY <1>2, <1>3, <1>7, ShapeSteps, ShapeByType, SMTT(30)
  <2> QED
    BY <1>2, <2>1 DEF Abs
<1> QED
  BY <1>4, <1>5, <1>6, <1>7, ShapeSteps

\* An animation goes on to its last step.
LEMMA ShapeTypeStep == ShapeTypeOK /\ [StepShape]_shapeVars => ShapeTypeOK'
<1>1. Steps(shape_type) \in Nat
  BY DEF Steps
<1> SUFFICES ASSUME ShapeTypeOK, [StepShape]_shapeVars PROVE ShapeTypeOK'
  OBVIOUS
<1>2. CASE StepShape
  BY <1>1, <1>2 DEF ShapeTypeOK, StepShape
<1>3. CASE UNCHANGED shapeVars
  BY <1>3 DEF ShapeTypeOK, shapeVars
<1> QED
  BY <1>2, <1>3

LEMMA ShapeStart == ShapesInit => ShapeTypeOK
<1>1. Steps(shape_type) \in Nat
  BY DEF Steps
<1> QED
  BY <1>1 DEF ShapesInit, ShapeTypeOK

\* In every step of the animations the shapes are as meant.
LEMMA ShapeInvariance == ShapeTypeOK => ShapeIsMeant
<1> SUFFICES ASSUME ShapeTypeOK PROVE ShapeIsMeant
  OBVIOUS
<1>1. Steps(shape_type) \in Nat
  BY DEF Steps
<1>2. shape_pos >= Steps(shape_type) => shape_pos = Steps(shape_type)
  BY <1>1 DEF ShapeTypeOK
<1> QED
  BY <1>2, LitIsMeant, ShapeLeaves DEF ShapeIsMeant, ShapeTypeOK

\* From every button and at every step, run_geometric_..._animation lights the shape
\* in plain integers, clipped at the edge of the grid, although its rows and columns
\* wrap in eight bits; nothing of it is left when the animation ends.
THEOREM ShapeIsMeantAlways == ShapesSpec => []ShapeIsMeant
  BY ShapeStart, ShapeTypeStep, ShapeInvariance, PTL DEF ShapesSpec
=============================================================================

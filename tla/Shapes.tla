------------------------------- MODULE Shapes ------------------------------
(***************************************************************************)
(* display.c: what the four geometric animations light, step by step, in   *)
(* the eight-bit arithmetic of the code, whose rows and columns wrap below *)
(* 0 and are clipped at the grid.                                          *)
(***************************************************************************)
EXTENDS Integers

VARIABLES
  shape_btn,    \* geometric_animation_btn_id
  shape_type,   \* geometric_animation_type
  shape_pos     \* geometric_animation_pos

shapeVars == <<shape_btn, shape_type, shape_pos>>

Button == 0..63
SQUARE == 0
CIRCLE == 1
STAR == 2
TRIANGLE == 3
Line == 0..7          \* rows or columns
Diff(a, b) == (a - b) % 256
Sum8(a, b) == (a + b) % 256

\* GEOMETRIC_ANIMATION_STEPS_...
Steps(type) ==
  CASE type = SQUARE -> 8 [] type = CIRCLE -> 14 [] type = STAR -> 11 [] OTHER -> 15

\* The grid is wired as two halves of 4 columns.
get_geometric_button_row(b) == (b \div 4) % 8
get_geometric_button_column(b) == (b % 4) + (IF b >= 32 THEN 4 ELSE 0)

\* 255 for a cell off the grid.
get_button_id_from_row_column(row, col) ==
  IF row \notin Line \/ col \notin Line THEN 255
  ELSE row * 4 + (col % 4) + (IF col < 4 THEN 0 ELSE 32)

\* The part of the grid from line min to line max, both wrapped.
Clipped(min, max) ==
  (IF min \in Line THEN min ELSE 0) .. (IF max \in Line THEN max ELSE 7)

\* run_geometric_square_animation.
SquareLit(row, col, pos) ==
  LET min_row == Diff(row, pos)  max_row == Sum8(row, pos)
      min_col == Diff(col, pos)  max_col == Sum8(col, pos)
  IN  {get_button_id_from_row_column(cell[1], cell[2]) :
         cell \in {cell \in Clipped(min_row, max_row) \X Clipped(min_col, max_col) :
                     cell[1] \in {min_row, max_row} \/ cell[2] \in {min_col, max_col}}}

get_distance_from_center_in_steps(row, col, r, c) ==
  (IF row > r THEN row - r ELSE r - row) + (IF col > c THEN col - c ELSE c - col)

\* run_geometric_circle_animation.
CircleLit(row, col, pos) ==
  LET min_row == Diff(row, pos)  max_row == Sum8(row, pos)
      min_col == Diff(col, pos)  max_col == Sum8(col, pos)
      incrementer == IF pos \div 2 <= 3 THEN pos \div 2 ELSE 3
      maximum == IF pos = 1 THEN pos ELSE pos + incrementer
      Reached(r, c) ==
        LET distance == get_distance_from_center_in_steps(row, col, r, c)
        IN  IF distance = pos THEN r \in {min_row, max_row} \/ c \in {min_col, max_col}
            ELSE pos < distance /\ distance <= maximum
  IN  {get_button_id_from_row_column(cell[1], cell[2]) :
         cell \in {cell \in Clipped(min_row, max_row) \X Clipped(min_col, max_col) :
                     Reached(cell[1], cell[2])}}

TAIL == 3   \* GEOMETRIC_STAR_MAX_TAIL_LENGTH

\* run_geometric_star_animation.
StarLit(row, col, pos) ==
  {b \in UNION {LET top == Diff(Sum8(row, pos), tail)  bottom == Sum8(Diff(row, pos), tail)
                    right == Diff(Sum8(col, pos), tail)  left == Sum8(Diff(col, pos), tail)
                IN  {get_button_id_from_row_column(cell[1], cell[2]) :
                       cell \in ({top, bottom, row} \X {left, right, col}) \ {<<row, col>>}} :
                tail \in 0 .. ((IF pos < TAIL THEN pos ELSE TAIL) - 1)} : b < 64}

\* Mutant: sides only, and their distance from the bottom taken from the clipped row.
TriangleLit_clipped(row, col, pos) ==
  LET half == 2 * (pos - 1) + 1
      min_row == Diff(row, pos - 1)  max_row == Sum8(row, pos)
      min_col == Diff(col, half)     max_col == Sum8(col, half)
      rows == Clipped(min_row, max_row)
      Sides(r) == LET up == r - (CHOOSE s \in rows : \A t \in rows : s <= t)
                  IN  {Sum8(min_col, up), Diff(max_col, up)} \cap Line
  IN  UNION {{get_button_id_from_row_column(r, c) : c \in Sides(r)} : r \in rows}

\* run_geometric_triangle_animation.
TriangleLit(row, col, pos) ==
  LET half == 2 * (pos - 1) + 1
      min_row == Diff(row, pos - 1)  max_row == Sum8(row, pos)
      min_col == Diff(col, half)     max_col == Sum8(col, half)
      rows == Clipped(min_row, max_row)
      Sides(r) == LET up == Diff(r, min_row)
                  IN  {Sum8(min_col, up), Diff(max_col, up)} \cap Line
  IN  (IF min_row \in Line
       THEN {get_button_id_from_row_column(min_row, c) : c \in Clipped(min_col, max_col)} ELSE {})
      \cup (IF max_row \in Line THEN {get_button_id_from_row_column(max_row, col)} ELSE {})
      \cup UNION {{get_button_id_from_row_column(r, c) : c \in Sides(r)} : r \in rows}

\* The buttons an animation lights; none at its first step and after its last.
Lit(btn, type, pos) ==
  LET row == get_geometric_button_row(btn)
      col == get_geometric_button_column(btn)
  IN  IF pos = 0 \/ pos >= Steps(type) THEN {}
      ELSE CASE type = SQUARE -> SquareLit(row, col, pos)
             [] type = CIRCLE -> CircleLit(row, col, pos)
             [] type = STAR -> StarLit(row, col, pos)
             [] OTHER -> TriangleLit(row, col, pos)

ShapesInit == shape_btn \in Button /\ shape_type \in 0..3 /\ shape_pos = 0

\* The update of run_geometric_..._animation.
StepShape ==
  /\ shape_pos < Steps(shape_type)
  /\ shape_pos' = shape_pos + 1
  /\ UNCHANGED <<shape_btn, shape_type>>

ShapesSpec == ShapesInit /\ [][StepShape]_shapeVars

----------------------------------------------------------------------------
\* Types; an animation does not go on after its last step.
ShapeTypeOK ==
  shape_btn \in Button /\ shape_type \in 0..3 /\ shape_pos \in 0 .. Steps(shape_type)

Abs(n) == IF n < 0 THEN -n ELSE n

\* The shapes in plain integers: is the button dr rows above and dc columns to the
\* right of the centre part of the shape?
InShape(type, pos, dr, dc) ==
  LET far == IF Abs(dr) > Abs(dc) THEN Abs(dr) ELSE Abs(dc)
      steps == Abs(dr) + Abs(dc)
      wide == IF pos = 1 THEN 0 ELSE IF pos < 6 THEN pos \div 2 ELSE 3
  IN  CASE type = SQUARE -> far = pos
        [] type = CIRCLE -> /\ far <= pos
                            /\ \/ steps = pos /\ far = pos
                               \/ pos < steps /\ steps <= pos + wide
        [] type = STAR -> /\ dr = 0 \/ dc = 0 \/ Abs(dr) = Abs(dc)
                          /\ far > 0 /\ pos - TAIL < far /\ far <= pos
        [] OTHER -> LET up == dr + pos - 1
                    IN  /\ up \in 0 .. (2 * pos - 1)
                        /\ IF up = 0 THEN Abs(dc) <= 2 * pos - 1 ELSE Abs(dc) = 2 * pos - 1 - up

\* The buttons of the grid that are in the shape.
Meant(btn, type, pos) ==
  {b \in Button :
     InShape(type, pos, get_geometric_button_row(b) - get_geometric_button_row(btn),
                        get_geometric_button_column(b) - get_geometric_button_column(btn))}

\* From every button, at every step, the code lights the shape, clipped at the edge
\* of the grid: nothing wraps to the other side, and no index leaves the buffer.  An
\* animation ends when its shape has left the grid, and not before.
ShapeIsMeant ==
  /\ shape_pos \in 1 .. (Steps(shape_type) - 1) =>
       Lit(shape_btn, shape_type, shape_pos) = Meant(shape_btn, shape_type, shape_pos)
  /\ shape_pos >= Steps(shape_type) => Meant(shape_btn, shape_type, shape_pos) = {}
=============================================================================

----------------------------- MODULE MCColors ------------------------------
(* What a host that pulled colours of the palette pushes back, colours of    *)
(* its own, and payloads that end inside a button or fill more than a part.  *)
EXTENDS Colors

MCPayload ==
  {[i \in 1..3 |-> Pulled(default_color[c][i])] :
     c \in {OFF, RED, YELLOW, CYAN, LAVENDER, LAVENDER + 1, WHITE}}
  \cup {<<0, 15, 127>>, <<127, 19, 127>>, <<1, 127, 0>>, <<5, 5>>, <<0, 0, 64, 64, 64>>}
=============================================================================

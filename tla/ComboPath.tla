----------------------------- MODULE ComboPath -----------------------------
(***************************************************************************)
(* The recogniser with the firmware's rules and a history of how far the   *)
(* keys pressed since it last left state 0 follow the drawing of the       *)
(* combos at the head of combo.c.                                          *)
(***************************************************************************)
EXTENDS Combo, ComboTable

VARIABLE progress   \* history: how many keys of each drawing were pressed, in order

\* The drawings of D and E, with key 0 at the bottom left.
Drawn == [c \in {COMBO_D_DOWN, COMBO_E_DOWN} |->
            IF c = COMBO_D_DOWN THEN <<4, 5, 6, 6, 7>> ELSE <<8, 8, 0, 0, 4, 5, 4, 5, 7, 6>>]

PathInit == Init /\ progress = [c \in DOMAIN Drawn |-> 0]

\* A poll counts at most one key of a drawing.
PathNext ==
  /\ Next
  /\ progress' = [c \in DOMAIN Drawn |->
       LET n == progress[c] IN
       IF combo_state' = 0 \/ Firing THEN 0
       ELSE IF n < Len(Drawn[c]) /\ Drawn[c][n + 1] \in keystate' \ keystate THEN n + 1
       ELSE n]

PathSpec == PathInit /\ [][PathNext]_<<vars, progress>>

\* Combos D and E fire only after all the keys drawn for them at the head of combo.c
\* were pressed in the drawn order since state 0, although two rules jump from the
\* middle of E into D.  (Not so C: rule 31 enters it after key 4 in place of key 5.)
FiredAsDrawn == returned \in DOMAIN Drawn => progress[returned] = Len(Drawn[returned])
=============================================================================

------------------------------ MODULE MCCombo ------------------------------
(* The recogniser with the firmware's rules, on small sets of keys.         *)
EXTENDS Combo, ComboTable
=============================================================================

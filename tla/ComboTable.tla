----------------------------- MODULE ComboTable -----------------------------
(* The rules of combo.c, state_table and state_offset.                      *)
EXTENDS Integers, Sequences

D == "down"
U == "up"

FirmwareTable ==
  << <<0,0,D,1,0>>, <<0,5,D,5,0>>, <<0,4,D,9,0>>, <<0,8,D,18,0>>,
     \* A
     <<1,1,D,2,0>>, <<2,2,D,3,0>>, <<3,3,D,4,1>>, <<4,3,U,0,6>>,
     \* C
     <<5,6,D,6,0>>, <<6,9,D,7,0>>, <<7,10,D,8,3>>, <<8,10,U,0,8>>,
     \* D
     <<9,4,U,10,0>>, <<10,5,D,11,0>>, <<11,5,U,12,0>>, <<11,6,D,6,0>>,
     <<12,6,D,13,0>>, <<13,6,U,14,0>>, <<14,6,D,15,0>>, <<15,6,U,16,0>>,
     <<16,7,D,17,4>>, <<17,7,U,0,9>>,
     \* E
     <<18,8,U,19,0>>, <<19,8,D,20,0>>, <<20,8,U,21,0>>, <<21,0,D,22,0>>,
     <<22,0,U,23,0>>, <<23,0,D,24,0>>, <<24,0,U,25,0>>, <<25,4,D,26,0>>,
     <<26,4,U,27,0>>, <<26,6,D,6,0>>, <<27,5,D,28,0>>, <<28,5,U,29,0>>,
     <<29,4,D,30,0>>, <<30,4,U,31,0>>, <<31,5,D,32,0>>, <<31,6,D,13,0>>,
     <<32,5,U,33,0>>, <<33,7,D,34,0>>, <<33,5,D,11,0>>, <<34,7,U,35,0>>,
     <<35,6,D,36,5>>, <<36,6,U,0,10>> >>

FirmwareOffset ==
  <<0, 4, 5, 6, 7, 8, 9, 10, 11, 12, 13, 14, 16, 17, 18, 19, 20, 21,
    22, 23, 24, 25, 26, 27, 28, 29, 30, 32, 33, 34, 35, 36, 38, 39, 41, 42, 43>>
=============================================================================

---------------------------- MODULE MCSettings -----------------------------
(* A full configuration, with a bit of the tilt mask that is not sent back,  *)
(* and one that leaves out most tags and repeats one.                        *)
EXTENDS Settings

Full ==
  <<0, 5, 1, 100, 3, 1, 7, 2, 8, 0, 10, 1, 11, 7, 12, 9, 13, 0, 14, 33, 15, 44, 16, 55,
    17, 66, 18, 11, 19, 22, 20, 1, 21, 77, 22, 10, 23, 1, 247>>
Sparse == <<1, 64, 23, 1, 23, 2, 247>>
MCBuffers == {Full, Sparse}
=============================================================================

----------------------------- MODULE MCMidiTask -----------------------------
(* Two keys that select the banks; the low one is a combo by itself.        *)
EXTENDS MidiTask

MCKey == {1}
MCAllKey == {1, 63}
MCBankKey == <<1, 63>>
MCTable == << <<0, 1, KEYDOWN, 1, COMBO_A_DOWN>>, <<1, 1, KEYUP, 0, COMBO_A_DOWN + 5>> >>
MCOffset == <<0, 1>>
=============================================================================

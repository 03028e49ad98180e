------------------------------- MODULE MCMidi ------------------------------
(* MIDI messages of the host, and to it: system exclusive messages taken     *)
(* from packets and cut into packets, the notes that light the keys, and the *)
(* flashing lights.                                                          *)
(* The components share no variable, and a behaviour is one of a single      *)
(* component: the others stay in an initial state.                          *)
EXTENDS MCSysEx, SysExOut, Feedback, Pulse

VARIABLE component

midiVars == <<component, sysexVars, outVars, feedbackVars, pulseVars>>

MidiInit ==
  /\ component \in {"sysex", "out", "feedback", "pulse"}
  /\ SysExInit /\ OutInit /\ FeedbackInit
  /\ component # "sysex" => msg = <<240, 9, 247>>
  /\ component # "out" => length = 0
  /\ component # "feedback" => G_EE_MIDI_CHANNEL = 0
  /\ IF component = "pulse" THEN PulseInit ELSE count = 0 /\ clocked = FALSE

Only(c) ==
  /\ component = c /\ UNCHANGED component
  /\ c # "sysex" => UNCHANGED sysexVars
  /\ c # "out" => UNCHANGED outVars
  /\ c # "feedback" => UNCHANGED feedbackVars
  /\ c # "pulse" => UNCHANGED pulseVars

MidiNext ==
  \/ Only("sysex") /\ SysExNext
  \/ Only("out") /\ OutNext
  \/ Only("feedback") /\ FeedbackNext
  \/ Only("pulse") /\ PulseNext

MidiSpec == MidiInit /\ [][MidiNext]_midiVars

\* The component that runs keeps its types and the invariant its proofs rest on: where
\* sysex_handle_3sc stands in a message, and how old a note off that a refresh of
\* update_note_off_feedback_delay passed over can be.
MidiInv ==
  CASE component = "sysex" -> SysExTypeOK /\ SysExInv [] component = "out" -> OutTypeOK
    [] component = "feedback" -> FeedbackTypeOK /\ OffInv [] component = "pulse" -> PulseTypeOK
=============================================================================

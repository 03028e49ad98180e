------------------------------ MODULE MCConfig -----------------------------
(* What the host's commands do to the configuration in RAM and EEPROM, and   *)
(* to the colours, in a bank small enough to try every part and size.  The   *)
(* two share no variable, and a behaviour is one of a single component: the  *)
(* other stays in an initial state.                                         *)
EXTENDS MCSettings, MCColors

VARIABLE component

configVars == <<component, settingsVars, colorsVars>>

ConfigInit ==
  /\ component \in {"settings", "colors"}
  /\ SettingsInit /\ ColorsInit
  /\ component # "settings" => ee[EE_EEPROM_VERSION] = 255

Only(c) ==
  /\ component = c /\ UNCHANGED component
  /\ c # "settings" => UNCHANGED settingsVars
  /\ c # "colors" => UNCHANGED colorsVars

ConfigNext ==
  \/ Only("settings") /\ SettingsNext
  \/ Only("colors") /\ ColorsNext

ConfigSpec == ConfigInit /\ [][ConfigNext]_configVars

\* A host that pushes back what it pulled changes nothing it was sent.  PushBack:
\* settings that send_config_data sent, through sysExCmdPushConfig; PullPushIsSame:
\* colours of the palette, in every part of both arrays of sysExCmdBulkXfer.
PullThenPush == IF component = "settings" THEN PushBack ELSE PullPushIsSame
=============================================================================

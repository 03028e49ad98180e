----------------------------- MODULE Settings ------------------------------
(***************************************************************************)
(* eeprom.c and config.c: the settings and the colours, in RAM and in the  *)
(* EEPROM, the commands of the host that change them, and power that may   *)
(* fail between two writes.                                                *)
(*                                                                         *)
(* A save writes the EEPROM byte by byte, for 2.7 seconds, and nothing     *)
(* else runs in the main loop meanwhile.  A byte that is being written     *)
(* when power fails is taken to be written or not.                         *)
(***************************************************************************)
EXTENDS Integers, Sequences, FiniteSets, FiniteSetsExt

CONSTANTS
  COLORS,           \* colour bytes of a bank: 64*3
  PART,             \* colour bytes of a part of a bulk transfer: 24
  Buffers,          \* what the host pushes: tags and values, 0xf7
  ColorByte,        \* colour bytes the host pushes, adjusted for power
  MAX_COMMANDS      \* bound: commands that change RAM

NUM_BANKS == 2
EEPROM_LAYOUT == 1
EE_EEPROM_VERSION == 0
EE_COLORS_IDLE == 111
EE_COLORS_ACTIVE == 495
EE == [MIDI_CHANNEL |-> 2, MIDI_VELOCITY |-> 3, FOUR_BANKS_MODE |-> 5,
       MIDI_OUTPUT_MODE |-> 9, COMBOS_ENABLE |-> 10, TILT_MODE |-> 12, TILT_MASK |-> 13,
       ANIMATIONS |-> 14, TILT_SENSITIVITY |-> 15, PITCH_SENSITIVITY |-> 16,
       TILT_RANGE |-> 17, PITCH_RANGE |-> 18, TILT_DEADZONE |-> 19, PITCH_DEADZONE |-> 20,
       TILT_AXIS |-> 21, PICK_SENSITIVITY |-> 22, SLEEP_TIME |-> 23, SIDE_BANK |-> 24]

Byte == 0..255
Setting == DOMAIN EE
Bank == 0 .. (NUM_BANKS - 1)
Color == {"idle", "active"} \X Bank \X (0 .. (COLORS - 1))

ASSUME SettingsAssumption ==
  /\ COLORS \in 1..192 /\ PART \in 1 .. COLORS
  /\ Buffers \subseteq Seq(Byte)
  /\ ColorByte \subseteq Byte
  /\ MAX_COMMANDS \in Nat

VARIABLES
  ee,          \* the EEPROM, by address
  G_EE,        \* the settings in RAM
  colors,      \* default_bank_inactive and default_bank_active
  pc,          \* off, reset (about to reset), save (eeprom_save_edits), run (the main loop)
  caller,      \* whom a reset or a save returns to: boot, push, system
  next,        \* the next write of the save, or of the one that power cut short
  told,        \* the last configuration sent to the host; <<>> since power on: none
  commands,    \* commands so far
  before, goal,   \* history: the EEPROM when the last save began, and what it writes
  unsaved,     \* history: colours pushed and not saved
  foreign      \* history: addresses not written since the layout changed

settingsVars == <<ee, G_EE, colors, pc, caller, next, told, commands, before, goal, unsaved, foreign>>
history == <<before, goal, foreign>>

\* Mutant: the banks share their cells.
ColorAddress_no_bank(c) == (IF c[1] = "idle" THEN EE_COLORS_IDLE ELSE EE_COLORS_ACTIVE) + c[3]

\* Where a colour is kept.
ColorAddress(c) ==
  (IF c[1] = "idle" THEN EE_COLORS_IDLE ELSE EE_COLORS_ACTIVE) + COLORS * c[2] + c[3]

\* The writes of eeprom_save_edits, in their order.
SettingOrder ==
  <<"MIDI_CHANNEL", "MIDI_VELOCITY", "COMBOS_ENABLE", "MIDI_OUTPUT_MODE", "FOUR_BANKS_MODE",
    "TILT_MODE", "TILT_MASK", "ANIMATIONS", "TILT_SENSITIVITY", "PITCH_SENSITIVITY",
    "TILT_RANGE", "PITCH_RANGE", "TILT_DEADZONE", "PITCH_DEADZONE", "TILT_AXIS",
    "PICK_SENSITIVITY", "SLEEP_TIME", "SIDE_BANK">>
ColorOrder ==
  [m \in 1 .. (2 * NUM_BANKS * COLORS) |->
     <<IF ((m - 1) \div COLORS) % 2 = 0 THEN "idle" ELSE "active",
       (m - 1) \div (2 * COLORS), (m - 1) % COLORS>>]

\* Mutant: the last colour is not saved.
LAST_short == Len(SettingOrder) + Len(ColorOrder) - 1

LAST == Len(SettingOrder) + Len(ColorOrder)
Write == 1 .. LAST
IsSetting(m) == m <= Len(SettingOrder)
Cell(m) == IF IsSetting(m) THEN EE[SettingOrder[m]]
           ELSE ColorAddress(ColorOrder[m - Len(SettingOrder)])
Value(m, g, c) == IF IsSetting(m) THEN g[SettingOrder[m]] ELSE c[ColorOrder[m - Len(SettingOrder)]]

Address == {EE_EEPROM_VERSION} \cup {EE[s] : s \in Setting} \cup {ColorAddress(c) : c \in Color}

\* Reading the EEPROM: eeprom_setup without its reset.
Load ==
  /\ G_EE' = [s \in Setting |-> ee[EE[s]]]
  /\ colors' = [c \in Color |-> ee[ColorAddress(c)]]
  /\ unsaved' = {}

\* The factory's settings and load_default_colors.
Default ==
  [MIDI_CHANNEL |-> 2, MIDI_VELOCITY |-> 127, FOUR_BANKS_MODE |-> 0, MIDI_OUTPUT_MODE |-> 0,
   COMBOS_ENABLE |-> 1, TILT_MODE |-> 2, TILT_MASK |-> 241, ANIMATIONS |-> 4,
   TILT_SENSITIVITY |-> 30, PITCH_SENSITIVITY |-> 127, TILT_RANGE |-> 70, PITCH_RANGE |-> 60,
   TILT_DEADZONE |-> 12, PITCH_DEADZONE |-> 127, TILT_AXIS |-> 0, PICK_SENSITIVITY |-> 64,
   SLEEP_TIME |-> 60, SIDE_BANK |-> 0]
load_default_colors ==
  [c \in Color |->
     CASE c[1] = "idle" /\ c[2] = 0 -> 0
       [] c[1] = "idle" /\ c[2] = 1 -> 24
       [] c[1] = "active" /\ c[2] = 0 -> IF c[3] % 3 = 2 THEN 48 ELSE 0
       [] c[1] = "active" /\ c[2] = 1 -> IF c[3] % 3 = 1 THEN 48 ELSE 0]

\* A device whose EEPROM is blank or has another layout.
SettingsInit ==
  /\ \E b \in {0, 255} : ee = [a \in Address |-> b]
  /\ G_EE = Default /\ colors = load_default_colors
  /\ pc = "off" /\ caller = "boot" /\ next = 1 /\ told = <<>> /\ commands = 0
  /\ before = ee /\ goal = [m \in Write |-> 0] /\ unsaved = {}
  /\ foreign = Address

\* eeprom_setup when power comes on.
eeprom_setup ==
  /\ pc = "off" /\ caller' = "boot"
  /\ \/ ee[EE_EEPROM_VERSION] # EEPROM_LAYOUT /\ pc' = "reset" /\ UNCHANGED <<G_EE, colors, unsaved>>
     \/ ee[EE_EEPROM_VERSION] = EEPROM_LAYOUT /\ pc' = "run" /\ Load
  /\ UNCHANGED <<ee, next, told, commands, history>>

\* eeprom_save_edits begins, with g and c in RAM.
BeginSave(g, c) ==
  /\ pc' = "save" /\ next' = 1
  /\ G_EE' = g /\ colors' = c
  /\ goal' = [m \in Write |-> Value(m, g, c)] /\ before' = ee'

\* eeprom_factory_reset, up to its save: the version is written first.
eeprom_factory_reset ==
  /\ pc = "reset"
  /\ ee' = [ee EXCEPT ![EE_EEPROM_VERSION] = EEPROM_LAYOUT]
  /\ BeginSave(Default, load_default_colors)
  /\ foreign' = foreign \ {EE_EEPROM_VERSION}
  /\ UNCHANGED <<caller, told, commands, unsaved>>

\* eeprom_save_edits, one eeprom_write.
eeprom_save_edits ==
  /\ pc = "save" /\ next <= LAST
  /\ ee' = [ee EXCEPT ![Cell(next)] = Value(next, G_EE, colors)]
  /\ next' = next + 1
  /\ foreign' = foreign \ {Cell(next)}
  /\ UNCHANGED <<G_EE, colors, pc, caller, told, commands, before, goal, unsaved>>

\* tv_table_decode: the last value of each tag, 0 without one.
TV_TABLE_SIZE == 24
tv_table_decode(buffer) ==
  [tag \in 0 .. (TV_TABLE_SIZE - 1) |->
     LET at == {i \in 1 .. (Len(buffer) - 1) : i % 2 = 1 /\ buffer[i] = tag}
     IN  IF at = {} THEN 0 ELSE buffer[Max(at) + 1]]

\* The or of two bytes, by the values of their bits.
Bit(a, b, value) == IF (a \div value) % 2 = 1 \/ (b \div value) % 2 = 1 THEN value ELSE 0
BitOr(a, b) ==
  Bit(a, b, 1) + Bit(a, b, 2) + Bit(a, b, 4) + Bit(a, b, 8)
  + Bit(a, b, 16) + Bit(a, b, 32) + Bit(a, b, 64) + Bit(a, b, 128)

\* config.midiChannel - 1 and config.tiltMode + 1, in a byte.
Channel(tag) == (tag - 1) % 256
TiltMode(tag) == (tag + 1) % 256

\* The settings after a push; the pitch sensitivity and dead zone are not pushed.
Pushed(g, config) ==
  [g EXCEPT !.MIDI_CHANNEL = Channel(config[0]), !.MIDI_VELOCITY = config[1],
            !.FOUR_BANKS_MODE = config[3], !.MIDI_OUTPUT_MODE = config[7],
            !.COMBOS_ENABLE = config[8], !.ANIMATIONS = config[10],
            !.TILT_MASK = BitOr((config[12] * 16) % 256, config[11]),
            !.TILT_MODE = TiltMode(config[13]),
            !.TILT_SENSITIVITY = config[14], !.TILT_RANGE = config[16],
            !.PITCH_RANGE = config[17], !.TILT_DEADZONE = config[18],
            !.TILT_AXIS = config[20], !.PICK_SENSITIVITY = config[21],
            !.SLEEP_TIME = config[22], !.SIDE_BANK = config[23]]

\* send_config_data: tags and values.
ConfigData(g) ==
  <<0, (g.MIDI_CHANNEL + 1) % 256, 1, g.MIDI_VELOCITY, 3, g.FOUR_BANKS_MODE,
    7, g.MIDI_OUTPUT_MODE, 8, g.COMBOS_ENABLE, 10, g.ANIMATIONS,
    11, g.TILT_MASK % 4, 12, (g.TILT_MASK \div 16) % 16, 13, (g.TILT_MODE - 1) % 256,
    14, g.TILT_SENSITIVITY, 15, g.PITCH_SENSITIVITY, 16, g.TILT_RANGE, 17, g.PITCH_RANGE,
    18, g.TILT_DEADZONE, 19, g.PITCH_DEADZONE, 20, g.TILT_AXIS, 21, g.PICK_SENSITIVITY,
    22, g.SLEEP_TIME, 23, g.SIDE_BANK, 247>>

\* Mutant: a factory reset does not tell the host.
SaveDone_untold ==
  /\ pc = "save" /\ next > LAST /\ pc' = "run"
  /\ told' = IF caller = "push" THEN ConfigData(G_EE) ELSE told
  /\ \/ caller = "system" /\ unsaved' = {} /\ UNCHANGED <<G_EE, colors>>
     \/ caller \in {"push", "boot"} /\ Load
  /\ UNCHANGED <<ee, caller, next, commands, history>>

\* After the save: a command sends the configuration; a push, and the setup
\* at power on, read the EEPROM back.
SaveDone ==
  /\ pc = "save" /\ next > LAST /\ pc' = "run"
  /\ told' = IF caller = "boot" THEN told ELSE ConfigData(G_EE)
  /\ \/ caller = "system" /\ unsaved' = {} /\ UNCHANGED <<G_EE, colors>>
     \/ caller \in {"push", "boot"} /\ Load
  /\ UNCHANGED <<ee, caller, next, commands, history>>

\* A command from the main loop.
Command == pc = "run" /\ commands < MAX_COMMANDS /\ commands' = commands + 1

sysExCmdPushConfig(buffer) ==
  /\ Command /\ caller' = "push"
  /\ UNCHANGED <<ee, told, unsaved, foreign>>
  /\ BeginSave(Pushed(G_EE, tv_table_decode(buffer)), colors)

sysExCmdPullConfig ==
  /\ pc = "run"
  /\ told' = ConfigData(G_EE)
  /\ UNCHANGED <<ee, G_EE, colors, pc, caller, next, commands, history, unsaved>>

\* The command 2 of sysExCmdSystem.
sysExCmdSystem ==
  /\ Command /\ pc' = "reset" /\ caller' = "system"
  /\ UNCHANGED <<ee, G_EE, colors, next, told, history, unsaved>>

\* A push of sysExCmdBulkXfer, of a whole part: its colours change, in RAM only.
sysExCmdBulkXfer(kind, bank, offset, value) ==
  LET part == {kind} \X {bank} \X (offset .. (offset + PART - 1))
  IN  /\ Command
      /\ colors' = [c \in Color |-> IF c \in part THEN value ELSE colors[c]]
      /\ unsaved' = unsaved \cup part
      /\ UNCHANGED <<ee, G_EE, pc, caller, next, told, history>>

\* Power fails.  RAM is read again before it is used; the host asks again.
PowerLoss ==
  /\ pc # "off" /\ pc' = "off"
  /\ told' = <<>>
  /\ UNCHANGED <<ee, G_EE, colors, caller, next, commands, history, unsaved>>

Offsets == {PART * p : p \in 0 .. ((COLORS \div PART) - 1)}
SettingsNext ==
  \/ eeprom_setup \/ eeprom_factory_reset \/ eeprom_save_edits \/ SaveDone
  \/ \E buffer \in Buffers : sysExCmdPushConfig(buffer)
  \/ sysExCmdPullConfig \/ sysExCmdSystem
  \/ \E kind \in {"idle", "active"}, bank \in Bank, offset \in Offsets, value \in ColorByte :
        sysExCmdBulkXfer(kind, bank, offset, value)
  \/ PowerLoss

SettingsSpec == SettingsInit /\ [][SettingsNext]_settingsVars

----------------------------------------------------------------------------
\* Wherever power cuts a save short, the EEPROM holds what eeprom_save_edits had
\* written by then and, in every later cell, what it held before the save.
Persisted ==
  \A m \in Write : ee[Cell(m)] = IF m < next THEN goal[m] ELSE before[Cell(m)]

\* In the main loop, RAM and EEPROM differ at most in colours a bulk transfer
\* pushed since the last save: nothing else is lost with the power.
OnlyColorsUnsaved ==
  pc = "run" =>
    /\ \A s \in Setting : ee[EE[s]] = G_EE[s]
    /\ \A c \in Color \ unsaved : ee[ColorAddress(c)] = colors[c]

\* What the host was last told is what the device does: every command that
\* changes settings sends them.
ToldIsCurrent == pc = "run" /\ told # <<>> => told = ConfigData(G_EE)

\* A host that pushes back what send_config_data sent changes nothing, but for the
\* bits 2 and 3 of the tilt mask, which a push may set and send_config_data leaves out.
Told(mask) == mask - 4 * ((mask \div 4) % 4)
PushBack ==
  pc = "run" =>
    Pushed(G_EE, tv_table_decode(ConfigData(G_EE))) = [G_EE EXCEPT !.TILT_MASK = Told(@)]

\* "If our EEPROM layout has changed, reset everything": the main loop runs on no
\* byte that another layout wrote.
ResetOnNewLayout == pc = "run" => foreign = {}
=============================================================================

------------------------------ MODULE MidiTask ------------------------------
(***************************************************************************)
(* midifighter64.c, Midifighter_Task: what the host hears.  The key edges  *)
(* of a poll become note and CC messages on a channel that depends on the  *)
(* bank; the combo recogniser (Combo) sends notes of its own; the bank     *)
(* follows the bank keys (BankButtons, which BankSelect implements) and    *)
(* the host.  A pass made before USB is configured returns at once and is  *)
(* no step.  A message sent is a message heard: a host that stops reading  *)
(* is not modelled.                                                        *)
(***************************************************************************)
EXTENDS Combo

CONSTANTS
  AllKey,      \* the keys that take part, out of 0..63
  BankKey,     \* bank_select_key_ids: <<28, 63>>, indexed from 1
  CHANNELS,    \* MIDI channels: 16
  MAX_PUSHES   \* bound: configurations pushed by the host

ASSUME MidiTaskAssumption ==
  /\ AllKey \subseteq 0..63 /\ Key = AllKey \cap 0..15
  /\ BankKey[1] \in AllKey /\ BankKey[2] \in AllKey /\ BankKey[1] # BankKey[2]
  /\ CHANNELS \in Nat \ {0}
  /\ MAX_PUSHES \in Nat

Channel == 0 .. (CHANNELS - 1)
OutputMode == 0..2
MIDI_OUTPUT_MODE_NOTES_ONLY == 0
MIDI_OUTPUT_MODE_CCS_ONLY == 2

VARIABLES
  g_key_state,
  g_key_bank_last_up,      \* keys last pressed in bank 1
  armed, g_bank_selected,  \* of BankButtons
  G_EE_MIDI_CHANNEL, G_EE_MIDI_OUTPUT_MODE, G_EE_COMBOS_ENABLE,
  pushes,
  notesOn,                 \* at the host: <<channel, key>> of sounding notes
  ccsOn,                   \* at the host: <<channel, key>> of CCs at 127
  combosOn,                \* at the host: <<channel, combo>> of sounding combos
  unsettled                \* history: keys held at power on, or while the
                           \* channel or output mode changed

settings == <<G_EE_MIDI_CHANNEL, G_EE_MIDI_OUTPUT_MODE, G_EE_COMBOS_ENABLE>>
bankVars == <<armed, g_bank_selected>>
hostVars == <<notesOn, ccsOn, combosOn>>
taskVars == <<g_key_state, g_key_bank_last_up, armed, g_bank_selected,
              G_EE_MIDI_CHANNEL, G_EE_MIDI_OUTPUT_MODE, G_EE_COMBOS_ENABLE, pushes,
              notesOn, ccsOn, combosOn, unsettled, vars>>

Banks(keys) == {b \in 0..1 : BankKey[b + 1] \in keys}
Buttons == INSTANCE BankButtons WITH held <- Banks(g_key_state), bank <- g_bank_selected

\* main up to the main loop: keys held at power on are in g_key_state, but no
\* note was sent for them.
TaskInit ==
  /\ Init
  /\ g_key_state \in SUBSET (AllKey \ {0}) /\ keystate = g_key_state \cap 0..15
  /\ g_key_bank_last_up = {}
  /\ armed = {} /\ g_bank_selected = 0
  /\ G_EE_MIDI_CHANNEL \in Channel /\ G_EE_MIDI_OUTPUT_MODE \in OutputMode
  /\ G_EE_COMBOS_ENABLE \in BOOLEAN
  /\ pushes = 0
  /\ notesOn = {} /\ ccsOn = {} /\ combosOn = {}
  /\ unsettled = g_key_state

\* The channel of a bank: midi_stream_note's, and the one the task computes.
BankChannel(b) == IF G_EE_MIDI_CHANNEL >= b THEN G_EE_MIDI_CHANNEL - b ELSE CHANNELS - b

\* Mutant: the release goes to the channel of the current bank.
NoteOffChannel_current(k) == BankChannel(g_bank_selected)

\* The channel of the bank the key was pressed in.
NoteOffChannel(k) == BankChannel(IF k \in g_key_bank_last_up THEN 1 ELSE 0)

SendsNotes == G_EE_MIDI_OUTPUT_MODE < MIDI_OUTPUT_MODE_CCS_ONLY
SendsCCs == G_EE_MIDI_OUTPUT_MODE > MIDI_OUTPUT_MODE_NOTES_ONLY

\* The key loop: a NoteOn and/or CC per press, and their end per release.
ServiceKeys(down, up) ==
  /\ notesOn' = IF SendsNotes
                THEN (notesOn \cup {<<BankChannel(g_bank_selected), k>> : k \in down})
                     \ {<<NoteOffChannel(k), k>> : k \in up}
                ELSE notesOn
  /\ ccsOn' = IF SendsCCs
              THEN (ccsOn \cup {<<G_EE_MIDI_CHANNEL, k>> : k \in down})
                   \ {<<G_EE_MIDI_CHANNEL, k>> : k \in up}
              ELSE ccsOn
  /\ g_key_bank_last_up' = IF g_bank_selected = 0 THEN g_key_bank_last_up \ down
                           ELSE g_key_bank_last_up \cup down
  /\ Buttons!Poll(Banks(down), Banks(up))

\* The recogniser's action becomes a note on the channel of the current bank.
ServiceCombos(down, up) ==
  \/ /\ G_EE_COMBOS_ENABLE
     /\ \/ combo_recognize(down, up)
        \/ down \cup up = {} /\ QuickOut
     /\ combosOn' = LET c == BankChannel(g_bank_selected) IN
                    IF returned' \in DownAction THEN combosOn \cup {<<c, returned'>>}
                    ELSE combosOn \ {<<c, returned' - 5>>}
  \/ /\ ~G_EE_COMBOS_ENABLE
     /\ keystate' = After(down, up)
     /\ UNCHANGED <<combo_state, combo_action, combo_release_key, returned, sounding,
                    combosOn>>

\* One pass of Midifighter_Task over the edges of a poll.
PollKeys(down, up) ==
  /\ g_key_state' = (g_key_state \cup down) \ up
  /\ ServiceKeys(down, up)
  /\ ServiceCombos(down \cap 0..15, up \cap 0..15)
  /\ UNCHANGED <<settings, pushes, unsettled>>

\* service_bank_select_buttons, and the bank CC from the host.
ChangeBank ==
  /\ UNCHANGED <<g_key_state, g_key_bank_last_up, settings, pushes, hostVars, unsettled, vars>>
  /\ \E b \in 0..1 : Buttons!ButtonSelects(b) \/ Buttons!HostSelects(b)

\* The settings of sysExCmdPushConfig that this module depends on; when it switches
\* the bank keys off it selects bank 1.  eeprom_factory_reset is one such change.
ReceiveConfig(channel, mode, combos) ==
  /\ pushes < MAX_PUSHES /\ pushes' = pushes + 1
  /\ G_EE_MIDI_CHANNEL' = channel
  /\ G_EE_MIDI_OUTPUT_MODE' = mode
  /\ G_EE_COMBOS_ENABLE' = combos
  /\ unsettled' = IF channel = G_EE_MIDI_CHANNEL /\ mode = G_EE_MIDI_OUTPUT_MODE
                  THEN unsettled ELSE unsettled \cup g_key_state
  /\ UNCHANGED <<g_key_state, g_key_bank_last_up, hostVars, vars>>
  /\ UNCHANGED bankVars \/ Buttons!HostSelects(0)

TaskNext ==
  \/ \E down \in SUBSET (AllKey \ g_key_state), up \in SUBSET g_key_state :
       /\ Cardinality(down) + Cardinality(up) <= MAX_CHANGE
       /\ PollKeys(down, up)
  \/ ChangeBank
  \/ \E channel \in Channel, mode \in OutputMode, combos \in BOOLEAN :
       ReceiveConfig(channel, mode, combos)

TaskSpec == TaskInit /\ [][TaskNext]_taskVars

----------------------------------------------------------------------------
\* Types of the state that the notes depend on.
TaskTypeOK ==
  /\ g_key_state \subseteq AllKey /\ g_key_bank_last_up \subseteq AllKey
  /\ g_bank_selected \in 0..1 /\ armed \subseteq 0..1
  /\ G_EE_MIDI_CHANNEL \in Channel /\ G_EE_MIDI_OUTPUT_MODE \in OutputMode
  /\ G_EE_COMBOS_ENABLE \in BOOLEAN
  /\ notesOn \subseteq Channel \X AllKey /\ ccsOn \subseteq Channel \X AllKey
  /\ unsettled \subseteq AllKey

\* "so bank changes don't result in stuck notes": however banks change while keys
\* are held, what sounds at the host for a key is one note (and one CC, in the
\* modes that send them) while it is held and nothing once it is released; the
\* exceptions are keys held at power on or through a change of the channel or the
\* output mode.
HostMirrorsKeys ==
  \A k \in AllKey \ unsettled, c \in Channel :
    /\ <<c, k>> \in notesOn <=> k \in g_key_state /\ SendsNotes /\ c = NoteOffChannel(k)
    /\ <<c, k>> \in ccsOn <=> k \in g_key_state /\ SendsCCs /\ c = G_EE_MIDI_CHANNEL

\* "Combos retain a NoteOn while the final key is depressed and emit a NoteUp
\* when it is released": with no key held no combo note sounds.
ComboNotesEnd == keystate = {} => combosOn = {}

\* The recogniser runs on the keys of the poll, and a combo that it takes to be
\* sounding does sound at the host, whatever bank, channel and settings do.
CombosHeard ==
  /\ keystate = g_key_state \cap 0..15
  /\ \A a \in sounding : \E c \in Channel : <<c, a>> \in combosOn

\* What makes ComboNotesEnd fail beyond CombosEnd: as long as bank and channel change
\* only while no combo sounds, the host hears the combos of the recogniser and no other.
ChannelKept == [][sounding = {} \/ UNCHANGED <<g_bank_selected, G_EE_MIDI_CHANNEL>>]_taskVars
OnlyCombosHeard == combosOn = {<<BankChannel(g_bank_selected), a>> : a \in sounding}

\* What makes a combo outlive its key in the task: as long as combos are switched on
\* and off only while none is active, ActiveComboHeld.
SwitchedIdle == [][G_EE_COMBOS_ENABLE' = G_EE_COMBOS_ENABLE \/ ~Firing]_taskVars
=============================================================================

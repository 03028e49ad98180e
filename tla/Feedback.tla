------------------------------ MODULE Feedback ------------------------------
(***************************************************************************)
(* midifighter64.c: light feedback.  Notes from the host set the velocity  *)
(* that lights a key; a note off is only stamped with the low seven bits   *)
(* of the clock, and update_note_off_feedback_delay, run by each refresh   *)
(* of the lights, applies it once LIMIT milliseconds have passed.          *)
(***************************************************************************)
EXTENDS Integers

CONSTANTS
  NUM_BUTTONS,    \* 64
  MIDI_BASENOTE,  \* 36
  Note,           \* the notes the host may send, out of 0..127
  MAX_VELOCITY,   \* 127
  CHANNELS,       \* 16
  STAMP,          \* values of a time stamp: 128
  TIME_MOD,       \* values of system_time_ms: 2^16
  REFRESH,        \* LED_REFRESH_LIMIT: 25
  LIMIT,          \* NOTE_OFF_FEEDBACK_DELAY_LIMIT: 2
  MAX_GAP         \* most milliseconds between two refreshes

Channel == 0 .. (CHANNELS - 1)
Velocity == 0 .. MAX_VELOCITY
Id == 0 .. (2 * NUM_BUTTONS - 1)   \* key ids: bank 1, then bank 2

ASSUME FeedbackAssumption ==
  /\ NUM_BUTTONS \in Nat \ {0} /\ MIDI_BASENOTE \in Nat
  /\ MIDI_BASENOTE + NUM_BUTTONS <= 256
  /\ Note \subseteq 0..127
  /\ MAX_VELOCITY \in Nat /\ CHANNELS \in Nat /\ CHANNELS > 2
  /\ STAMP \in Nat \ {0} /\ TIME_MOD \in Nat \ {0}
  /\ TIME_MOD % STAMP = 0 /\ TIME_MOD > STAMP + LIMIT
  /\ REFRESH \in Nat /\ LIMIT \in 0..REFRESH
  /\ MAX_GAP \in REFRESH .. (STAMP - LIMIT)

VARIABLES
  system_time_ms,
  last_led_refresh_time_ms,
  gap,                        \* milliseconds since the last refresh
  G_EE_MIDI_CHANNEL,
  g_midi_note_state,          \* [0][.]: velocity per key id
  g_midi_note_off_counter,    \* 0, or STAMP + the time of a note off
  animation,                  \* g_midi_note_state[1][.]: velocity per note
  want,                       \* history: the velocity the host asked for last
  skipped                     \* history: refreshes since a note off came in

feedbackVars == <<system_time_ms, last_led_refresh_time_ms, gap, G_EE_MIDI_CHANNEL,
                  g_midi_note_state, g_midi_note_off_counter, animation, want, skipped>>
clockVars == <<system_time_ms, last_led_refresh_time_ms, gap>>

Minus(a, b) == IF a >= b THEN a - b ELSE a - b + TIME_MOD   \* uint16_t

\* midi_setup: everything off.
FeedbackInit ==
  /\ system_time_ms = 0 /\ last_led_refresh_time_ms = 0 /\ gap = 0
  /\ G_EE_MIDI_CHANNEL \in Channel
  /\ g_midi_note_state = [id \in Id |-> 0]
  /\ g_midi_note_off_counter = [id \in Id |-> 0]
  /\ animation = [n \in Note |-> 0]
  /\ want = [id \in Id |-> 0] /\ skipped = [id \in Id |-> 0]

Tick ==
  /\ gap < MAX_GAP /\ gap' = gap + 1
  /\ system_time_ms' = (system_time_ms + 1) % TIME_MOD
  /\ UNCHANGED <<last_led_refresh_time_ms, G_EE_MIDI_CHANNEL, g_midi_note_state,
                 g_midi_note_off_counter, animation, want, skipped>>

\* The channels the handler listens to, relative to the configured one.
Bank1Channel == G_EE_MIDI_CHANNEL
Bank2Channel == (G_EE_MIDI_CHANNEL + CHANNELS - 1) % CHANNELS
AnimationChannel == (G_EE_MIDI_CHANNEL + 1) % CHANNELS

\* Mutant: the lowest note is taken for the second key.
NoteKey_from_one(note) == IF note + 1 >= MIDI_BASENOTE THEN note + 1 - MIDI_BASENOTE
                          ELSE note + 257 - MIDI_BASENOTE

\* note - MIDI_BASENOTE in eight bits.
NoteKey(note) == IF note >= MIDI_BASENOTE THEN note - MIDI_BASENOTE
                 ELSE note - MIDI_BASENOTE + 256

\* The key id a note on a channel is about, if any.
Addressed(channel, note) ==
  IF NoteKey(note) >= NUM_BUTTONS THEN {}
  ELSE IF channel = Bank1Channel THEN {NoteKey(note)}
  ELSE IF channel = Bank2Channel THEN {NoteKey(note) + NUM_BUTTONS}
  ELSE {}

Set(f, ids, v) == [x \in DOMAIN f |-> IF x \in ids THEN v ELSE f[x]]

Animate(channel, note, velocity) ==
  animation' = IF channel = AnimationChannel THEN [animation EXCEPT ![note] = velocity]
               ELSE animation

\* Mutant: a note off that is still pending survives a new note on.
NoteOn_keeps_pending(channel, note, velocity) ==
  /\ g_midi_note_state' = Set(g_midi_note_state, Addressed(channel, note), velocity)
  /\ want' = Set(want, Addressed(channel, note), velocity)
  /\ Animate(channel, note, velocity)
  /\ UNCHANGED <<clockVars, G_EE_MIDI_CHANNEL, g_midi_note_off_counter, skipped>>

\* case 0x9: lights the key and cancels a pending note off.
NoteOn(channel, note, velocity) ==
  /\ g_midi_note_state' = Set(g_midi_note_state, Addressed(channel, note), velocity)
  /\ g_midi_note_off_counter' = Set(g_midi_note_off_counter, Addressed(channel, note), 0)
  /\ want' = Set(want, Addressed(channel, note), velocity)
  /\ skipped' = Set(skipped, Addressed(channel, note), 0)
  /\ Animate(channel, note, velocity)
  /\ UNCHANGED <<clockVars, G_EE_MIDI_CHANNEL>>

\* Mutant: the flag that marks a pending note off is left out of the stamp.
Stamped_no_flag == system_time_ms % STAMP

\* (system_time_ms & 0x7F) | 0x80.
Stamped == STAMP + (system_time_ms % STAMP)

\* case 0x8: only stamps the key; an animation ends at once.
NoteOff(channel, note) ==
  /\ g_midi_note_off_counter' = Set(g_midi_note_off_counter, Addressed(channel, note), Stamped)
  /\ want' = Set(want, Addressed(channel, note), 0)
  /\ skipped' = Set(skipped, Addressed(channel, note), 0)
  /\ Animate(channel, note, 0)
  /\ UNCHANGED <<clockVars, G_EE_MIDI_CHANNEL, g_midi_note_state>>

\* Mutant: the difference is signed.
NoteOffDue_signed(id) ==
  /\ g_midi_note_off_counter[id] >= STAMP
  /\ (system_time_ms % STAMP) - (g_midi_note_off_counter[id] - STAMP) >= LIMIT

\* The test of update_note_off_feedback_delay: a clock that is past its seventh
\* bit gives a difference below 0, which in 16 bits is large.
NoteOffDue(id) ==
  /\ g_midi_note_off_counter[id] >= STAMP
  /\ Minus(system_time_ms % STAMP, g_midi_note_off_counter[id] - STAMP) >= LIMIT

update_note_off_feedback_delay ==
  LET due == {id \in Id : NoteOffDue(id)} IN
  /\ g_midi_note_state' = Set(g_midi_note_state, due, 0)
  /\ g_midi_note_off_counter' = Set(g_midi_note_off_counter, due, 0)
  /\ skipped' = [id \in Id |-> IF id \in due \/ g_midi_note_off_counter[id] = 0 THEN 0
                               ELSE skipped[id] + 1]

\* sysExCmdPushConfig: another channel.
ReceiveConfig(channel) ==
  /\ G_EE_MIDI_CHANNEL' = channel
  /\ UNCHANGED <<clockVars, g_midi_note_state, g_midi_note_off_counter, animation, want,
                 skipped>>

\* The refresh of Midifighter_Task, as far as the feedback goes.
Refresh ==
  /\ Minus(system_time_ms, last_led_refresh_time_ms) >= REFRESH
  /\ last_led_refresh_time_ms' = system_time_ms /\ gap' = 0
  /\ update_note_off_feedback_delay
  /\ UNCHANGED <<system_time_ms, G_EE_MIDI_CHANNEL, animation, want>>

FeedbackNext ==
  \/ Tick
  \/ \E channel \in Channel, note \in Note :
       \/ \E velocity \in Velocity : NoteOn(channel, note, velocity)
       \/ NoteOff(channel, note)
  \/ \E channel \in Channel : ReceiveConfig(channel)
  \/ Refresh

FeedbackSpec == FeedbackInit /\ [][FeedbackNext]_feedbackVars

----------------------------------------------------------------------------
\* Types; a pending note off carries its flag.
FeedbackTypeOK ==
  /\ system_time_ms \in 0 .. (TIME_MOD - 1) /\ last_led_refresh_time_ms \in 0 .. (TIME_MOD - 1)
  /\ gap \in 0..MAX_GAP
  /\ G_EE_MIDI_CHANNEL \in Channel
  /\ g_midi_note_state \in [Id -> Velocity]
  /\ g_midi_note_off_counter \in [Id -> {0} \cup STAMP .. (2 * STAMP - 1)]
  /\ animation \in [Note -> Velocity]
  /\ want \in [Id -> Velocity] /\ skipped \in [Id -> Nat]

\* The lights follow the host's last word: a key with no note off pending shows
\* the velocity asked for last, and a pending note off is the last word.  A delayed
\* note off never puts out a key that was lit again after it.
FollowsHost ==
  \A id \in Id : IF g_midi_note_off_counter[id] = 0 THEN g_midi_note_state[id] = want[id]
                 ELSE want[id] = 0

\* A note off takes effect by the second refresh after it, although the stamp
\* wraps every STAMP milliseconds.
OffBySecondRefresh == \A id \in Id : skipped[id] <= 1

\* Why the second refresh is enough: at the first the stamp was less than LIMIT
\* milliseconds old, and the next comes before the stamp can look that young again.
Elapsed(id) ==
  LET p == system_time_ms % STAMP
      s == g_midi_note_off_counter[id] - STAMP
  IN  IF p >= s THEN p - s ELSE p - s + STAMP
OffInv ==
  /\ Minus(system_time_ms, last_led_refresh_time_ms) = gap
  /\ \A id \in Id :
       /\ skipped[id] <= 1
       /\ skipped[id] = 1 => /\ g_midi_note_off_counter[id] >= STAMP
                             /\ gap <= Elapsed(id) /\ Elapsed(id) < gap + LIMIT

\* midi_stream_note and midi_64_key_to_note: what the device sends for a key.
BankChannel(b) == (G_EE_MIDI_CHANNEL + CHANNELS - b) % CHANNELS
midi_64_key_to_note(k) == MIDI_BASENOTE + k

\* A host that echoes the notes it gets lights exactly the keys that sent them,
\* in their bank, for every configured channel.
EchoLightsKey ==
  \A b \in 0..1, k \in 0 .. (NUM_BUTTONS - 1) :
    Addressed(BankChannel(b), midi_64_key_to_note(k)) = {k + b * NUM_BUTTONS}
=============================================================================

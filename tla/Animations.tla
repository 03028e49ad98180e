----------------------------- MODULE Animations ----------------------------
(***************************************************************************)
(* display.c: the one-shot geometric animations a host starts with a note  *)
(* on the animation channel.  A refresh of the display takes the notes of  *)
(* the selected bank, gives each the next of a few slots in turn, and then *)
(* steps the running animations, unless a start took the step.             *)
(***************************************************************************)
EXTENDS Integers, Sequences, FiniteSets, Functions, FiniteSetsExt

CONSTANTS
  KEYS,           \* NUM_BUTTONS of a bank
  SLOTS,          \* CONCURRENT_GEOMETRIC_ANIMATIONS
  TypeSteps,      \* the steps of each type of animation
  STEP_TICKS,     \* GEOMETRIC_ANIMATION_G_LED_LIMIT
  MAX_TRIGGERS    \* bound: animation notes of the host

ASSUME AnimAssumption ==
  /\ {KEYS, SLOTS, STEP_TICKS} \subseteq Nat \ {0} /\ MAX_TRIGGERS \in Nat
  /\ TypeSteps \in Seq(Nat \ {0}) /\ TypeSteps # <<>>

AnimId == 0 .. (2 * KEYS - 1)
AnimType == DOMAIN TypeSteps

VARIABLES
  pending,         \* g_midi_note_state[1]: the type asked for, or 0
  anim_bank,       \* g_bank_selected
  slot,            \* geometric_animation_type and _pos
  assign_id,       \* assign_geometric_animation_id
  led_counter1,    \* g_led_counter[1]
  triggers,        \* notes so far
  born             \* ghost: by slot, the number of the start that took it; 0 none

animVars == <<pending, anim_bank, slot, assign_id, led_counter1, triggers, born>>

AnimSlot == 0 .. (SLOTS - 1)
Done(s) == slot[s].pos >= TypeSteps[slot[s].type]

AnimInit ==
  /\ pending = [id \in AnimId |-> 0]
  /\ anim_bank = 0
  /\ slot = [s \in AnimSlot |-> [type |-> 1, pos |-> TypeSteps[1]]]
  /\ assign_id = 0 /\ led_counter1 = 0 /\ triggers = 0
  /\ born = [s \in AnimSlot |-> 0]

\* TIMER1_OVF_vect, its part on g_led_counter[1].
CountDown ==
  /\ led_counter1 > 0
  /\ led_counter1' = led_counter1 - 1
  /\ UNCHANGED <<pending, anim_bank, slot, assign_id, triggers, born>>

\* A note on the animation channel, on or off.
AnimationNote(id, type) ==
  /\ triggers < MAX_TRIGGERS
  /\ pending' = [pending EXCEPT ![id] = type]
  /\ triggers' = triggers + 1
  /\ UNCHANGED <<anim_bank, slot, assign_id, led_counter1, born>>

\* midi_animation_state: the notes of the bank, in order.
Notes == {id \in AnimId : id \div KEYS = anim_bank /\ pending[id] # 0}
Place(id) == Cardinality({other \in Notes : other <= id})
Asked == [n \in 1..Cardinality(Notes) |-> CHOOSE id \in Notes : Place(id) = n]

\* Mutant: the slot after the last is taken for the first.
NextSlot_short(n) == (assign_id + n) % (IF SLOTS > 1 THEN SLOTS - 1 ELSE 1)

\* assign_geometric_animation_id after n starts.
NextSlot(n) == (assign_id + n) % SLOTS

\* start_geometric_animation for each of them: the last start in a slot keeps it.
Starts(s) == {n \in DOMAIN Asked : NextSlot(n - 1) = s}
Started ==
  [s \in AnimSlot |-> IF Starts(s) = {} THEN slot[s]
                  ELSE [type |-> pending[Asked[Max(Starts(s))]], pos |-> 0]]

\* Mutant: only the slot that is assigned next is stepped.
Stepped_assigned(f) ==
  [f EXCEPT ![assign_id].pos = IF @ < TypeSteps[f[assign_id].type] THEN @ + 1 ELSE @]

\* geometric_animation_state: each running animation one step on.
Stepped(f) ==
  [s \in AnimSlot |-> IF f[s].pos < TypeSteps[f[s].type] THEN [f[s] EXCEPT !.pos = @ + 1] ELSE f[s]]

\* One-shot: the notes that started an animation are reset.
Taken == [id \in AnimId |-> IF id \in Range(Asked) THEN 0 ELSE pending[id]]

\* default_display_run: midi_animation_state, and geometric_animation_state.  A
\* start that finds the step due restarts the counter, and there is no step.
DisplayRun ==
  LET due == led_counter1 = 0 IN
  /\ slot' = IF due /\ Asked = <<>> THEN Stepped(slot) ELSE Started
  /\ led_counter1' = IF due THEN STEP_TICKS ELSE led_counter1
  /\ pending' = Taken
  /\ assign_id' = NextSlot(Len(Asked))
  /\ born' = [s \in AnimSlot |-> IF Starts(s) = {} THEN born[s]
                             ELSE Max(Range(born)) + Max(Starts(s))]
  /\ UNCHANGED <<anim_bank, triggers>>

\* start_geometric_animation outside a refresh: change_bank, to any bank, and the
\* signal of a pushed configuration, which may leave the bank as it is.
StartAtOnce(bank, type) ==
  /\ triggers < MAX_TRIGGERS
  /\ anim_bank' = bank
  /\ slot' = [slot EXCEPT ![assign_id] = [type |-> type, pos |-> 0]]
  /\ assign_id' = NextSlot(1)
  /\ led_counter1' = IF led_counter1 = 0 THEN STEP_TICKS ELSE led_counter1
  /\ born' = [born EXCEPT ![assign_id] = Max(Range(born)) + 1]
  /\ triggers' = triggers + 1
  /\ UNCHANGED pending

AnimNext ==
  \/ CountDown \/ DisplayRun
  \/ \E bank \in 0..1, type \in AnimType : StartAtOnce(bank, type)
  \/ \E id \in AnimId, type \in AnimType \cup {0} : AnimationNote(id, type)

\* Timer and main loop run.
AnimFairness == WF_animVars(CountDown) /\ WF_animVars(DisplayRun)
AnimSpec == AnimInit /\ [][AnimNext]_animVars /\ AnimFairness

----------------------------------------------------------------------------
\* Types.
AnimTypeOK ==
  /\ pending \in [AnimId -> AnimType \cup {0}] /\ anim_bank \in 0..1
  /\ \A s \in AnimSlot : slot[s].type \in AnimType /\ slot[s].pos \in 0..TypeSteps[slot[s].type]
  /\ assign_id \in AnimSlot /\ led_counter1 \in 0..STEP_TICKS /\ triggers \in 0..MAX_TRIGGERS
  /\ born \in [AnimSlot -> Nat]

\* The slots hold the latest animations: one is cut off only by SLOTS later ones,
\* also when several start in one refresh.
LatestAreShown ==
  LET newest == Max(Range(born))
  IN  Range(born) \ {0} = {n \in 1..newest : n > newest - SLOTS}

\* Once the host asks for no more, every animation ends, although each start takes
\* the step the others were due, and notes of the other bank stay behind.
AnimationsEnd == <>[](\A s \in AnimSlot : Done(s))
=============================================================================

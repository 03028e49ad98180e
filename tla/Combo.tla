------------------------------- MODULE Combo -------------------------------
(***************************************************************************)
(* combo.c: the recogniser of key combos, run once per poll on the low 16  *)
(* keys.  A 16-bit key mask is a set of key numbers.  The rule table is a  *)
(* constant, so what is proved here holds for every well-formed table; the *)
(* firmware's is in ComboTable.                                            *)
(***************************************************************************)
EXTENDS Integers, Sequences, FiniteSets

CONSTANTS
  Key,           \* the keys that take part, out of 0..15
  MAX_CHANGE,    \* bound: most keys that change between two polls
  state_table,   \* rules <<state_num, key, edge, next_state, action>>
  state_offset   \* where the rules of a state start, counted from 0

\* combo_action_t: a release is its down + 5.
COMBO_NONE == 0
DownAction == 1..5
ReleaseAction == 6..10
COMBO_A_DOWN == 1
COMBO_B_DOWN == 2
COMBO_C_DOWN == 3
COMBO_D_DOWN == 4
COMBO_E_DOWN == 5

KEYDOWN == "down"
KEYUP == "up"

StateNum == 0 .. (Len(state_offset) - 1)
Rule == 1 .. Len(state_table)

\* The rules combo_recognize tries in state s: those from the state's offset on,
\* as long as they carry its number.  The loop has no other bound: past the last
\* rule it reads the byte that follows the table, which is 0 (state_offset) in
\* both released images, so it stops there for every s but 0.
RulesOf ==
  [s \in StateNum |->
     {r \in Rule : /\ r > state_offset[s + 1]
                   /\ \A q \in (state_offset[s + 1] + 1) .. r : state_table[q][1] = s}]

\* A state without rules would leave the action of the last poll standing; the
\* table has none.
ASSUME ComboAssumption ==
  /\ Key \subseteq 0..15
  /\ MAX_CHANGE \in Nat
  /\ Len(state_offset) \in Nat \ {0} /\ Len(state_table) \in Nat
  /\ \A s \in StateNum : state_offset[s + 1] \in Nat /\ RulesOf[s] # {}
  /\ \A r \in Rule : /\ state_table[r][3] \in {KEYDOWN, KEYUP}
                     /\ state_table[r][4] \in StateNum
                     /\ state_table[r][5] \in {COMBO_NONE} \cup DownAction \cup ReleaseAction
                     /\ state_table[r][5] \in DownAction => state_table[r][3] = KEYDOWN

\* A rule that ends a combo applies in a state of its own: only the rules that
\* fire this combo lead there, and it is not the state to start over from.
ASSUME ReleaseAssumption ==
  \A r \in Rule : state_table[r][5] \in ReleaseAction =>
    /\ state_table[r][1] # 0
    /\ \A q \in Rule : state_table[q][4] = state_table[r][1]
                       => state_table[q][5] = state_table[r][5] - 5

VARIABLES
  keystate,           \* g_key_state & 0xFFFF at the last poll
  combo_state,
  combo_action,       \* static: the action of the last recognition
  combo_release_key,  \* static: the key that ends the active combo, as a mask
  returned,           \* what combo_recognize returned last
  sounding            \* history: combos sent down and not yet released

vars == <<keystate, combo_state, combo_action, combo_release_key, returned,
          sounding>>

Init ==
  /\ keystate \in SUBSET (Key \ {0})   \* key 0 at power on starts the bootloader
  /\ combo_state = 0 /\ combo_action = COMBO_NONE /\ combo_release_key = {}
  /\ returned = COMBO_NONE /\ sounding = {}

\* rightmost_bit_16: the lowest key of a mask, or no key.
rightmost_bit_16(mask) == {k \in mask : \A j \in mask : k <= j}

After(keydown, keyup) == (keystate \ keyup) \cup keydown

\* What the poll left for the host: down and release actions become notes.
Emit(action) ==
  /\ returned' = action
  /\ sounding' = IF action \in DownAction THEN sounding \cup {action}
                 ELSE sounding \ {action - 5}

ComboBKeys == {4, 5, 6, 7}
ChecksComboB(keydown, keyup) ==
  After(keydown, keyup) = ComboBKeys /\ combo_action # COMBO_B_DOWN
Firing == combo_action \in DownAction

\* No edge: nothing to do.
QuickOut ==
  /\ Emit(COMBO_NONE)
  /\ UNCHANGED <<keystate, combo_state, combo_action, combo_release_key>>

\* Mutant: combo B fires without a note of its last key.
CheckComboB_no_release_key(keydown, keyup) ==
  /\ ChecksComboB(keydown, keyup)
  /\ combo_action' = IF keydown = {} THEN COMBO_NONE ELSE COMBO_B_DOWN
  /\ Emit(combo_action')
  /\ UNCHANGED <<combo_state, combo_release_key>>

\* ComboB, as the keys can be pressed in any order.
CheckComboB(keydown, keyup) ==
  /\ ChecksComboB(keydown, keyup)
  /\ \/ /\ keydown = {}        \* "this should never happen"
        /\ combo_action' = COMBO_NONE
        /\ UNCHANGED combo_release_key
     \/ /\ keydown # {}
        /\ combo_action' = COMBO_B_DOWN
        /\ combo_release_key' = rightmost_bit_16(keydown)
  /\ Emit(combo_action')
  /\ UNCHANGED combo_state

\* Mutant: the combo stays active after its release.
CheckRelease_still_active(keydown, keyup) ==
  /\ ~ChecksComboB(keydown, keyup) /\ Firing
  /\ Emit(IF After(keydown, keyup) \cap combo_release_key = {} THEN combo_action + 5
          ELSE COMBO_NONE)
  /\ UNCHANGED <<combo_state, combo_action, combo_release_key>>

\* A combo is active: look only for its release key.
CheckRelease(keydown, keyup) ==
  /\ ~ChecksComboB(keydown, keyup) /\ Firing
  /\ \/ /\ After(keydown, keyup) \cap combo_release_key = {}
        /\ combo_state' = 0
        /\ combo_action' = combo_action + 5
        /\ Emit(combo_action')
     \/ /\ After(keydown, keyup) \cap combo_release_key # {}
        /\ Emit(COMBO_NONE)
        /\ UNCHANGED <<combo_state, combo_action>>
  /\ UNCHANGED combo_release_key

\* Mutant: the rule's edge is ignored.
RuleHolds_any_edge(r, keydown, keyup) == state_table[r][2] \in keydown \cup keyup

RuleHolds(r, keydown, keyup) ==
  state_table[r][2] \in IF state_table[r][3] = KEYDOWN THEN keydown ELSE keyup

\* The first rule of the state that holds decides; if none does, start over.
FollowRules(keydown, keyup) ==
  LET holding == {r \in RulesOf[combo_state] : RuleHolds(r, keydown, keyup)}
  IN
  /\ ~ChecksComboB(keydown, keyup) /\ ~Firing
  /\ \/ /\ holding = {}
        /\ combo_state' = 0 /\ combo_action' = COMBO_NONE
     \/ \E r \in holding :
          /\ \A q \in holding : r <= q
          /\ combo_state' = state_table[r][4] /\ combo_action' = state_table[r][5]
  /\ combo_release_key' = IF combo_action' # COMBO_NONE THEN rightmost_bit_16(keydown)
                          ELSE combo_release_key
  /\ Emit(combo_action')

combo_recognize(keydown, keyup) ==
  /\ keydown \cup keyup # {}
  /\ keystate' = After(keydown, keyup)
  /\ \/ CheckComboB(keydown, keyup)
     \/ CheckRelease(keydown, keyup)
     \/ FollowRules(keydown, keyup)

Next ==
  \/ QuickOut
  \/ \E keydown \in SUBSET (Key \ keystate), keyup \in SUBSET keystate :
       /\ Cardinality(keydown) + Cardinality(keyup) <= MAX_CHANGE
       /\ combo_recognize(keydown, keyup)

Spec == Init /\ [][Next]_vars

----------------------------------------------------------------------------
\* Types; a release key is one key or none, never a mask of several.
TypeOK ==
  /\ keystate \subseteq Key
  /\ combo_state \in StateNum
  /\ combo_action \in {COMBO_NONE} \cup DownAction \cup ReleaseAction
  /\ returned \in {COMBO_NONE} \cup DownAction \cup ReleaseAction
  /\ combo_release_key \in {{}} \cup {{k} : k \in Key}
  /\ sounding \subseteq DownAction

\* While the recogniser believes a combo is active, that combo is sounding at
\* the host and the key whose release will end it is still held, so the release
\* cannot be missed.
ActiveComboHeld ==
  Firing => /\ combo_action \in sounding
            /\ combo_release_key # {} /\ combo_release_key \subseteq keystate

\* The host is told the end only of a combo that it was told the start of.  The
\* table's own release rules (states 4, 8, 17, 36) could break this: they fire
\* from the state alone, whatever happened to the combo that led there.
PairedActions ==
  [][returned' \in ReleaseAction => returned' - 5 \in sounding]_vars

\* "Combos retain a NoteOn while the final key is depressed and emit a NoteUp
\* when it is released": with no key held, no combo is left sounding.
CombosEnd == keystate = {} => sounding = {}
=============================================================================

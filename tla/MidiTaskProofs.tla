--------------------------- MODULE MidiTaskProofs ---------------------------
(***************************************************************************)
(* Proofs about the combo recogniser and about the task that runs it: a    *)
(* combo ends when its key does and only if it was started (for every rule *)
(* table), combos D and E fire as drawn (for the firmware's), no note is   *)
(* left sounding by a change of bank (for every set of keys, every pair of *)
(* bank keys and every number of channels), and the recogniser the task    *)
(* calls keeps what it keeps on its own, its notes heard by the host.      *)
(***************************************************************************)
EXTENDS ComboPath, MidiTask, FiniteSetTheorems, TLAPS

\* A step that names no prover is given to Zenon, then to the SMT solver.
USE ZenonT(20), SMTT(30)

----------------------------------------------------------------------------
(* The recogniser, with any rules.                                         *)

Action == {COMBO_NONE} \cup DownAction \cup ReleaseAction
Mask1 == {{}} \cup {{k} : k \in Key}

\* Every non-empty set of keys has a lowest one.
LEMMA LowestKey ==
  ASSUME NEW S \in SUBSET (0..15), S # {}
  PROVE  \E k \in S : \A j \in S : k =< j
<1> DEFINE lowest(n) == \A i \in S : i >= n
<1>1. \A n \in 0..15 : lowest(n) /\ n \notin S => lowest(n + 1)
  <2> SUFFICES ASSUME NEW n \in 0..15, lowest(n), n \notin S, NEW i \in S
              PROVE  i >= n + 1
    OBVIOUS
  <2>1. i \in 0..15 /\ i >= n /\ i # n
    OBVIOUS
  <2> QED
    BY <2>1
<1>2. lowest(0) /\ ~lowest(16)
  <2>1. PICK i \in S : TRUE
    OBVIOUS
  <2>2. i \in 0..15 /\ \A j \in S : j \in 0..15
    OBVIOUS
  <2>3. ~(i >= 16) /\ \A j \in 0..15 : j >= 0
    BY <2>2
  <2> QED
    BY <2>1, <2>2, <2>3
<1>3. \E n \in 0..15 : lowest(n) /\ ~lowest(n + 1)
  <2> HIDE DEF lowest
  <2> SUFFICES ASSUME \A n \in 0..15 : lowest(n) => lowest(n + 1) PROVE FALSE
    OBVIOUS
  <2>1. lowest(4)
    BY <1>2
  <2>2. lowest(8)
    BY <2>1
  <2>3. lowest(12)
    BY <2>2
  <2> QED
    BY <1>2, <2>3
<1> QED
  BY <1>1, <1>3

\* rightmost_bit_16 returns one of the keys of a mask that has any.
LEMMA RightmostBit ==
  ASSUME NEW mask \in SUBSET Key
  PROVE  /\ rightmost_bit_16(mask) \in Mask1
         /\ rightmost_bit_16(mask) \subseteq mask
         /\ mask # {} => rightmost_bit_16(mask) # {}
<1>1. mask \subseteq 0..15
  BY ComboAssumption DEF ComboAssumption
<1>2. \A k, l \in rightmost_bit_16(mask) : k = l
  BY <1>1 DEF rightmost_bit_16
<1>3. mask # {} => rightmost_bit_16(mask) # {}
  BY <1>1, LowestKey DEF rightmost_bit_16
<1>4. rightmost_bit_16(mask) \subseteq mask
  BY DEF rightmost_bit_16
<1>5. rightmost_bit_16(mask) \in Mask1
  <2>1. CASE rightmost_bit_16(mask) = {}
    BY <2>1 DEF Mask1
  <2>2. CASE rightmost_bit_16(mask) # {}
    <3>1. PICK k \in rightmost_bit_16(mask) : TRUE
      BY <2>2
    <3>2. rightmost_bit_16(mask) = {k} /\ k \in Key
      BY <1>2, <1>4, <3>1
    <3> QED
      BY <3>2 DEF Mask1
  <2> QED
    BY <2>1, <2>2
<1> QED
  BY <1>3, <1>4, <1>5

ComboInv == TypeOK /\ ActiveComboHeld

\* One call of combo_recognize preserves the types and ActiveComboHeld.
LEMMA ComboStep ==
  ComboInv /\ [Next]_vars => ComboInv'
<1> SUFFICES ASSUME ComboInv, [Next]_vars PROVE ComboInv'
  OBVIOUS
<1> USE DEF Action, Mask1, DownAction, ReleaseAction, COMBO_NONE, COMBO_B_DOWN
<1>1. CASE QuickOut
  BY <1>1, SMTT(30) DEF ComboInv, TypeOK, ActiveComboHeld, QuickOut, Emit, Firing
<1>2. ASSUME NEW keydown \in SUBSET (Key \ keystate), NEW keyup \in SUBSET keystate,
             combo_recognize(keydown, keyup)
      PROVE  ComboInv'
  <2>1. keystate' = After(keydown, keyup) /\ keystate' \subseteq Key
         /\ keydown \subseteq keystate' /\ keydown \subseteq Key
    BY <1>2 DEF combo_recognize, After, ComboInv, TypeOK
  <2>2. CASE CheckComboB(keydown, keyup)
    <3>1. CASE keydown = {}
      BY <2>1, <2>2, <3>1, SMTT(30) DEF CheckComboB, ComboInv, TypeOK, ActiveComboHeld, Emit, Firing
    <3>2. CASE keydown # {}
      <4>1. combo_release_key' = rightmost_bit_16(keydown) /\ combo_action' = COMBO_B_DOWN
            /\ Emit(COMBO_B_DOWN) /\ combo_state' = combo_state
        BY <2>2, <3>2 DEF CheckComboB
      <4> QED
        BY <2>1, <3>2, <4>1, RightmostBit, SMTT(30) DEF ComboInv, TypeOK, ActiveComboHeld, Emit, Firing
    <3> QED
      BY <3>1, <3>2
  <2>3. CASE CheckRelease(keydown, keyup)
    <3>1. CASE After(keydown, keyup) \cap combo_release_key = {}
      <4>1. combo_state' = 0 /\ combo_action' = combo_action + 5
            /\ combo_action \in DownAction /\ Emit(combo_action + 5)
            /\ combo_release_key' = combo_release_key
        BY <2>3, <3>1 DEF CheckRelease, Firing
      <4>2. 0 \in StateNum
        BY ComboAssumption, SMTT(30) DEF ComboAssumption, StateNum
      <4> QED
        BY <2>1, <4>1, <4>2, SMTT(30) DEF ComboInv, TypeOK, ActiveComboHeld, Emit, Firing
    <3>2. CASE After(keydown, keyup) \cap combo_release_key # {}
      <4>1. Emit(COMBO_NONE) /\ UNCHANGED <<combo_state, combo_action, combo_release_key>>
        BY <2>3, <3>2 DEF CheckRelease
      <4>2. combo_release_key \subseteq keystate' /\ combo_release_key # {}
        BY <2>1, <3>2, SMTT(30) DEF ComboInv, TypeOK
      <4> QED
        BY <2>1, <4>1, <4>2, SMTT(30) DEF ComboInv, TypeOK, ActiveComboHeld, Emit, Firing
    <3> QED
      BY <3>1, <3>2
  <2>4. CASE FollowRules(keydown, keyup)
    <3> DEFINE holding == {r \in RulesOf[combo_state] : RuleHolds(r, keydown, keyup)}
    <3>1. /\ combo_state' \in StateNum /\ combo_action' \in Action
          /\ combo_action' \in DownAction => keydown # {}
      <4>1. CASE holding = {}
        <5>1. combo_state' = 0 /\ combo_action' = COMBO_NONE
          BY <2>4, <4>1 DEF FollowRules
        <5> QED
          BY <5>1, ComboAssumption, SMTT(30) DEF ComboAssumption, StateNum
      <4>2. ASSUME NEW r \in holding, combo_state' = state_table[r][4],
                   combo_action' = state_table[r][5]
            PROVE  /\ combo_state' \in StateNum /\ combo_action' \in Action
                   /\ combo_action' \in DownAction => keydown # {}
        <5>1. combo_state \in StateNum
          BY DEF ComboInv, TypeOK
        <5>2. r \in Rule /\ RuleHolds(r, keydown, keyup)
          BY <5>1 DEF RulesOf
        <5> QED
          BY <4>2, <5>2, ComboAssumption DEF ComboAssumption, RuleHolds
      <4> QED
        BY <2>4, <4>1, <4>2 DEF FollowRules
    <3>2. /\ Emit(combo_action')
          /\ combo_release_key' = IF combo_action' # COMBO_NONE THEN rightmost_bit_16(keydown)
                                  ELSE combo_release_key
      BY <2>4 DEF FollowRules
    <3> QED
      BY <2>1, <3>1, <3>2, RightmostBit, SMTT(30) DEF ComboInv, TypeOK, ActiveComboHeld, Emit, Firing
  <2> QED
    BY <1>2, <2>2, <2>3, <2>4 DEF combo_recognize
<1>3. CASE UNCHANGED vars
  BY <1>3 DEF vars, ComboInv, TypeOK, ActiveComboHeld, Firing
<1> QED
  BY <1>1, <1>2, <1>3 DEF Next

\* For every well-formed rule table and every sequence of polls: while a combo is
\* active it is sounding at the host, and the key that ends it is held.
THEOREM ActiveComboIsHeld == Spec => [](TypeOK /\ ActiveComboHeld)
<1>1. Init => ComboInv
  <2>1. 0 \in StateNum
    BY ComboAssumption, SMTT(30) DEF ComboAssumption, StateNum
  <2> QED
    BY <2>1, SMTT(30) DEF Init, ComboInv, TypeOK, ActiveComboHeld, Firing, COMBO_NONE, DownAction
<1> QED
  BY <1>1, ComboStep, PTL DEF Spec, ComboInv

\* The rules that combo_recognize tries in a state are rules of that state.
LEMMA RuleInState ==
  ASSUME NEW s \in StateNum, NEW r \in RulesOf[s]
  PROVE  r \in Rule /\ state_table[r][1] = s
<1>1. /\ r \in Rule /\ r > state_offset[s + 1]
      /\ \A q \in (state_offset[s + 1] + 1) .. r : state_table[q][1] = s
  BY DEF RulesOf
<1>2. r \in Nat /\ state_offset[s + 1] \in Nat
  BY <1>1, ComboAssumption, SMTT(30) DEF ComboAssumption, Rule, StateNum
<1> QED
  BY <1>1, <1>2, SMTT(30)

\* Where a rule can end a combo, that combo is sounding.
EndsSounding ==
  \A r \in Rule : state_table[r][5] \in ReleaseAction /\ combo_state = state_table[r][1]
                => state_table[r][5] - 5 \in sounding

\* A poll that returns no action leaves what sounds as it is.
LEMMA NoneIsSilent ==
  ASSUME TypeOK, Emit(COMBO_NONE)
  PROVE  returned' = COMBO_NONE /\ sounding' = sounding
BY SMTT(30) DEF TypeOK, Emit, COMBO_NONE, DownAction

\* One call of combo_recognize preserves EndsSounding, and ends no combo but one
\* that sounds.
LEMMA EndsStep ==
  ASSUME ComboInv, EndsSounding, [Next]_vars
  PROVE  /\ EndsSounding'
         /\ vars' # vars => (returned' \in ReleaseAction => returned' - 5 \in sounding)
<1> USE DEF DownAction, ReleaseAction, COMBO_NONE, COMBO_B_DOWN
<1>1. CASE QuickOut
  <2>1. returned' = COMBO_NONE /\ sounding' = sounding /\ combo_state' = combo_state
    BY <1>1, NoneIsSilent DEF QuickOut, ComboInv
  <2> QED
    BY <2>1 DEF EndsSounding
<1>2. ASSUME NEW keydown \in SUBSET (Key \ keystate), NEW keyup \in SUBSET keystate,
             combo_recognize(keydown, keyup)
      PROVE  /\ EndsSounding'
             /\ returned' \in ReleaseAction => returned' - 5 \in sounding
  <2>1. CASE CheckComboB(keydown, keyup)
    <3>1. combo_state' = combo_state /\ sounding \subseteq sounding' /\ returned' \notin ReleaseAction
      <4>1. Emit(COMBO_NONE) \/ Emit(COMBO_B_DOWN)
        BY <2>1 DEF CheckComboB
      <4> QED
        BY <2>1, <4>1, NoneIsSilent, SMTT(30) DEF CheckComboB, Emit, ComboInv
    <3> QED
      BY <3>1 DEF EndsSounding
  <2>2. CASE CheckRelease(keydown, keyup)
    <3>1. CASE After(keydown, keyup) \cap combo_release_key = {}
      <4>1. combo_state' = 0 /\ returned' = combo_action + 5 /\ combo_action \in DownAction
        BY <2>2, <3>1 DEF CheckRelease, Firing, Emit
      <4>2. combo_action \in sounding
        BY <4>1 DEF ComboInv, ActiveComboHeld, Firing
      <4> QED
        BY <4>1, <4>2, ReleaseAssumption, SMTT(30) DEF ReleaseAssumption, EndsSounding
    <3>2. CASE After(keydown, keyup) \cap combo_release_key # {}
      <4>1. returned' = COMBO_NONE /\ sounding' = sounding /\ combo_state' = combo_state
        BY <2>2, <3>2, NoneIsSilent DEF CheckRelease, ComboInv
      <4> QED
        BY <4>1, SMTT(30) DEF EndsSounding
    <3> QED
      BY <3>1, <3>2
  <2>3. CASE FollowRules(keydown, keyup)
    <3> DEFINE holding == {r \in RulesOf[combo_state] : RuleHolds(r, keydown, keyup)}
    <3>1. CASE holding = {}
      <4>1. combo_state' = 0 /\ Emit(COMBO_NONE)
        BY <2>3, <3>1 DEF FollowRules
      <4> QED
        BY <4>1, ReleaseAssumption, SMTT(30) DEF ReleaseAssumption, EndsSounding, Emit
    <3>2. ASSUME NEW r \in holding, combo_state' = state_table[r][4], Emit(state_table[r][5])
          PROVE  /\ EndsSounding'
                 /\ returned' \in ReleaseAction => returned' - 5 \in sounding
      <4>1. r \in Rule /\ state_table[r][1] = combo_state
        BY RuleInState DEF ComboInv, TypeOK
      <4>2. state_table[r][5] \in ReleaseAction => state_table[r][5] - 5 \in sounding
        BY <4>1 DEF EndsSounding
      <4>3. EndsSounding'
        <5> SUFFICES ASSUME NEW q \in Rule, state_table[q][5] \in ReleaseAction,
                            state_table[r][4] = state_table[q][1]
                     PROVE  state_table[q][5] - 5 \in sounding'
          BY <3>2 DEF EndsSounding
        <5>1. state_table[r][5] = state_table[q][5] - 5
          BY <4>1, ReleaseAssumption DEF ReleaseAssumption
        <5>2. state_table[r][5] \in DownAction
          BY <5>1, SMTT(30)
        <5> QED
          BY <3>2, <5>1, <5>2 DEF Emit
      <4> QED
        BY <3>2, <4>2, <4>3 DEF Emit
    <3> QED
      BY <2>3, <3>1, <3>2 DEF FollowRules
  <2> QED
    BY <1>2, <2>1, <2>2, <2>3 DEF combo_recognize
<1>3. CASE UNCHANGED vars
  BY <1>3 DEF vars, EndsSounding
<1> QED
  BY <1>1, <1>2, <1>3 DEF Next

\* For every rule table of which ReleaseAssumption holds, as it does of the
\* firmware's: the host is told the end only of a combo it was told the start of.
THEOREM ActionsArePaired == Spec => PairedActions
<1>1. Init => ComboInv /\ EndsSounding
  <2>1. 0 \in StateNum
    BY ComboAssumption, SMTT(30) DEF ComboAssumption, StateNum
  <2>2. Init => ComboInv
    BY <2>1, SMTT(30) DEF Init, ComboInv, TypeOK, ActiveComboHeld, Firing, COMBO_NONE, DownAction
  <2>3. Init => EndsSounding
    BY ReleaseAssumption DEF ReleaseAssumption, EndsSounding, Init
  <2> QED
    BY <2>2, <2>3
<1>2. ComboInv /\ EndsSounding /\ [Next]_vars
      => /\ (ComboInv /\ EndsSounding)'
         /\ [returned' \in ReleaseAction => returned' - 5 \in sounding]_vars
  BY ComboStep, EndsStep
<1> QED
  BY <1>1, <1>2, PTL DEF Spec, PairedActions

----------------------------------------------------------------------------
(***************************************************************************)
(* Combos D and E fire as drawn, with the firmware's rules.  In each state *)
(* the table itself says how many keys of a drawing must have been pressed *)
(* to get there.                                                           *)
(***************************************************************************)
FirmwareRules == state_table = FirmwareTable /\ state_offset = FirmwareOffset

\* The keys of drawing c pressed on every way from state 0 to state s.
Least(c, s) ==
  IF c = COMBO_D_DOWN
  THEN IF s \in 9..16 THEN (s - 7) \div 2
       ELSE IF s \in 26..27 THEN 1
       ELSE IF s \in 28..35 THEN 2 ELSE 0
  ELSE IF s \in 18..35 THEN (s - 16) \div 2 ELSE 0

\* After n keys of drawing c it is key k's turn, or that of its last key.
Turn(c, n, k) == n < Len(Drawn[c]) /\ Drawn[c][n + 1] = k
LastTurn(c, n) == n + 1 = Len(Drawn[c])

\* A rule from state s to state t on key k keeps to drawing c: it asks for no more
\* keys in t than were pressed in s, k included, and fires c only after all of them.
KeepsTo(c, s, k, e, t, a) ==
  LET n == Least(c, s)
      counts == Turn(c, n, k) /\ e = KEYDOWN
  IN  /\ Least(c, t) <= n \/ (Least(c, t) = n + 1 /\ counts)
      /\ a = c => LastTurn(c, n) /\ counts
      /\ a \in DownAction => t # 0 /\ Least(c, t) = 0
Follows(s, k, e, t, a) == KeepsTo(4, s, k, e, t, a) /\ KeepsTo(5, s, k, e, t, a)

\* It is a number of keys.
LEMMA LeastType ==
  ASSUME NEW c, NEW s \in StateNum
  PROVE  Least(c, s) \in Nat
<1>1. s \in Int
  BY ComboAssumption, SMTT(30) DEF ComboAssumption, StateNum
<1> QED
  BY <1>1 DEF Least

\* The two drawings, spelled out for the provers.
LEMMA Drawings ==
  /\ DOMAIN Drawn = {4, 5} /\ Len(Drawn[4]) = 5 /\ Len(Drawn[5]) = 10
  /\ Drawn[4][1] = 4 /\ Drawn[4][2] = 5 /\ Drawn[4][3] = 6 /\ Drawn[4][4] = 6
  /\ Drawn[4][5] = 7
  /\ Drawn[5][1] = 8 /\ Drawn[5][2] = 8 /\ Drawn[5][3] = 0 /\ Drawn[5][4] = 0
  /\ Drawn[5][5] = 4 /\ Drawn[5][6] = 5 /\ Drawn[5][7] = 4 /\ Drawn[5][8] = 5
  /\ Drawn[5][9] = 7 /\ Drawn[5][10] = 6
BY DEF Drawn, COMBO_D_DOWN, COMBO_E_DOWN

\* A drawing has some number of keys.
LEMMA DrawingLength ==
  ASSUME NEW c \in DOMAIN Drawn
  PROVE  Len(Drawn[c]) \in Nat
<1>1. CASE c = 4
  BY <1>1, Drawings
<1>2. CASE c = 5
  BY <1>2, Drawings
<1> QED
  BY <1>1, <1>2, Drawings

\* The keys of the two drawings in turn.
LEMMA DrawnKeys ==
  /\ Turn(4, 0, 4) /\ Turn(4, 1, 5) /\ Turn(4, 2, 6) /\ Turn(4, 3, 6) /\ Turn(4, 4, 7)
  /\ Turn(5, 0, 8) /\ Turn(5, 1, 8) /\ Turn(5, 2, 0) /\ Turn(5, 3, 0) /\ Turn(5, 4, 4)
  /\ Turn(5, 5, 5) /\ Turn(5, 6, 4) /\ Turn(5, 7, 5) /\ Turn(5, 8, 7) /\ Turn(5, 9, 6)
  /\ LastTurn(4, 4) /\ LastTurn(5, 9)
BY Drawings, SMTT(30) DEF Turn, LastTurn

\* Every rule of the firmware's table keeps to both drawings.
LEMMA RulesFollow ==
  ASSUME FirmwareRules, NEW r \in Rule
  PROVE  Follows(state_table[r][1], state_table[r][2], state_table[r][3],
                 state_table[r][4], state_table[r][5])
<1> USE DEF Follows, KeepsTo, Least, COMBO_D_DOWN, DownAction, KEYDOWN, D, U
<1>1. Follows(0, 0, D, 1, 0)
  BY DrawnKeys, SMTT(30)
<1>2. Follows(0, 5, D, 5, 0)
  BY DrawnKeys, SMTT(30)
<1>3. Follows(0, 4, D, 9, 0)
  BY DrawnKeys, SMTT(30)
<1>4. Follows(0, 8, D, 18, 0)
  BY DrawnKeys, SMTT(30)
<1>5. Follows(1, 1, D, 2, 0)
  BY DrawnKeys, SMTT(30)
<1>6. Follows(2, 2, D, 3, 0)
  BY DrawnKeys, SMTT(30)
<1>7. Follows(3, 3, D, 4, 1)
  BY DrawnKeys, SMTT(30)
<1>8. Follows(4, 3, U, 0, 6)
  BY DrawnKeys, SMTT(30)
<1>9. Follows(5, 6, D, 6, 0)
  BY DrawnKeys, SMTT(30)
<1>10. Follows(6, 9, D, 7, 0)
  BY DrawnKeys, SMTT(30)
<1>11. Follows(7, 10, D, 8, 3)
  BY DrawnKeys, SMTT(30)
<1>12. Follows(8, 10, U, 0, 8)
  BY DrawnKeys, SMTT(30)
<1>13. Follows(9, 4, U, 10, 0)
  BY DrawnKeys, SMTT(30)
<1>14. Follows(10, 5, D, 11, 0)
  BY DrawnKeys, SMTT(30)
<1>15. Follows(11, 5, U, 12, 0)
  BY DrawnKeys, SMTT(30)
<1>16. Follows(11, 6, D, 6, 0)
  BY DrawnKeys, SMTT(30)
<1>17. Follows(12, 6, D, 13, 0)
  BY DrawnKeys, SMTT(30)
<1>18. Follows(13, 6, U, 14, 0)
  BY DrawnKeys, SMTT(30)
<1>19. Follows(14, 6, D, 15, 0)
  BY DrawnKeys, SMTT(30)
<1>20. Follows(15, 6, U, 16, 0)
  BY DrawnKeys, SMTT(30)
<1>21. Follows(16, 7, D, 17, 4)
  BY DrawnKeys, SMTT(30)
<1>22. Follows(17, 7, U, 0, 9)
  BY DrawnKeys, SMTT(30)
<1>23. Follows(18, 8, U, 19, 0)
  BY DrawnKeys, SMTT(30)
<1>24. Follows(19, 8, D, 20, 0)
  BY DrawnKeys, SMTT(30)
<1>25. Follows(20, 8, U, 21, 0)
  BY DrawnKeys, SMTT(30)
<1>26. Follows(21, 0, D, 22, 0)
  BY DrawnKeys, SMTT(30)
<1>27. Follows(22, 0, U, 23, 0)
  BY DrawnKeys, SMTT(30)
<1>28. Follows(23, 0, D, 24, 0)
  BY DrawnKeys, SMTT(30)
<1>29. Follows(24, 0, U, 25, 0)
  BY DrawnKeys, SMTT(30)
<1>30. Follows(25, 4, D, 26, 0)
  BY DrawnKeys, SMTT(30)
<1>31. Follows(26, 4, U, 27, 0)
  BY DrawnKeys, SMTT(30)
<1>32. Follows(26, 6, D, 6, 0)
  BY DrawnKeys, SMTT(30)
<1>33. Follows(27, 5, D, 28, 0)
  BY DrawnKeys, SMTT(30)
<1>34. Follows(28, 5, U, 29, 0)
  BY DrawnKeys, SMTT(30)
<1>35. Follows(29, 4, D, 30, 0)
  BY DrawnKeys, SMTT(30)
<1>36. Follows(30, 4, U, 31, 0)
  BY DrawnKeys, SMTT(30)
<1>37. Follows(31, 5, D, 32, 0)
  BY DrawnKeys, SMTT(30)
<1>38. Follows(31, 6, D, 13, 0)
  BY DrawnKeys, SMTT(30)
<1>39. Follows(32, 5, U, 33, 0)
  BY DrawnKeys, SMTT(30)
<1>40. Follows(33, 7, D, 34, 0)
  BY DrawnKeys, SMTT(30)
<1>41. Follows(33, 5, D, 11, 0)
  BY DrawnKeys, SMTT(30)
<1>42. Follows(34, 7, U, 35, 0)
  BY DrawnKeys, SMTT(30)
<1>43. Follows(35, 6, D, 36, 5)
  BY DrawnKeys, SMTT(30)
<1>44. Follows(36, 6, U, 0, 10)
  BY DrawnKeys, SMTT(30)
<1> HIDE DEF Follows
<1>45. Rule = 1..44
  BY DEF Rule, FirmwareRules, FirmwareTable
<1>46. CASE r \in 1 .. 15
  BY <1>1, <1>2, <1>3, <1>4, <1>5, <1>6, <1>7, <1>8, <1>9, <1>10, <1>11, <1>12, <1>13,
     <1>14, <1>15, <1>46, SMTT(30)
  DEF FirmwareRules, FirmwareTable
<1>47. CASE r \in 16 .. 30
  BY <1>16, <1>17, <1>18, <1>19, <1>20, <1>21, <1>22, <1>23, <1>24, <1>25, <1>26,
     <1>27, <1>28, <1>29, <1>30, <1>47, SMTT(30)
  DEF FirmwareRules, FirmwareTable
<1>48. CASE r \in 31 .. 44
  BY <1>31, <1>32, <1>33, <1>34, <1>35, <1>36, <1>37, <1>38, <1>39, <1>40, <1>41,
     <1>42, <1>43, <1>44, <1>48, SMTT(30)
  DEF FirmwareRules, FirmwareTable
<1> QED
  BY <1>45, <1>46, <1>47, <1>48, SMTT(30)

\* The inductive invariant: while no combo is active the keys pressed are at least
\* those that the state stands for.  A combo that a rule fired has moved on to a
\* state that stands for none; combo B, which no rule fires, may be in any state.
PathInv ==
  /\ ComboInv
  /\ progress \in [DOMAIN Drawn -> Nat]
  /\ \A c \in DOMAIN Drawn :
       /\ progress[c] <= Len(Drawn[c])
       /\ ~Firing => Least(c, combo_state) <= progress[c]
       /\ Firing /\ combo_action # COMBO_B_DOWN => Least(c, combo_state) = 0
  /\ FiredAsDrawn

\* What one poll does to the count of a drawing while the recogniser is under way.
LEMMA Counted ==
  ASSUME PathInv, PathNext, ~Firing, combo_state' # 0, NEW c \in DOMAIN Drawn
  PROVE  /\ progress'[c] \in progress[c] .. Len(Drawn[c])
         /\ progress[c] < Len(Drawn[c]) /\ Drawn[c][progress[c] + 1] \in keystate' \ keystate
            => progress'[c] = progress[c] + 1
<1>1. Len(Drawn[c]) \in Nat /\ progress[c] \in Nat /\ progress[c] <= Len(Drawn[c])
  BY DrawingLength DEF PathInv
<1>2. progress'[c] =
        IF progress[c] < Len(Drawn[c]) /\ Drawn[c][progress[c] + 1] \in keystate' \ keystate
        THEN progress[c] + 1 ELSE progress[c]
  BY DEF PathNext
<1> QED
  BY <1>1, <1>2

\* No more keys are counted than were pressed, and none where counting starts over.
LEMMA Restarted ==
  ASSUME PathNext, combo_state' = 0 \/ Firing, NEW c \in DOMAIN Drawn
  PROVE  progress'[c] = 0 /\ Least(c, 0) = 0
BY DEF PathNext, Least

\* The count stays a number of keys of the drawing.
LEMMA CountType ==
  ASSUME PathInv, PathNext
  PROVE  /\ progress' \in [DOMAIN Drawn -> Nat]
         /\ \A c \in DOMAIN Drawn : progress'[c] <= Len(Drawn[c])
<1>1. ASSUME NEW c \in DOMAIN Drawn
      PROVE  progress'[c] \in Nat /\ progress'[c] <= Len(Drawn[c])
  <2>1. Len(Drawn[c]) \in Nat /\ progress[c] \in Nat
    BY DrawingLength DEF PathInv
  <2> QED
    BY <2>1, Counted, Restarted
<1>2. progress' = [c \in DOMAIN Drawn |-> progress'[c]]
  BY DEF PathNext
<1> QED
  BY <1>1, <1>2

\* A rule that applies leaves at least the keys its new state stands for, and all of
\* the drawing's when it fires the drawing's combo.
LEMMA RuleCounts ==
  ASSUME FirmwareRules, PathInv, PathNext, ~Firing, NEW c \in DOMAIN Drawn,
         NEW keydown \in SUBSET (Key \ keystate), NEW keyup,
         keystate' = After(keydown, keyup),
         NEW r \in RulesOf[combo_state], RuleHolds(r, keydown, keyup),
         combo_state' = state_table[r][4]
  PROVE  /\ Least(c, combo_state') <= progress'[c]
         /\ state_table[r][5] = c => progress'[c] = Len(Drawn[c])
         /\ state_table[r][5] \in DownAction => Least(c, combo_state') = 0
<1> DEFINE n == Least(c, combo_state)
           k == state_table[r][2]
           counts == n < Len(Drawn[c]) /\ Drawn[c][n + 1] = k /\ state_table[r][3] = KEYDOWN
<1>1. r \in Rule /\ state_table[r][1] = combo_state
  BY RuleInState DEF PathInv, ComboInv, TypeOK
<1>2. KeepsTo(c, combo_state, k, state_table[r][3], combo_state', state_table[r][5])
  BY <1>1, RulesFollow, Drawings DEF Follows
<1>3. /\ Least(c, combo_state') <= n \/ (Least(c, combo_state') = n + 1 /\ counts)
      /\ state_table[r][5] = c => n + 1 = Len(Drawn[c]) /\ counts
      /\ state_table[r][5] \in DownAction => combo_state' # 0 /\ Least(c, combo_state') = 0
  BY <1>2 DEF KeepsTo, Turn, LastTurn
<1>4. CASE combo_state' = 0
  <2>1. state_table[r][5] # c
    BY <1>3, <1>4, Drawings, SMTT(30) DEF DownAction
  <2> QED
    BY <1>3, <1>4, <2>1, Restarted, SMTT(30)
<1>5. CASE combo_state' # 0
  <2>1. /\ Len(Drawn[c]) \in Nat /\ progress[c] \in Nat /\ n \in Nat /\ n <= progress[c]
        /\ progress'[c] \in progress[c] .. Len(Drawn[c])
    <3>1. n \in Nat
      BY LeastType DEF PathInv, ComboInv, TypeOK
    <3>2. progress'[c] \in progress[c] .. Len(Drawn[c])
      BY <1>5, Counted
    <3>3. Len(Drawn[c]) \in Nat
      BY DrawingLength
    <3> QED
      BY <3>1, <3>2, <3>3 DEF PathInv
  <2>2. counts => k \in keystate' \ keystate
    BY DEF RuleHolds, After
  <2>3. counts /\ progress[c] = n => progress'[c] = n + 1
    BY <1>5, <2>2, Counted
  <2>4. counts => n + 1 <= progress'[c]
    BY <2>1, <2>3
  <2>5. Least(c, combo_state') \in Nat
    BY <1>1, LeastType, ComboAssumption DEF ComboAssumption
  <2> HIDE DEF n, counts
  <2> QED
    BY <1>3, <2>1, <2>4, <2>5, SMTT(30)
<1> QED
  BY <1>4, <1>5

\* Every poll preserves the invariant.
LEMMA PathStep ==
  ASSUME FirmwareRules, PathInv, [PathNext]_<<vars, progress>>
  PROVE  PathInv'
<1> USE DEF DownAction, ReleaseAction, COMBO_NONE, COMBO_B_DOWN
<1>1. CASE PathNext
  <2>1. ComboInv'
    BY <1>1, ComboStep DEF PathNext, PathInv
  <2>2. /\ progress' \in [DOMAIN Drawn -> Nat]
        /\ \A c \in DOMAIN Drawn : progress'[c] <= Len(Drawn[c])
    BY <1>1, CountType
  <2> DEFINE Kept(c) ==
        /\ ~Firing' => Least(c, combo_state') <= progress'[c]
        /\ Firing' /\ combo_action' # COMBO_B_DOWN => Least(c, combo_state') = 0
        /\ returned' = c => progress'[c] = Len(Drawn[c])
  <2> SUFFICES \A c \in DOMAIN Drawn : Kept(c)
    BY <2>1, <2>2 DEF PathInv, FiredAsDrawn
  <2> SUFFICES ASSUME NEW c \in DOMAIN Drawn PROVE Kept(c)
    OBVIOUS
  <2>3. c \in {4, 5}
    BY Drawings
  <2>4. /\ progress[c] \in Nat /\ progress'[c] \in Nat
        /\ ~Firing => Least(c, combo_state) <= progress[c]
        /\ Firing /\ combo_action # COMBO_B_DOWN => Least(c, combo_state) = 0
        /\ Least(c, combo_state) \in Nat
    <3>1. Least(c, combo_state) \in Nat
      BY LeastType DEF PathInv, ComboInv, TypeOK
    <3> QED
      BY <2>2, <3>1 DEF PathInv
  \* A poll that leaves the state alone loses no keys, unless a combo is active.
  <2>5. ASSUME combo_state' = combo_state, ~Firing
        PROVE  Least(c, combo_state') <= progress'[c]
    <3>1. CASE combo_state' = 0
      BY <1>1, <3>1, Restarted
    <3>2. CASE combo_state' # 0
      <4>1. progress'[c] \in progress[c] .. Len(Drawn[c])
        BY <1>1, <2>5, <3>2, Counted
      <4> QED
        BY <2>4, <2>5, <4>1, DrawingLength, SMTT(30)
    <3> QED
      BY <3>1, <3>2
  <2>6. CASE QuickOut
    <3>1. returned' = 0 /\ combo_state' = combo_state /\ combo_action' = combo_action
      BY <2>6 DEF QuickOut, Emit
    <3> QED
      BY <2>3, <2>4, <2>5, <3>1, SMTT(30) DEF Firing
  <2>7. ASSUME NEW keydown \in SUBSET (Key \ keystate), NEW keyup \in SUBSET keystate,
               combo_recognize(keydown, keyup)
        PROVE  Kept(c)
    <3>1. CASE CheckComboB(keydown, keyup)
      <4>1. /\ combo_state' = combo_state /\ combo_action # COMBO_B_DOWN
            /\ combo_action' \in {COMBO_NONE, COMBO_B_DOWN} /\ returned' = combo_action'
        BY <3>1 DEF CheckComboB, ChecksComboB, Emit
      <4>2. Firing => progress'[c] = 0 /\ Least(c, combo_state') = 0
        BY <1>1, <2>4, <4>1, Restarted
      <4> QED
        BY <2>3, <2>5, <4>1, <4>2, SMTT(30) DEF Firing
    <3>2. CASE CheckRelease(keydown, keyup)
      <4>1. CASE After(keydown, keyup) \cap combo_release_key = {}
        <5>1. /\ combo_state' = 0 /\ combo_action' = combo_action + 5
              /\ combo_action \in DownAction /\ returned' = combo_action'
          BY <3>2, <4>1 DEF CheckRelease, Firing, Emit
        <5> QED
          BY <1>1, <2>3, <5>1, Restarted, SMTT(30) DEF Firing
      <4>2. CASE After(keydown, keyup) \cap combo_release_key # {}
        <5>1. /\ combo_state' = combo_state /\ combo_action' = combo_action /\ returned' = 0
              /\ Firing
          BY <3>2, <4>2 DEF CheckRelease, Emit
        <5> QED
          BY <2>3, <2>4, <5>1, SMTT(30) DEF Firing
      <4> QED
        BY <4>1, <4>2
    <3>3. CASE FollowRules(keydown, keyup)
      <4> DEFINE holding == {r \in RulesOf[combo_state] : RuleHolds(r, keydown, keyup)}
      <4>1. CASE holding = {}
        <5>1. combo_state' = 0 /\ combo_action' = 0 /\ returned' = 0
          BY <3>3, <4>1 DEF FollowRules, Emit
        <5> QED
          BY <1>1, <2>3, <5>1, Restarted, SMTT(30) DEF Firing
      <4>2. ASSUME NEW r \in holding, combo_state' = state_table[r][4],
                   combo_action' = state_table[r][5]
            PROVE  Kept(c)
        <5>1. ~Firing /\ returned' = combo_action'
          BY <3>3 DEF FollowRules, Emit
        <5>2. keystate' = After(keydown, keyup)
          BY <2>7 DEF combo_recognize
        <5> QED
          BY <1>1, <2>3, <4>2, <5>1, <5>2, RuleCounts DEF Firing
      <4> QED
        BY <3>3, <4>1, <4>2 DEF FollowRules
    <3> QED
      BY <2>7, <3>1, <3>2, <3>3 DEF combo_recognize
  <2> QED
    BY <1>1, <2>6, <2>7 DEF PathNext, Next
<1>2. CASE UNCHANGED <<vars, progress>>
  <2>1. UNCHANGED vars /\ progress' = progress
    BY <1>2
  <2> QED
    BY <2>1 DEF PathInv, ComboInv, TypeOK, ActiveComboHeld, FiredAsDrawn, Firing, vars
<1> QED
  BY <1>1, <1>2

\* With the firmware's rules, all sixteen keys and any number of them changing
\* between two polls: combos D and E fire only after every key drawn for them was
\* pressed, in the drawn order, since the recogniser last started over.
THEOREM FiredAsDrawnAlways ==
  ASSUME FirmwareRules
  PROVE  PathSpec => []FiredAsDrawn
<1>1. PathInit => PathInv
  <2>1. Init => ComboInv
    <3>1. 0 \in StateNum
      BY ComboAssumption, SMTT(30) DEF ComboAssumption, StateNum
    <3> QED
      BY <3>1, SMTT(30) DEF Init, ComboInv, TypeOK, ActiveComboHeld, Firing, COMBO_NONE, DownAction
  <2>2. \A c \in DOMAIN Drawn : Least(c, 0) = 0 /\ Len(Drawn[c]) >= 0 /\ c # 0
    BY Drawings DEF Least
  <2>3. PathInit => ~Firing /\ FiredAsDrawn
    BY <2>2, SMTT(30) DEF PathInit, Init, Firing, DownAction, COMBO_NONE, FiredAsDrawn
  <2> QED
    BY <2>1, <2>2, <2>3, SMTT(30) DEF PathInit, Init, PathInv
<1>2. PathInv /\ [PathNext]_<<vars, progress>> => PathInv'
  BY PathStep
<1>3. PathInv => FiredAsDrawn
  BY DEF PathInv
<1> QED
  BY <1>1, <1>2, <1>3, PTL DEF PathSpec

----------------------------------------------------------------------------
(***************************************************************************)
(* The task: HostMirrorsKeys is inductive with the types.                  *)
(***************************************************************************)

\* Every bank has a channel.
LEMMA BankChannelType ==
  ASSUME TaskTypeOK, NEW b \in 0..1
  PROVE  BankChannel(b) \in Channel
<1>1. CHANNELS \in Nat \ {0} /\ G_EE_MIDI_CHANNEL \in 0 .. (CHANNELS - 1)
  BY MidiTaskAssumption DEF MidiTaskAssumption, TaskTypeOK, Channel
<1> QED
  BY <1>1 DEF BankChannel, Channel

\* The part of a poll that the notes depend on.
KeysAndBank(down, up) ==
  /\ g_key_state' = (g_key_state \cup down) \ up
  /\ g_key_bank_last_up' = IF g_bank_selected = 0 THEN g_key_bank_last_up \ down
                           ELSE g_key_bank_last_up \cup down
  /\ UNCHANGED <<g_bank_selected, G_EE_MIDI_CHANNEL, G_EE_MIDI_OUTPUT_MODE,
                 G_EE_COMBOS_ENABLE, unsettled>>
  /\ armed' \subseteq 0..1
NotesSent(down, up) ==
  notesOn' = IF SendsNotes
             THEN (notesOn \cup {<<BankChannel(g_bank_selected), k>> : k \in down})
                  \ {<<NoteOffChannel(k), k>> : k \in up}
             ELSE notesOn
CCsSent(down, up) ==
  ccsOn' = IF SendsCCs
           THEN (ccsOn \cup {<<G_EE_MIDI_CHANNEL, k>> : k \in down})
                \ {<<G_EE_MIDI_CHANNEL, k>> : k \in up}
           ELSE ccsOn

LEMMA PollFacts ==
  ASSUME TaskTypeOK, NEW down \in SUBSET (AllKey \ g_key_state), NEW up \in SUBSET g_key_state,
         PollKeys(down, up)
  PROVE  KeysAndBank(down, up) /\ NotesSent(down, up) /\ CCsSent(down, up)
<1>1. armed' \subseteq 0..1 /\ g_bank_selected' = g_bank_selected
  BY DEF PollKeys, ServiceKeys, Buttons!Poll, Banks, TaskTypeOK
<1>2. UNCHANGED <<G_EE_MIDI_CHANNEL, G_EE_MIDI_OUTPUT_MODE, G_EE_COMBOS_ENABLE, unsettled>>
  BY DEF PollKeys, settings
<1> QED
  BY <1>1, <1>2 DEF PollKeys, ServiceKeys, KeysAndBank, NotesSent, CCsSent

\* A change of bank touches neither the keys nor what sounds.
LEMMA ChangeBankFacts ==
  ASSUME ChangeBank
  PROVE  /\ g_bank_selected' \in 0..1 /\ armed' = {}
         /\ UNCHANGED <<g_key_state, g_key_bank_last_up, G_EE_MIDI_CHANNEL,
                        G_EE_MIDI_OUTPUT_MODE, G_EE_COMBOS_ENABLE, notesOn, ccsOn, unsettled>>
BY DEF ChangeBank, Buttons!ButtonSelects, Buttons!HostSelects, settings, hostVars

\* Every step keeps the types.
LEMMA TaskTypeStep == TaskTypeOK /\ [TaskNext]_taskVars => TaskTypeOK'
<1> SUFFICES ASSUME TaskTypeOK, [TaskNext]_taskVars PROVE TaskTypeOK'
  OBVIOUS
<1>1. ASSUME NEW down \in SUBSET (AllKey \ g_key_state), NEW up \in SUBSET g_key_state,
             PollKeys(down, up)
      PROVE  TaskTypeOK'
  <2>1. BankChannel(g_bank_selected) \in Channel
    BY BankChannelType DEF TaskTypeOK
  <2>2. KeysAndBank(down, up) /\ NotesSent(down, up) /\ CCsSent(down, up)
    BY <1>1, PollFacts
  <2>3. {<<BankChannel(g_bank_selected), k>> : k \in down} \subseteq Channel \X AllKey
    BY <2>1, SMTT(30)
  <2>4. {<<G_EE_MIDI_CHANNEL, k>> : k \in down} \subseteq Channel \X AllKey
    BY SMTT(30) DEF TaskTypeOK
  <2>5. notesOn' \subseteq Channel \X AllKey
    BY <2>2, <2>3 DEF NotesSent, TaskTypeOK
  <2>6. ccsOn' \subseteq Channel \X AllKey
    BY <2>2, <2>4 DEF CCsSent, TaskTypeOK
  <2> QED
    BY <2>2, <2>5, <2>6 DEF KeysAndBank, TaskTypeOK
<1>2. CASE ChangeBank
  BY <1>2, ChangeBankFacts DEF TaskTypeOK
<1>3. ASSUME NEW channel \in Channel, NEW mode \in OutputMode, NEW combos \in BOOLEAN,
             ReceiveConfig(channel, mode, combos)
      PROVE  TaskTypeOK'
  <2>1. g_bank_selected' \in 0..1 /\ armed' \subseteq 0..1
    <3>1. CASE UNCHANGED bankVars
      BY <3>1 DEF TaskTypeOK, bankVars
    <3>2. CASE Buttons!HostSelects(0)
      BY <3>2 DEF Buttons!HostSelects
    <3> QED
      BY <1>3, <3>1, <3>2 DEF ReceiveConfig
  <2> QED
    BY <1>3, <2>1 DEF ReceiveConfig, TaskTypeOK, hostVars
<1>4. CASE UNCHANGED taskVars
  BY <1>4 DEF taskVars, TaskTypeOK
<1> QED
  BY <1>1, <1>2, <1>3, <1>4 DEF TaskNext

\* The channel of a key's release, after a poll.
LEMMA NoteOffChannelStep ==
  ASSUME TaskTypeOK, NEW down \in SUBSET (AllKey \ g_key_state), NEW up \in SUBSET g_key_state,
         PollKeys(down, up), NEW k \in AllKey
  PROVE  NoteOffChannel(k)' = IF k \in down THEN BankChannel(g_bank_selected)
                              ELSE NoteOffChannel(k)
<1>0. KeysAndBank(down, up)
  BY PollFacts
<1>1. BankChannel(0)' = BankChannel(0) /\ BankChannel(1)' = BankChannel(1)
  BY <1>0 DEF BankChannel, KeysAndBank
<1>2. g_bank_selected = 0 \/ g_bank_selected = 1
  BY SMTT(30) DEF TaskTypeOK
<1>3. k \in g_key_bank_last_up' <=> IF k \in down THEN g_bank_selected = 1
                                   ELSE k \in g_key_bank_last_up
  BY <1>0, <1>2, SMTT(30) DEF KeysAndBank
<1>4. NoteOffChannel(k)' = IF k \in g_key_bank_last_up' THEN BankChannel(1) ELSE BankChannel(0)
  BY <1>1 DEF NoteOffChannel
<1>5. NoteOffChannel(k) = IF k \in g_key_bank_last_up THEN BankChannel(1) ELSE BankChannel(0)
  BY DEF NoteOffChannel
<1> QED
  BY <1>2, <1>3, <1>4, <1>5

\* Every step keeps the host's notes and CCs in step with the keys.
LEMMA MirrorStep ==
  TaskTypeOK /\ HostMirrorsKeys /\ [TaskNext]_taskVars => HostMirrorsKeys'
<1> SUFFICES ASSUME TaskTypeOK, HostMirrorsKeys, [TaskNext]_taskVars,
                    NEW k \in AllKey \ unsettled', NEW c \in Channel
             PROVE  /\ (<<c, k>> \in notesOn)' <=>
                          (k \in g_key_state /\ SendsNotes /\ c = NoteOffChannel(k))'
                    /\ (<<c, k>> \in ccsOn)' <=>
                          (k \in g_key_state /\ SendsCCs /\ c = G_EE_MIDI_CHANNEL)'
  BY DEF HostMirrorsKeys, Channel
<1>1. ASSUME NEW down \in SUBSET (AllKey \ g_key_state), NEW up \in SUBSET g_key_state,
             PollKeys(down, up)
      PROVE  /\ (<<c, k>> \in notesOn)' <=>
                   (k \in g_key_state /\ SendsNotes /\ c = NoteOffChannel(k))'
             /\ (<<c, k>> \in ccsOn)' <=>
                   (k \in g_key_state /\ SendsCCs /\ c = G_EE_MIDI_CHANNEL)'
  <2>0. KeysAndBank(down, up) /\ NotesSent(down, up) /\ CCsSent(down, up)
    BY <1>1, PollFacts
  <2>1. k \notin unsettled /\ SendsNotes' = SendsNotes /\ SendsCCs' = SendsCCs
    BY <2>0 DEF KeysAndBank, SendsNotes, SendsCCs
  <2>2. /\ <<c, k>> \in notesOn <=> k \in g_key_state /\ SendsNotes /\ c = NoteOffChannel(k)
        /\ <<c, k>> \in ccsOn <=> k \in g_key_state /\ SendsCCs /\ c = G_EE_MIDI_CHANNEL
    BY <2>1 DEF HostMirrorsKeys
  <2>3. k \in g_key_state' <=> (k \in g_key_state \/ k \in down) /\ k \notin up
    BY <2>0 DEF KeysAndBank
  <2>4. <<c, k>> \in notesOn' <=>
          IF SendsNotes
          THEN /\ <<c, k>> \in notesOn \/ (k \in down /\ c = BankChannel(g_bank_selected))
               /\ ~(k \in up /\ c = NoteOffChannel(k))
          ELSE <<c, k>> \in notesOn
    BY <2>0 DEF NotesSent
  <2>5. <<c, k>> \in ccsOn' <=>
          IF SendsCCs
          THEN /\ <<c, k>> \in ccsOn \/ (k \in down /\ c = G_EE_MIDI_CHANNEL)
               /\ ~(k \in up /\ c = G_EE_MIDI_CHANNEL)
          ELSE <<c, k>> \in ccsOn
    BY <2>0 DEF CCsSent
  <2>6. NoteOffChannel(k)' = IF k \in down THEN BankChannel(g_bank_selected)
                             ELSE NoteOffChannel(k)
    BY <1>1, NoteOffChannelStep
  <2>7. G_EE_MIDI_CHANNEL' = G_EE_MIDI_CHANNEL
    BY <2>0 DEF KeysAndBank
  <2>8. ~(k \in down /\ (k \in up \/ k \in g_key_state)) /\ (k \in up => k \in g_key_state)
    OBVIOUS
  <2> QED
    BY <2>1, <2>2, <2>3, <2>4, <2>5, <2>6, <2>7, <2>8
<1>2. CASE ChangeBank
  <2>1. SendsNotes' = SendsNotes /\ SendsCCs' = SendsCCs /\ NoteOffChannel(k)' = NoteOffChannel(k)
    BY <1>2, ChangeBankFacts DEF SendsNotes, SendsCCs, NoteOffChannel, BankChannel
  <2> QED
    BY <1>2, <2>1, ChangeBankFacts DEF HostMirrorsKeys
<1>3. ASSUME NEW channel \in Channel, NEW mode \in OutputMode, NEW combos \in BOOLEAN,
             ReceiveConfig(channel, mode, combos)
      PROVE  /\ (<<c, k>> \in notesOn)' <=>
                   (k \in g_key_state /\ SendsNotes /\ c = NoteOffChannel(k))'
             /\ (<<c, k>> \in ccsOn)' <=>
                   (k \in g_key_state /\ SendsCCs /\ c = G_EE_MIDI_CHANNEL)'
  <2>1. UNCHANGED <<g_key_state, g_key_bank_last_up, notesOn, ccsOn>>
    BY <1>3 DEF ReceiveConfig, hostVars
  <2>2. k \notin unsettled
    BY <1>3 DEF ReceiveConfig
  <2>3. CASE UNCHANGED <<G_EE_MIDI_CHANNEL, G_EE_MIDI_OUTPUT_MODE>>
    BY <2>1, <2>2, <2>3 DEF HostMirrorsKeys, SendsNotes, SendsCCs, NoteOffChannel, BankChannel
  <2>4. CASE ~UNCHANGED <<G_EE_MIDI_CHANNEL, G_EE_MIDI_OUTPUT_MODE>>
    <3>1. k \notin g_key_state
      BY <1>3, <2>4 DEF ReceiveConfig
    <3> QED
      BY <2>1, <2>2, <3>1 DEF HostMirrorsKeys
  <2> QED
    BY <2>3, <2>4
<1>4. CASE UNCHANGED taskVars
  BY <1>4 DEF taskVars, HostMirrorsKeys, SendsNotes, SendsCCs, NoteOffChannel, BankChannel
<1> QED
  BY <1>1, <1>2, <1>3, <1>4 DEF TaskNext

\* Initially nothing sounds, and the keys held are set apart.
LEMMA TaskInitFacts == TaskInit => TaskTypeOK /\ HostMirrorsKeys
<1> SUFFICES ASSUME TaskInit PROVE TaskTypeOK /\ HostMirrorsKeys
  OBVIOUS
<1>1. G_EE_COMBOS_ENABLE \in BOOLEAN
  BY DEF TaskInit
<1>2. TaskTypeOK
  BY <1>1, SMTT(30) DEF TaskInit, TaskTypeOK
<1>3. HostMirrorsKeys
  BY DEF TaskInit, HostMirrorsKeys
<1> QED
  BY <1>2, <1>3

\* Whatever is pressed, however the bank changes meanwhile, a key's notes and CCs
\* sound at the host exactly while it is held.
THEOREM HostMirrorsKeysAlways == TaskSpec => []HostMirrorsKeys
<1> QED
  BY TaskInitFacts, TaskTypeStep, MirrorStep, PTL DEF TaskSpec

----------------------------------------------------------------------------
(* The recogniser in the task.                                             *)

\* What a pass does to the combos: it runs the recogniser on its low keys and sends
\* what it returned, or only notes the keys.
Recognises(down, up) ==
  /\ combo_recognize(down, up) \/ (down \cup up = {} /\ QuickOut)
  /\ combosOn' = IF returned' \in DownAction
                 THEN combosOn \cup {<<BankChannel(g_bank_selected), returned'>>}
                 ELSE combosOn \ {<<BankChannel(g_bank_selected), returned' - 5>>}
Ignores(down, up) ==
  /\ keystate' = After(down, up)
  /\ UNCHANGED <<combo_state, combo_action, combo_release_key, returned, sounding, combosOn>>

LEMMA ServiceFacts ==
  ASSUME NEW down, NEW up, ServiceCombos(down, up)
  PROVE  (G_EE_COMBOS_ENABLE /\ Recognises(down, up)) \/ (~G_EE_COMBOS_ENABLE /\ Ignores(down, up))
BY DEF ServiceCombos, Recognises, Ignores

\* The keys of the recogniser after a pass, and what it then takes to be sounding.
LEMMA RecognisedKeys ==
  ASSUME NEW down, NEW up, Recognises(down, up)
  PROVE  /\ keystate' = After(down, up)
         /\ sounding' = IF returned' \in DownAction THEN sounding \cup {returned'}
                        ELSE sounding \ {returned' - 5}
<1>1. CASE down \cup up = {} /\ QuickOut
  <2>1. down = {} /\ up = {}
    BY <1>1
  <2>2. After(down, up) = keystate
    BY <2>1 DEF After
  <2> QED
    BY <1>1, <2>2 DEF QuickOut, Emit
<1>2. CASE combo_recognize(down, up)
  <2>1. keystate' = After(down, up)
    BY <1>2 DEF combo_recognize
  <2>2. PICK a : Emit(a)
    BY <1>2 DEF combo_recognize, CheckComboB, CheckRelease, FollowRules
  <2> QED
    BY <2>1, <2>2 DEF Emit
<1> QED
  BY <1>1, <1>2 DEF Recognises

\* The steps that are no poll leave recogniser, keys and host alone.
LEMMA NoPoll ==
  ASSUME [TaskNext]_taskVars
  PROVE  \/ \E down \in SUBSET (AllKey \ g_key_state), up \in SUBSET g_key_state :
              /\ Cardinality(down) + Cardinality(up) <= MAX_CHANGE
              /\ PollKeys(down, up)
         \/ UNCHANGED <<g_key_state, combosOn, vars>>
BY DEF TaskNext, ChangeBank, ReceiveConfig, hostVars, taskVars

\* The low keys of a poll's edges.
LEMMA LowEdges ==
  ASSUME keystate = g_key_state \cap 0..15,
         NEW down \in SUBSET (AllKey \ g_key_state), NEW up \in SUBSET g_key_state
  PROVE  /\ down \cap 0..15 \in SUBSET (Key \ keystate)
         /\ up \cap 0..15 \in SUBSET keystate
         /\ After(down \cap 0..15, up \cap 0..15) = ((g_key_state \cup down) \ up) \cap 0..15
<1>1. Key = AllKey \cap 0..15
  BY MidiTaskAssumption
<1> QED
  BY <1>1 DEF After

LEMMA HeardStep == TaskTypeOK /\ CombosHeard /\ [TaskNext]_taskVars => CombosHeard'
<1> SUFFICES ASSUME TaskTypeOK, CombosHeard, [TaskNext]_taskVars PROVE CombosHeard'
  OBVIOUS
<1>1. CASE UNCHANGED <<g_key_state, combosOn, vars>>
  BY <1>1 DEF CombosHeard, vars, Channel
<1>2. ASSUME NEW down \in SUBSET (AllKey \ g_key_state), NEW up \in SUBSET g_key_state,
             PollKeys(down, up)
      PROVE  CombosHeard'
  <2> DEFINE d == down \cap 0..15
             u == up \cap 0..15
  <2>1. g_key_state' = (g_key_state \cup down) \ up /\ ServiceCombos(d, u)
    BY <1>2 DEF PollKeys
  <2>2. After(d, u) = g_key_state' \cap 0..15
    BY <2>1, LowEdges DEF CombosHeard
  <2>3. BankChannel(g_bank_selected) \in Channel
    BY BankChannelType DEF TaskTypeOK
  <2> HIDE DEF d, u
  <2>4. CASE Ignores(d, u)
    BY <2>2, <2>4 DEF Ignores, CombosHeard, Channel
  <2>5. CASE Recognises(d, u)
    <3>1. /\ keystate' = After(d, u)
          /\ sounding' = IF returned' \in DownAction THEN sounding \cup {returned'}
                         ELSE sounding \ {returned' - 5}
      BY <2>5, RecognisedKeys
    <3>2. CASE returned' \in DownAction
      <4>1. /\ sounding' = sounding \cup {returned'}
            /\ combosOn' = combosOn \cup {<<BankChannel(g_bank_selected), returned'>>}
        BY <2>5, <3>1, <3>2 DEF Recognises
      <4> QED
        BY <2>2, <2>3, <3>1, <4>1 DEF CombosHeard, Channel
    <3>3. CASE returned' \notin DownAction
      <4>1. /\ sounding' = sounding \ {returned' - 5}
            /\ combosOn' = combosOn \ {<<BankChannel(g_bank_selected), returned' - 5>>}
        BY <2>5, <3>1, <3>3 DEF Recognises
      <4>2. ASSUME NEW a \in sounding' PROVE \E c \in Channel : <<c, a>> \in combosOn'
        <5>1. a \in sounding /\ a # returned' - 5
          BY <4>1
        <5>2. PICK c \in Channel : <<c, a>> \in combosOn
          BY <5>1 DEF CombosHeard
        <5>3. <<c, a>> # <<BankChannel(g_bank_selected), returned' - 5>>
          BY <5>1
        <5> QED
          BY <4>1, <5>2, <5>3
      <4> QED
        BY <2>2, <3>1, <4>2 DEF CombosHeard, Channel
    <3> QED
      BY <3>2, <3>3
  <2> QED
    BY <2>1, <2>4, <2>5, ServiceFacts
<1> QED
  BY <1>1, <1>2, NoPoll

LEMMA HeardStart == TaskInit => CombosHeard
BY DEF TaskInit, Init, CombosHeard

\* For every rule table, every set of keys and every number of channels: what the
\* recogniser takes to be sounding does sound at the host, and it runs on the keys of
\* the poll, even after combos were switched off and on again.
THEOREM CombosHeardAlways == TaskSpec => []CombosHeard
BY TaskInitFacts, HeardStart, TaskTypeStep, HeardStep, PTL DEF TaskSpec

LEMMA OnlyStep ==
  /\ OnlyCombosHeard /\ [TaskNext]_taskVars
  /\ [sounding = {} \/ UNCHANGED <<g_bank_selected, G_EE_MIDI_CHANNEL>>]_taskVars
  => OnlyCombosHeard'
<1> SUFFICES ASSUME OnlyCombosHeard, [TaskNext]_taskVars,
                    [sounding = {} \/ UNCHANGED <<g_bank_selected, G_EE_MIDI_CHANNEL>>]_taskVars
             PROVE  OnlyCombosHeard'
  OBVIOUS
<1> DEFINE c == BankChannel(g_bank_selected)
<1>0. combosOn = {<<c, a>> : a \in sounding}
  BY DEF OnlyCombosHeard
<1>1. ASSUME UNCHANGED <<g_bank_selected, G_EE_MIDI_CHANNEL>>,
             combosOn' = {<<c, a>> : a \in sounding'}
      PROVE  OnlyCombosHeard'
  <2>1. BankChannel(g_bank_selected)' = c
    BY <1>1 DEF BankChannel
  <2> HIDE DEF c
  <2> QED
    BY <1>1, <2>1 DEF OnlyCombosHeard
<1>2. CASE UNCHANGED <<g_key_state, combosOn, vars>>
  <2>1. sounding' = sounding /\ combosOn' = combosOn
    BY <1>2 DEF vars
  <2>2. CASE sounding = {}
    <3>1. combosOn' = {} /\ sounding' = {}
      BY <1>0, <2>1, <2>2
    <3> QED
      BY <3>1 DEF OnlyCombosHeard
  <2>3. CASE UNCHANGED <<g_bank_selected, G_EE_MIDI_CHANNEL>>
    BY <1>0, <1>1, <2>1, <2>3
  <2>4. CASE UNCHANGED taskVars
    <3>1. UNCHANGED <<g_bank_selected, G_EE_MIDI_CHANNEL>>
      BY <2>4 DEF taskVars
    <3> QED
      BY <2>3, <3>1
  <2> QED
    BY <2>2, <2>3, <2>4
<1>3. ASSUME NEW down \in SUBSET (AllKey \ g_key_state), NEW up \in SUBSET g_key_state,
             PollKeys(down, up)
      PROVE  OnlyCombosHeard'
  <2>1. UNCHANGED <<g_bank_selected, G_EE_MIDI_CHANNEL>>
    BY <1>3 DEF PollKeys, ServiceKeys, Buttons!Poll, settings
  <2>2. PICK d, u : ServiceCombos(d, u)
    BY <1>3 DEF PollKeys
  <2> SUFFICES combosOn' = {<<c, a>> : a \in sounding'}
    BY <1>1, <2>1
  <2>3. CASE Ignores(d, u)
    <3>1. combosOn' = combosOn /\ sounding' = sounding
      BY <2>3 DEF Ignores
    <3> QED
      BY <1>0, <3>1
  <2>4. CASE Recognises(d, u)
    <3>1. sounding' = IF returned' \in DownAction THEN sounding \cup {returned'}
                      ELSE sounding \ {returned' - 5}
      BY <2>4, RecognisedKeys
    <3>2. CASE returned' \in DownAction
      <4>1. sounding' = sounding \cup {returned'} /\ combosOn' = combosOn \cup {<<c, returned'>>}
        BY <2>4, <3>1, <3>2 DEF Recognises
      <4> HIDE DEF c
      <4> QED
        BY <1>0, <4>1
    <3>3. CASE returned' \notin DownAction
      <4>1. sounding' = sounding \ {returned' - 5} /\ combosOn' = combosOn \ {<<c, returned' - 5>>}
        BY <2>4, <3>1, <3>3 DEF Recognises
      <4>2. PICK b : b = returned' - 5
        OBVIOUS
      <4> HIDE DEF c
      <4>3. sounding' = sounding \ {b} /\ combosOn' = combosOn \ {<<c, b>>}
        BY <4>1, <4>2
      <4>4. ASSUME NEW a \in sounding' PROVE <<c, a>> \in combosOn'
        <5>1. a \in sounding /\ a # b
          BY <4>3
        <5>2. <<c, a>> \in combosOn /\ <<c, a>> # <<c, b>>
          BY <1>0, <5>1
        <5> QED
          BY <4>3, <5>2
      <4>5. ASSUME NEW n \in combosOn' PROVE \E a \in sounding' : n = <<c, a>>
        <5>1. n \in combosOn /\ n # <<c, b>>
          BY <4>3
        <5>2. PICK a \in sounding : n = <<c, a>>
          BY <1>0, <5>1
        <5>3. a # b
          BY <5>1, <5>2
        <5> QED
          BY <4>3, <5>2, <5>3
      <4> QED
        BY <4>4, <4>5
    <3> QED
      BY <3>2, <3>3
  <2> QED
    BY <2>2, <2>3, <2>4, ServiceFacts
<1> QED
  BY <1>2, <1>3, NoPoll

\* As long as bank and channel change only while no combo sounds, the host hears each
\* combo of the recogniser, on the channel of the bank, and no other: a combo note
\* that outlives its combo is the work of such a change.
THEOREM OnlyCombosHeardAlways == TaskSpec /\ ChannelKept => []OnlyCombosHeard
<1>1. TaskInit => OnlyCombosHeard
  BY DEF TaskInit, Init, OnlyCombosHeard
<1> QED
  BY <1>1, OnlyStep, PTL DEF TaskSpec, ChannelKept

\* A pass with combos on is a step of the recogniser as Combo has it.
LEMMA PollIsCombo ==
  ASSUME keystate = g_key_state \cap 0..15, G_EE_COMBOS_ENABLE,
         NEW down \in SUBSET (AllKey \ g_key_state), NEW up \in SUBSET g_key_state,
         g_key_state \subseteq AllKey,
         Cardinality(down) + Cardinality(up) <= MAX_CHANGE, PollKeys(down, up)
  PROVE  Next
<1> DEFINE d == down \cap 0..15
           u == up \cap 0..15
<1>1. combo_recognize(d, u) \/ QuickOut
  BY DEF PollKeys, ServiceCombos
<1>2. d \in SUBSET (Key \ keystate) /\ u \in SUBSET keystate
  BY LowEdges
<1>3. IsFiniteSet(AllKey)
  <2>1. 0 \in Int /\ 63 \in Int /\ AllKey \in SUBSET (0..63)
    BY MidiTaskAssumption, SMTT(30)
  <2>2. IsFiniteSet(0..63)
    BY <2>1, FS_Interval
  <2> QED
    BY <2>1, <2>2, FS_Subset
<1>4. IsFiniteSet(down) /\ IsFiniteSet(up)
  <2>1. down \in SUBSET AllKey /\ up \in SUBSET AllKey
    OBVIOUS
  <2> QED
    BY <1>3, <2>1, FS_Subset
<1>5. Cardinality(d) <= Cardinality(down) /\ IsFiniteSet(d)
  <2>1. d \in SUBSET down
    OBVIOUS
  <2> HIDE DEF d
  <2> QED
    BY <1>4, <2>1, FS_Subset
<1>6. Cardinality(u) <= Cardinality(up) /\ IsFiniteSet(u)
  <2>1. u \in SUBSET up
    OBVIOUS
  <2> HIDE DEF u
  <2> QED
    BY <1>4, <2>1, FS_Subset
<1> HIDE DEF d, u
<1>7. /\ Cardinality(d) \in Nat /\ Cardinality(u) \in Nat
      /\ Cardinality(down) \in Nat /\ Cardinality(up) \in Nat /\ MAX_CHANGE \in Nat
  BY <1>4, <1>5, <1>6, FS_CardinalityType, ComboAssumption
<1>8. Cardinality(d) + Cardinality(u) <= MAX_CHANGE
  BY <1>5, <1>6, <1>7, SMTT(30)
<1> QED
  BY <1>1, <1>2, <1>8 DEF Next

LEMMA TaskIsCombo ==
  TaskTypeOK /\ CombosHeard /\ G_EE_COMBOS_ENABLE /\ [TaskNext]_taskVars => [Next]_vars
<1> SUFFICES ASSUME TaskTypeOK, CombosHeard, G_EE_COMBOS_ENABLE, [TaskNext]_taskVars
             PROVE  [Next]_vars
  OBVIOUS
<1>1. keystate = g_key_state \cap 0..15 /\ g_key_state \subseteq AllKey
  BY DEF CombosHeard, TaskTypeOK
<1> QED
  BY <1>1, PollIsCombo, NoPoll

\* With combos on, the task runs the recogniser as Combo specifies it, so that
\* ActiveComboHeld and PairedActions hold of what it sends.
THEOREM TaskRunsCombo == TaskSpec /\ []G_EE_COMBOS_ENABLE => Spec
<1>1. TaskInit => Init
  BY DEF TaskInit
<1> QED
  BY <1>1, CombosHeardAlways, TaskInitFacts, TaskTypeStep, TaskIsCombo, PTL DEF TaskSpec, Spec

\* While combos are off, none is active.
IdleInv == ComboInv /\ (~G_EE_COMBOS_ENABLE => ~Firing)

LEMMA IdleStep ==
  /\ TaskTypeOK /\ CombosHeard /\ IdleInv /\ [TaskNext]_taskVars
  /\ [G_EE_COMBOS_ENABLE' = G_EE_COMBOS_ENABLE \/ ~Firing]_taskVars
  => IdleInv'
<1> SUFFICES ASSUME TaskTypeOK, CombosHeard, IdleInv, [TaskNext]_taskVars,
                    [G_EE_COMBOS_ENABLE' = G_EE_COMBOS_ENABLE \/ ~Firing]_taskVars
             PROVE  IdleInv'
  OBVIOUS
<1>1. CASE UNCHANGED <<g_key_state, combosOn, vars>>
  <2>1. UNCHANGED vars
    BY <1>1
  <2>2. ComboInv'
    BY <2>1, ComboStep DEF IdleInv
  <2>3. Firing' = Firing
    BY <2>1 DEF vars, Firing
  <2>4. G_EE_COMBOS_ENABLE' = G_EE_COMBOS_ENABLE \/ ~Firing
    BY DEF taskVars
  <2> QED
    BY <2>2, <2>3, <2>4 DEF IdleInv
<1>2. ASSUME NEW down \in SUBSET (AllKey \ g_key_state), NEW up \in SUBSET g_key_state,
             Cardinality(down) + Cardinality(up) <= MAX_CHANGE, PollKeys(down, up)
      PROVE  IdleInv'
  <2>1. G_EE_COMBOS_ENABLE' = G_EE_COMBOS_ENABLE
    BY <1>2 DEF PollKeys, settings
  <2>2. CASE G_EE_COMBOS_ENABLE
    <3>1. [Next]_vars
      BY <2>2, TaskIsCombo
    <3>2. ComboInv'
      BY <3>1, ComboStep DEF IdleInv
    <3> QED
      BY <2>1, <2>2, <3>2 DEF IdleInv
  <2>3. CASE ~G_EE_COMBOS_ENABLE
    <3> DEFINE d == down \cap 0..15
               u == up \cap 0..15
    <3>1. Ignores(d, u)
      BY <1>2, <2>3, ServiceFacts DEF PollKeys
    <3>2. UNCHANGED <<combo_state, combo_action, combo_release_key, returned, sounding>>
      BY <3>1 DEF Ignores
    <3>3. ~Firing /\ ~Firing'
      BY <2>3, <3>2 DEF IdleInv, Firing
    <3>4. keystate' \subseteq Key
      <4>1. keystate' = After(d, u)
        BY <3>1 DEF Ignores
      <4>2. d \in SUBSET (Key \ keystate) /\ keystate \subseteq Key
        BY LowEdges DEF CombosHeard, IdleInv, ComboInv, TypeOK
      <4> HIDE DEF d, u
      <4> QED
        BY <4>1, <4>2 DEF After
    <3>5. TypeOK'
      BY <3>2, <3>4 DEF IdleInv, ComboInv, TypeOK, StateNum
    <3> QED
      BY <3>3, <3>5 DEF IdleInv, ComboInv, ActiveComboHeld
  <2> QED
    BY <2>2, <2>3
<1> QED
  BY <1>1, <1>2, NoPoll

\* As long as combos are switched only while none is active, an active combo sounds and
\* the key that ends it is held, in the task as in the recogniser by itself.
THEOREM ActiveComboHeldInTask == TaskSpec /\ SwitchedIdle => []ActiveComboHeld
<1>1. TaskInit => IdleInv
  <2>1. 0 \in StateNum
    BY ComboAssumption, SMTT(30) DEF ComboAssumption, StateNum
  <2>2. Init => ComboInv /\ ~Firing
    BY <2>1, SMTT(30) DEF Init, ComboInv, TypeOK, ActiveComboHeld, Firing, COMBO_NONE, DownAction
  <2> QED
    BY <2>2 DEF TaskInit, IdleInv
<1>2. IdleInv => ActiveComboHeld
  BY DEF IdleInv, ComboInv
<1> QED
  BY <1>1, <1>2, IdleStep, TaskInitFacts, TaskTypeStep, CombosHeardAlways, PTL DEF TaskSpec, SwitchedIdle
=============================================================================

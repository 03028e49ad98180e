-------------------------- MODULE BankSelectProofs --------------------------
(***************************************************************************)
(* BankSelect implements BankButtons for every byte size, limit and refresh*)
(* interval, whether or not reads of the clock are torn.                   *)
(***************************************************************************)
EXTENDS BankSelect, TLAPS

\* A step that names no prover is given to Zenon, then to the SMT solver.
USE ZenonT(20), SMTT(30)

\* The clock has at least four values, and its high byte is a byte.
LEMMA TimeFacts ==
  /\ BYTE \in Nat /\ BYTE > 1 /\ TIME_MOD \in Nat /\ TIME_MOD > 3
  /\ \A t \in Time : t \div BYTE \in 0 .. (BYTE - 1)
<1>1. BYTE \in Nat /\ BYTE > 1
  BY BankSelectAssumption DEF BankSelectAssumption
<1>2. TIME_MOD \in Nat /\ TIME_MOD > 3
  BY <1>1 DEF TIME_MOD
<1>3. ASSUME NEW t \in Time PROVE t \div BYTE \in 0 .. (BYTE - 1)
  <2>1. t \in Nat /\ t < BYTE * BYTE
    BY <1>1 DEF Time, TIME_MOD
  <2>2. t \div BYTE \in Nat /\ BYTE * (t \div BYTE) =< t
    BY <1>1, <2>1
  <2>3. ~(t \div BYTE >= BYTE)
    BY <1>1, <2>1, <2>2
  <2> QED
    BY <1>1, <2>2, <2>3
<1> QED
  BY <1>1, <1>2, <1>3

\* A read of the clock, torn or not, is a time.
LEMMA ReadTimeIsTime ==
  TypeOK => ReadTime \subseteq Time
<1> SUFFICES ASSUME TypeOK PROVE ReadTime \subseteq Time
  OBVIOUS
<1>1. system_time_ms \in Time
  BY DEF TypeOK
<1>2. Minus(system_time_ms, 1) \in Nat
  BY <1>1, TimeFacts DEF Minus, Time
<1>3. Minus(system_time_ms, 1) % BYTE \in 0 .. (BYTE - 1)
  BY <1>2, TimeFacts
<1>4. system_time_ms \div BYTE \in 0 .. (BYTE - 1)
  BY <1>1, TimeFacts
<1>5. \A q \in 0 .. (BYTE - 1), r \in 0 .. (BYTE - 1) : r + BYTE * q \in Time
  BY TimeFacts DEF Time, TIME_MOD
<1>6. (Minus(system_time_ms, 1) % BYTE) + BYTE * (system_time_ms \div BYTE) \in Time
  BY <1>3, <1>4, <1>5
<1> QED
  BY <1>1, <1>6 DEF ReadTime

\* A counter that is started is never 0, the mark of one that is off.
LEMMA PressTimeRuns ==
  ASSUME NEW now \in Time
  PROVE  PressTime(now) \in Time /\ PressTime(now) > 0
BY TimeFacts DEF PressTime, Time

\* Every step keeps the types.
LEMMA TypeStep == TypeOK /\ [Next]_vars => TypeOK'
<1> SUFFICES ASSUME TypeOK, [Next]_vars PROVE TypeOK'
  OBVIOUS
<1> USE TimeFacts
<1>0. 0 \in Time /\ LIMIT \in Nat /\ MAX_GAP \in Nat
  BY BankSelectAssumption DEF BankSelectAssumption, Time
<1>1. CASE Tick
  <2>1. system_time_ms' \in Time
    BY <1>1 DEF Tick, TypeOK, Time
  <2>2. gap' \in 0..MAX_GAP /\ since' \in [Bank -> 0..LIMIT]
    BY <1>0, <1>1, SMTT(30) DEF Tick, TypeOK
  <2> QED
    BY <1>1, <2>1, <2>2 DEF Tick, TypeOK
<1>2. ASSUME NEW b \in Bank, ReceiveBankCC(b) PROVE TypeOK'
  BY <1>0, <1>2 DEF ReceiveBankCC, change_bank, TypeOK
<1>3. ASSUME NEW m \in SideBank, ReceiveConfig(m) PROVE TypeOK'
  <2>1. g_bank_select_counter' \in [Bank -> Time]
    BY <1>0, <1>3 DEF ReceiveConfig, change_bank, TypeOK
  <2>2. g_bank_selected' \in Bank
    BY <1>3, SMTT(30) DEF ReceiveConfig, change_bank, Bank, TypeOK
  <2>3. ticked' \in BOOLEAN
    BY <1>3 DEF ReceiveConfig
  <2> QED
    BY <1>3, <2>1, <2>2, <2>3 DEF ReceiveConfig, TypeOK
<1>10. CASE FactoryReset
  <2>1. G_EE_SIDE_BANK' \in SideBank
    BY <1>10 DEF FactoryReset, SideBank
  <2> QED
    BY <1>10, <2>1 DEF FactoryReset, TypeOK
<1>4. CASE ReceiveDone
  BY <1>4 DEF ReceiveDone, TypeOK
<1>5. ASSUME NEW down \in SUBSET (Bank \ held), NEW up \in SUBSET held, PollKeys(down, up)
      PROVE  TypeOK'
  <2>1. CASE down = {} /\ key_released(up) /\ UNCHANGED since
    BY <1>0, <1>5, <2>1 DEF PollKeys, key_released, TypeOK
  <2>2. ASSUME NEW b \in down, NEW now \in ReadTime, key_pressed(b, now),
               since' = [since EXCEPT ![b] = 0]
        PROVE  TypeOK'
    <3>1. PressTime(now) \in Time
      BY ReadTimeIsTime, PressTimeRuns
    <3>2. g_bank_select_counter' \in [Bank -> Time]
      BY <1>0, <2>2, <3>1 DEF key_pressed
    <3>3. since' \in [Bank -> 0..LIMIT]
      BY <1>0, <2>2, SMTT(30) DEF TypeOK
    <3> QED
      BY <1>5, <3>2, <3>3 DEF PollKeys, TypeOK
  <2> QED
    BY <1>5, <2>1, <2>2 DEF PollKeys
<1>6. CASE RefreshDue
  <2>1. pc' \in {"stamp", "receive"}
    BY <1>6 DEF RefreshDue
  <2>2. gap' \in 0..MAX_GAP
    BY <1>0, <1>6 DEF RefreshDue
  <2> QED
    BY <1>6, <2>1, <2>2 DEF RefreshDue, TypeOK
<1>7. CASE RefreshStamp
  BY <1>7, ReadTimeIsTime DEF RefreshStamp, TypeOK
<1>8. CASE service_bank_select_buttons
  BY <1>0, <1>8 DEF service_bank_select_buttons, change_bank, TypeOK
<1>9. CASE UNCHANGED vars
  BY <1>9 DEF vars, TypeOK
<1> QED
  BY <1>1, <1>2, <1>3, <1>4, <1>5, <1>6, <1>7, <1>8, <1>9, <1>10 DEF Next, MainLoop, Host

\* Changing the bank stops every counter.
LEMMA ChangeBankDisarms ==
  ASSUME NEW b, change_bank(b) PROVE armed' = {}
BY DEF change_bank, armed

\* A step that leaves the counters alone leaves the armed keys alone.
LEMMA ArmedUnchanged ==
  ASSUME UNCHANGED g_bank_select_counter PROVE armed' = armed
BY DEF armed

\* Every step is a step of BankButtons or leaves its state alone.
LEMMA ButtonsStep ==
  TypeOK /\ [Next]_vars => [Buttons!Next]_(Buttons!vars)
<1> SUFFICES ASSUME TypeOK, [Next]_vars PROVE [Buttons!Next]_(Buttons!vars)
  OBVIOUS
<1> DEFINE Same == UNCHANGED <<held, g_bank_select_counter, g_bank_selected>>
<1>0. Same => UNCHANGED Buttons!vars
  BY ArmedUnchanged DEF Buttons!vars
<1>1. CASE Tick \/ ReceiveDone \/ RefreshDue \/ RefreshStamp \/ FactoryReset \/ UNCHANGED vars
  <2>1. Same
    BY <1>1 DEF Tick, ReceiveDone, RefreshDue, RefreshStamp, FactoryReset, vars
  <2> QED
    BY <1>0, <2>1
<1>2. ASSUME NEW m \in SideBank, ReceiveConfig(m), ~(change_bank(0) /\ held' = held) PROVE Same
  BY <1>2 DEF ReceiveConfig
<1>3. ASSUME NEW b \in Bank, change_bank(b), held' = held PROVE Buttons!Next
  <2>1. armed' = {} /\ g_bank_selected' = b
    BY <1>3, ChangeBankDisarms DEF change_bank
  <2> QED
    BY <1>3, <2>1 DEF Buttons!Next, Buttons!HostSelects, Buttons!Bank, Bank
<1>4. ASSUME NEW down \in SUBSET (Bank \ held), NEW up \in SUBSET held, PollKeys(down, up)
      PROVE  Buttons!Next
  <2>1. held' = (held \cup down) \ up /\ g_bank_selected' = g_bank_selected
    BY <1>4 DEF PollKeys
  <2>2. armed' = IF down = {} THEN armed \ up ELSE {b \in down : \A c \in down : c <= b}
    <3>1. CASE down = {} /\ key_released(up)
      BY <3>1, SMTT(30) DEF key_released, armed
    <3>2. ASSUME NEW b \in down, NEW now \in ReadTime, \A c \in down : c <= b,
                 key_pressed(b, now)
          PROVE  armed' = {d \in down : \A c \in down : c <= d}
      <4>1. PressTime(now) > 0
        BY ReadTimeIsTime, PressTimeRuns
      <4>2. armed' = {b}
        BY <3>2, <4>1, SMTT(30) DEF key_pressed, armed
      <4>3. {d \in down : \A c \in down : c <= d} = {b}
        <5>1. \A c, d \in down : c <= d /\ d <= c => c = d
          BY SMTT(30) DEF Bank
        <5> QED
          BY <3>2, <5>1
      <4> QED
        BY <4>2, <4>3
    <3> QED
      BY <1>4, <3>1, <3>2 DEF PollKeys
  <2>3. Buttons!Poll(down, up)
    BY <2>1, <2>2 DEF Buttons!Poll
  <2> QED
    BY <2>3 DEF Buttons!Next, Buttons!Bank, Bank
<1>5. CASE service_bank_select_buttons
  <2>1. held' = held
    BY <1>5 DEF service_bank_select_buttons
  <2>2. CASE UNCHANGED <<g_bank_selected, g_bank_select_counter>>
    BY <1>0, <2>1, <2>2
  <2>3. ASSUME NEW b \in Bank, NEW now, Expired(b, now), change_bank(b)
        PROVE  Buttons!Next
    <3>1. b \in armed
      BY <2>3 DEF Expired, armed
    <3>2. armed' = {} /\ g_bank_selected' = b
      BY <2>3, ChangeBankDisarms DEF change_bank
    <3> QED
      BY <2>1, <3>1, <3>2 DEF Buttons!Next, Buttons!ButtonSelects, Buttons!Bank, Bank
  <2> QED
    BY <1>5, <2>2, <2>3 DEF service_bank_select_buttons
<1>6. ASSUME NEW b \in Bank, ReceiveBankCC(b) PROVE Buttons!Next
  BY <1>3, <1>6 DEF ReceiveBankCC
<1>7. ASSUME NEW m \in SideBank, ReceiveConfig(m) PROVE [Buttons!Next]_(Buttons!vars)
  BY <1>0, <1>2, <1>3, <1>7 DEF Bank
<1> QED
  BY <1>1, <1>4, <1>5, <1>6, <1>7 DEF Next, MainLoop, Host

\* The initial states have the types and are initial states of BankButtons.
LEMMA InitFacts == Init => TypeOK /\ Buttons!Init
<1> SUFFICES ASSUME Init PROVE TypeOK /\ Buttons!Init
  OBVIOUS
<1>1. 0 \in Time /\ LIMIT \in Nat /\ MAX_GAP \in Nat
  BY TimeFacts, BankSelectAssumption DEF BankSelectAssumption, Time
<1>2. TypeOK
  <2>1. ticked \in BOOLEAN
    BY DEF Init
  <2>2. g_bank_select_counter \in [Bank -> Time] /\ since \in [Bank -> 0..LIMIT]
    BY <1>1 DEF Init
  <2>3. g_bank_selected \in Bank /\ gap \in 0..MAX_GAP
    BY <1>1 DEF Init, Bank
  <2> QED
    BY <1>1, <2>1, <2>2, <2>3 DEF Init, TypeOK
<1>3. armed = {}
  BY DEF Init, armed
<1> QED
  BY <1>2, <1>3 DEF Init, Buttons!Init, Buttons!Bank, Bank

\* For every size of the clock, hold time and refresh interval, torn reads or
\* not, the timed counters behave as the clockless BankButtons.
THEOREM BankSelectImplementsButtons == Spec => ImplementsButtons
<1>1. Init => TypeOK /\ Buttons!Init
  BY InitFacts
<1>2. TypeOK /\ [Next]_vars => TypeOK'
  BY TypeStep
<1>3. TypeOK /\ [Next]_vars => [Buttons!Next]_(Buttons!vars)
  BY ButtonsStep
<1> QED
  BY <1>1, <1>2, <1>3, PTL DEF Spec, ImplementsButtons, Buttons!Spec

\* What BankButtons keeps: only a held key is armed, and only one.
LEMMA ButtonsKeep ==
  OnlyHeldKeyCounts /\ [Buttons!Next]_(Buttons!vars) => OnlyHeldKeyCounts'
<1> SUFFICES ASSUME OnlyHeldKeyCounts, [Buttons!Next]_(Buttons!vars)
             PROVE  OnlyHeldKeyCounts'
  OBVIOUS
<1>1. ASSUME NEW down \in SUBSET (Buttons!Bank \ held), NEW up \in SUBSET held,
             Buttons!Poll(down, up)
      PROVE  OnlyHeldKeyCounts'
  <2>1. armed' \subseteq held'
    BY <1>1 DEF OnlyHeldKeyCounts, Buttons!Poll
  <2>2. \A b, c \in armed' : b = c
    <3>1. \A c, d \in down : c <= d /\ d <= c => c = d
      BY SMTT(30) DEF Buttons!Bank
    <3>2. armed' = IF down = {} THEN armed \ up ELSE {b \in down : \A c \in down : c <= b}
      BY <1>1 DEF Buttons!Poll
    <3> QED
      BY <3>1, <3>2 DEF OnlyHeldKeyCounts
  <2> QED
    BY <2>1, <2>2 DEF OnlyHeldKeyCounts
<1>2. ASSUME NEW b, Buttons!HostSelects(b) \/ Buttons!ButtonSelects(b)
      PROVE  OnlyHeldKeyCounts'
  BY <1>2 DEF OnlyHeldKeyCounts, Buttons!HostSelects, Buttons!ButtonSelects
<1>3. CASE UNCHANGED Buttons!vars
  BY <1>3 DEF OnlyHeldKeyCounts, Buttons!vars
<1> QED
  BY <1>1, <1>2, <1>3 DEF Buttons!Next

\* A key that was let go of, or overtaken by the other bank key, never changes
\* the bank later.
THEOREM OnlyHeldKeyCountsAlways == Spec => []OnlyHeldKeyCounts
<1>1. Init => OnlyHeldKeyCounts
  <2>1. Init => armed = {}
    BY DEF Init, armed
  <2> QED
    BY <2>1 DEF OnlyHeldKeyCounts
<1>2. Init => TypeOK
  BY InitFacts
<1>3. TypeOK /\ [Next]_vars => TypeOK'
  BY TypeStep
<1>4. TypeOK /\ OnlyHeldKeyCounts /\ [Next]_vars => OnlyHeldKeyCounts'
  BY ButtonsStep, ButtonsKeep
<1> QED
  BY <1>1, <1>2, <1>3, <1>4, PTL DEF Spec


----------------------------------------------------------------------------
(* How long a counter has run.                                             *)

\* Until LIMIT milliseconds have gone by, the clock says of a running counter how
\* many they are, or one more when the press fell on time 0, and one more when the
\* time that was read for it was a tick old.  A read of the clock after an interrupt
\* is later than any press.
Elapsed(b) == Minus(system_time_ms, g_bank_select_counter[b])
CounterInv ==
  /\ ticked => \A b \in Bank : since[b] > 0
  /\ ~torn => \A b \in armed : since[b] < LIMIT => Elapsed(b) \in since[b] .. (since[b] + 2)

\* The 16-bit difference to a clock that goes on, up to its range.
LEMMA MinusTick ==
  ASSUME NEW t \in Time, NEW p \in Time, Minus(t, p) + 1 < TIME_MOD
  PROVE  Minus(IF t + 1 < TIME_MOD THEN t + 1 ELSE 0, p) = Minus(t, p) + 1
BY TimeFacts DEF Minus, Time

\* A value that is not torn counts as a press up to two milliseconds ago: one for
\* a read a tick old, one for a value of 0.
LEMMA PressElapsed ==
  ASSUME NEW now \in Time, NEW t \in Time, now \in {t, Minus(t, 1)}
  PROVE  Minus(t, PressTime(now)) \in 0..2
BY TimeFacts, SMTT(30) DEF Minus, PressTime, Time

\* After an interrupt since the press, a read a tick old is not before the press.
LEMMA MinusStale ==
  ASSUME NEW t \in Time, NEW p \in Time, Minus(t, p) > 0
  PROVE  Minus(Minus(t, 1), p) = Minus(t, p) - 1
BY TimeFacts, SMTT(30) DEF Minus, Time

\* The interrupt counts the milliseconds, and every other step ends its effect on
\* a read.
LEMMA TickedStep ==
  TypeOK /\ CounterInv /\ [Next]_vars => (ticked' => \A b \in Bank : since[b]' > 0)
<1> SUFFICES ASSUME TypeOK, CounterInv, [Next]_vars, ticked', NEW b \in Bank
             PROVE  since[b]' > 0
  OBVIOUS
<1>1. CASE Tick
  <2>1. LIMIT \in Nat /\ LIMIT > 0 /\ since[b] \in 0..LIMIT
    BY BankSelectAssumption, SMTT(30) DEF BankSelectAssumption, TypeOK
  <2>2. since[b]' = IF since[b] < LIMIT THEN since[b] + 1 ELSE LIMIT
    BY <1>1 DEF Tick
  <2> QED
    BY <2>1, <2>2, SMTT(30)
<1>2. CASE UNCHANGED vars
  BY <1>2 DEF CounterInv, vars
<1>3. CASE Next /\ ~Tick
  BY <1>3 DEF Next, MainLoop, Host, ReceiveDone, PollKeys, RefreshDue, RefreshStamp,
     service_bank_select_buttons, ReceiveBankCC, ReceiveConfig, FactoryReset
<1> QED
  BY <1>1, <1>2, <1>3

LEMMA CounterStep == TypeOK /\ CounterInv /\ [Next]_vars => CounterInv'
<1> SUFFICES ASSUME TypeOK, CounterInv, [Next]_vars, ~torn',
                    NEW b \in armed', since[b]' < LIMIT
             PROVE  Elapsed(b)' \in since[b]' .. (since[b]' + 2)
  BY TickedStep DEF CounterInv
<1>0. /\ LIMIT \in Nat /\ LIMIT + 1 < TIME_MOD /\ b \in Bank /\ since[b] \in 0..LIMIT
      /\ system_time_ms \in Time /\ g_bank_select_counter[b] \in Time
  BY TimeFacts, BankSelectAssumption, SMTT(30) DEF BankSelectAssumption, armed, TypeOK
<1>1. CASE UNCHANGED <<system_time_ms, g_bank_select_counter, since>> /\ ~torn
  <2>1. b \in armed /\ since[b] < LIMIT
    BY <1>1, ArmedUnchanged
  <2>2. Elapsed(b) \in since[b] .. (since[b] + 2)
    BY <1>1, <2>1 DEF CounterInv
  <2> QED
    BY <1>1, <2>2 DEF Elapsed
<1>2. CASE Tick
  <2>1. /\ system_time_ms' = IF system_time_ms + 1 < TIME_MOD THEN system_time_ms + 1 ELSE 0
        /\ since[b]' = IF since[b] < LIMIT THEN since[b] + 1 ELSE LIMIT
        /\ UNCHANGED <<g_bank_select_counter, torn>>
    BY <1>0, <1>2 DEF Tick
  <2>2. b \in armed /\ since[b] + 1 < LIMIT /\ since[b]' = since[b] + 1
    BY <1>0, <2>1, ArmedUnchanged
  <2>3. Elapsed(b) \in since[b] .. (since[b] + 2)
    BY <1>0, <2>1, <2>2 DEF CounterInv
  <2>4. Elapsed(b) + 1 < TIME_MOD
    BY <1>0, <2>2, <2>3, TimeFacts
  <2>5. Elapsed(b)' = Elapsed(b) + 1
    BY <1>0, <2>1, <2>4, MinusTick DEF Elapsed
  <2> QED
    BY <1>0, <2>2, <2>3, <2>5
<1>3. CASE \E c \in Bank : change_bank(c)
  BY <1>3, ChangeBankDisarms
<1>4. ASSUME NEW down \in SUBSET (Bank \ held), NEW up \in SUBSET held, PollKeys(down, up)
      PROVE  Elapsed(b)' \in since[b]' .. (since[b]' + 2)
  <2>0. UNCHANGED system_time_ms
    BY <1>4 DEF PollKeys
  <2>1. CASE down = {} /\ key_released(up) /\ UNCHANGED <<since, torn>>
    <3>1. g_bank_select_counter[b]' = g_bank_select_counter[b] /\ b \in armed
      BY <1>0, <2>1, SMTT(30) DEF key_released, armed
    <3>2. Elapsed(b) \in since[b] .. (since[b] + 2)
      BY <2>1, <3>1 DEF CounterInv
    <3> QED
      BY <2>0, <2>1, <3>1, <3>2 DEF Elapsed
  <2>2. ASSUME NEW c \in down, NEW now \in ReadTime, key_pressed(c, now),
               since' = [since EXCEPT ![c] = 0], torn' = (torn \/ Torn(now))
        PROVE  Elapsed(b)' \in since[b]' .. (since[b]' + 2)
    <3>1. now \in Time /\ now \in {system_time_ms, Minus(system_time_ms, 1)}
      BY <2>2, ReadTimeIsTime DEF Torn
    <3>2. c \in Bank /\ b = c
      BY <1>0, <2>2, SMTT(30) DEF key_pressed, armed
    <3>3. g_bank_select_counter[b]' = PressTime(now) /\ since[b]' = 0
      BY <1>0, <2>2, <3>2 DEF key_pressed, TypeOK
    <3> QED
      BY <1>0, <2>0, <3>1, <3>3, PressElapsed, SMTT(30) DEF Elapsed
  <2> QED
    BY <1>4, <2>1, <2>2 DEF PollKeys
<1>5. CASE ReceiveDone \/ RefreshDue \/ RefreshStamp \/ FactoryReset \/ UNCHANGED vars
  BY <1>1, <1>5 DEF ReceiveDone, RefreshDue, RefreshStamp, FactoryReset, vars
<1>6. ASSUME NEW c \in Bank, ReceiveBankCC(c) PROVE \E d \in Bank : change_bank(d)
  BY <1>6 DEF ReceiveBankCC
<1>7. ASSUME NEW m \in SideBank, ReceiveConfig(m)
      PROVE  Elapsed(b)' \in since[b]' .. (since[b]' + 2)
  <2>1. 0 \in Bank
    BY DEF Bank
  <2> QED
    BY <1>1, <1>3, <1>7, <2>1 DEF ReceiveConfig
<1>8. CASE service_bank_select_buttons
  <2>1. UNCHANGED <<system_time_ms, since>> /\ ~torn
    BY <1>8 DEF service_bank_select_buttons
  <2>2. CASE UNCHANGED g_bank_select_counter
    BY <1>1, <2>1, <2>2
  <2>3. CASE ~UNCHANGED g_bank_select_counter
    BY <1>3, <1>8, <2>3 DEF service_bank_select_buttons
  <2> QED
    BY <2>2, <2>3
<1> QED
  BY <1>2, <1>3, <1>4, <1>5, <1>6, <1>7, <1>8 DEF Next, MainLoop, Host

\* Only service_bank_select_buttons disarms a key at its place, and then for a
\* counter that expired; only one runs.
LEMMA ServiceHonours ==
  ASSUME TypeOK, CounterInv, OnlyHeldKeyCounts, [Next]_vars,
         NEW b \in Bank, pc = "service", G_EE_SIDE_BANK = 1, b \in armed, b \notin armed', ~torn'
  PROVE  since[b] >= LIMIT - 2
<1>0. /\ LIMIT \in Nat /\ since[b] \in 0..LIMIT
      /\ system_time_ms \in Time /\ g_bank_select_counter[b] \in Time
  BY TimeFacts, BankSelectAssumption, SMTT(30) DEF BankSelectAssumption, TypeOK
<1>1. ~UNCHANGED g_bank_select_counter
  BY ArmedUnchanged
<1>2. service_bank_select_buttons
  BY <1>1 DEF Next, MainLoop, Host, vars, Tick, ReceiveDone, PollKeys, RefreshDue, RefreshStamp,
     ReceiveBankCC, ReceiveConfig, FactoryReset
<1>3. PICK now \in ReadTime, c \in Bank :
        Expired(c, now) /\ torn' = (torn \/ Torn(now))
  BY <1>1, <1>2 DEF service_bank_select_buttons
<1>4. c = b /\ ~torn /\ ~Torn(now)
  BY <1>3 DEF Expired, armed, OnlyHeldKeyCounts
<1>5. Minus(now, g_bank_select_counter[b]) >= LIMIT
  BY <1>0, <1>3, <1>4, SMTT(30) DEF Expired
<1>6. CASE since[b] < LIMIT
  <2>1. Elapsed(b) \in since[b] .. (since[b] + 2)
    BY <1>4, <1>6 DEF CounterInv
  <2>2. CASE now = system_time_ms
    BY <1>0, <1>5, <2>1, <2>2, SMTT(30) DEF Elapsed
  <2>3. CASE now # system_time_ms
    <3>1. ticked /\ now = Minus(system_time_ms, 1)
      BY <1>3, <1>4, <2>3 DEF Torn, ReadTime
    <3>2. since[b] > 0
      BY <3>1 DEF CounterInv
    <3>3. Minus(now, g_bank_select_counter[b]) = Elapsed(b) - 1
      BY <1>0, <2>1, <3>1, <3>2, MinusStale, SMTT(30) DEF Elapsed
    <3> QED
      BY <1>0, <1>5, <2>1, <3>3, SMTT(30)
  <2> QED
    BY <2>2, <2>3
<1> QED
  BY <1>0, <1>6, SMTT(30)

\* For every width of the clock, hold time, refresh interval and length of a pass: in
\* hold mode service_bank_select_buttons changes the bank only after LIMIT
\* milliseconds of holding the key, one less for a press at time 0 and one less for a
\* read a tick old, unless a torn value of the clock was used.
THEOREM HoldHonouredUntornAlways == Spec => HoldHonouredUntorn
<1>1. Init => TypeOK /\ OnlyHeldKeyCounts /\ CounterInv
  <2>1. Init => armed = {}
    BY DEF Init, armed
  <2> QED
    BY <2>1, InitFacts DEF Init, OnlyHeldKeyCounts, CounterInv
<1>2. TypeOK /\ OnlyHeldKeyCounts /\ CounterInv /\ [Next]_vars
        => (TypeOK /\ OnlyHeldKeyCounts /\ CounterInv)'
  BY TypeStep, ButtonsStep, ButtonsKeep, CounterStep
<1>3. TypeOK /\ OnlyHeldKeyCounts /\ CounterInv /\ [Next]_vars
        => [\A b \in Bank :
              pc = "service" /\ G_EE_SIDE_BANK = 1 /\ b \in armed /\ b \notin armed' /\ ~torn'
                => since[b] >= LIMIT - 2]_vars
  BY ServiceHonours
<1> QED
  BY <1>1, <1>2, <1>3, PTL DEF Spec, HoldHonouredUntorn
=============================================================================

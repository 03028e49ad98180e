----------------------------- MODULE BankSelect -----------------------------
(***************************************************************************)
(* midifighter64.c: changing the bank of notes by holding one of two keys, *)
(* as Midifighter_Task runs it: receive, poll the keys, and in a pass that *)
(* finds a refresh due, service_bank_select_buttons.                       *)
(*                                                                         *)
(* system_time_ms is written by the TIMER0 interrupt and read by the main  *)
(* loop in two bytes, low byte first.  An interrupt between the two loads  *)
(* gives a value with the old low and the new high byte: the time of one   *)
(* tick ago, or, when the low byte carried, one that is BYTE - 1 ahead.    *)
(***************************************************************************)
EXTENDS Integers

CONSTANTS
  BYTE,         \* values of a byte: 256
  LIMIT,        \* G_BANK_SELECT_COUNTER_LIMIT: 1000
  REFRESH,      \* LED_REFRESH_LIMIT: 25
  MAX_GAP       \* most milliseconds from one pass of the main loop to the
                \* next: one that saves the configuration takes 2700

TIME_MOD == BYTE * BYTE
Time == 0 .. (TIME_MOD - 1)
Bank == 0..1
SideBank == 0..2   \* G_EE_SIDE_BANK: off, hold, at once

ASSUME BankSelectAssumption ==
  /\ BYTE \in Nat /\ BYTE > 1
  /\ LIMIT \in 1 .. (TIME_MOD - 2)
  /\ REFRESH \in Nat /\ MAX_GAP \in Nat \ {0}

VARIABLES
  system_time_ms,
  ticked,                    \* the last step was the interrupt
  pc,                        \* where Midifighter_Task is
  held,                      \* banks whose key g_key_state holds
  g_bank_select_counter,
  g_bank_selected,
  G_EE_SIDE_BANK,
  last_led_refresh_time_ms,
  gap,                       \* milliseconds since the last pass
  since,                     \* history: milliseconds since a counter was
                             \* started, up to LIMIT
  torn                       \* history: a torn value was used for a counter

vars == <<system_time_ms, ticked, pc, held, g_bank_select_counter, g_bank_selected,
          G_EE_SIDE_BANK, last_led_refresh_time_ms, gap, since, torn>>

Minus(a, b) == IF a >= b THEN a - b ELSE a - b + TIME_MOD   \* uint16_t

Init ==
  /\ system_time_ms = 0 /\ ticked = FALSE /\ pc = "receive"
  /\ held \in SUBSET Bank   \* keys held at power on are read before the main loop
  /\ g_bank_select_counter = [b \in Bank |-> 0]
  /\ g_bank_selected = 0 /\ G_EE_SIDE_BANK \in SideBank
  /\ last_led_refresh_time_ms = 0
  /\ gap = 0 /\ since = [b \in Bank |-> 0] /\ torn = FALSE

\* The clock's part of ISR(TIMER0_OVF_vect).
Tick ==
  /\ gap < MAX_GAP /\ gap' = gap + 1
  /\ system_time_ms' = IF system_time_ms + 1 < TIME_MOD THEN system_time_ms + 1 ELSE 0
  /\ ticked' = TRUE
  /\ since' = [b \in Bank |-> IF since[b] < LIMIT THEN since[b] + 1 ELSE LIMIT]
  /\ UNCHANGED <<pc, held, g_bank_select_counter, g_bank_selected, G_EE_SIDE_BANK,
                 last_led_refresh_time_ms, torn>>

\* The values a read of system_time_ms may return.
ReadTime ==
  {system_time_ms} \cup
  (IF ticked
   THEN {(Minus(system_time_ms, 1) % BYTE) + BYTE * (system_time_ms \div BYTE)}
   ELSE {})

\* Of those values, the one that is neither the time nor that of a tick ago.
Torn(now) == now \notin {system_time_ms, Minus(system_time_ms, 1)}

\* The animation it starts is left out.
change_bank(b) ==
  /\ g_bank_selected' = b
  /\ g_bank_select_counter' = [c \in Bank |-> 0]

\* Midifighter_GetIncomingUsbMidiMessages: the bank CC, a command that changes the
\* configuration, or no more packets.
ReceiveBankCC(b) ==
  /\ pc = "receive"
  /\ change_bank(b)
  /\ ticked' = FALSE
  /\ UNCHANGED <<system_time_ms, pc, held, G_EE_SIDE_BANK, last_led_refresh_time_ms,
                 gap, since, torn>>

\* sysExCmdPushConfig: switching the keys off goes back to bank 1.
ReceiveConfig(m) ==
  /\ pc = "receive"
  /\ G_EE_SIDE_BANK' = m
  /\ \/ m = 0 /\ G_EE_SIDE_BANK # 0 /\ change_bank(0)
     \/ (m # 0 \/ G_EE_SIDE_BANK = 0) /\ UNCHANGED <<g_bank_select_counter, g_bank_selected>>
  /\ ticked' = FALSE
  /\ UNCHANGED <<system_time_ms, pc, held, last_led_refresh_time_ms, gap, since, torn>>

\* sysExCmdSystem 2, through eeprom_factory_reset: the default is off.
FactoryReset ==
  /\ pc = "receive"
  /\ G_EE_SIDE_BANK' = 0
  /\ ticked' = FALSE
  /\ UNCHANGED <<system_time_ms, pc, held, g_bank_select_counter, g_bank_selected,
                 last_led_refresh_time_ms, gap, since, torn>>

ReceiveDone ==
  /\ pc = "receive" /\ pc' = "keys"
  /\ ticked' = FALSE
  /\ UNCHANGED <<system_time_ms, held, g_bank_select_counter, g_bank_selected,
                 G_EE_SIDE_BANK, last_led_refresh_time_ms, gap, since, torn>>

\* Mutant: 0, which marks a counter that is off, is used as a time.
PressTime_zero(now) == now

\* 0 marks a counter that is off, so a press at time 0 counts as one at the
\* time before.
PressTime(now) == IF now > 0 THEN now ELSE TIME_MOD - 1

\* The key loop's calls, in the order of the keys: each press stops all counters
\* and starts its own, so the last one pressed in the loop decides.
key_pressed(b, now) ==
  g_bank_select_counter' = [c \in Bank |-> IF c = b THEN PressTime(now) ELSE 0]

\* Mutant: a release leaves the counter running.
key_released_ignored(up) == UNCHANGED g_bank_select_counter

key_released(up) ==
  g_bank_select_counter' = [c \in Bank |-> IF c \in up THEN 0 ELSE g_bank_select_counter[c]]

PollKeys(down, up) ==
  /\ pc = "keys" /\ pc' = "due"
  /\ held' = (held \cup down) \ up
  /\ \/ /\ down = {}
        /\ key_released(up)
        /\ UNCHANGED <<since, torn>>
     \/ \E b \in down, now \in ReadTime :
          /\ \A c \in down : c <= b
          /\ key_pressed(b, now)
          /\ since' = [since EXCEPT ![b] = 0]
          /\ torn' = (torn \/ Torn(now))
  /\ ticked' = FALSE
  /\ UNCHANGED <<system_time_ms, g_bank_selected, G_EE_SIDE_BANK,
                 last_led_refresh_time_ms, gap>>

\* Is it time for a refresh?  Then store the time, from a second read.
RefreshDue ==
  /\ pc = "due"
  /\ \E now \in ReadTime :
       pc' = IF Minus(now, last_led_refresh_time_ms) >= REFRESH THEN "stamp" ELSE "receive"
  /\ ticked' = FALSE /\ gap' = 0
  /\ UNCHANGED <<system_time_ms, held, g_bank_select_counter, g_bank_selected,
                 G_EE_SIDE_BANK, last_led_refresh_time_ms, since, torn>>

RefreshStamp ==
  /\ pc = "stamp" /\ pc' = "service"
  /\ last_led_refresh_time_ms' \in ReadTime
  /\ ticked' = FALSE
  /\ UNCHANGED <<system_time_ms, held, g_bank_select_counter, g_bank_selected,
                 G_EE_SIDE_BANK, gap, since, torn>>

\* Mutant: the comparison is off by two.
Expired_early(b, now) ==
  /\ g_bank_select_counter[b] > 0
  /\ Minus(now, g_bank_select_counter[b]) + 2 >= (IF G_EE_SIDE_BANK > 1 THEN 1 ELSE LIMIT)

\* Mutant: signed arithmetic, which goes wrong when the clock wraps.
Expired_signed(b, now) ==
  /\ g_bank_select_counter[b] > 0
  /\ now - g_bank_select_counter[b] >= (IF G_EE_SIDE_BANK > 1 THEN 1 ELSE LIMIT)

\* The test of service_bank_select_buttons' loop.
Expired(b, now) ==
  /\ g_bank_select_counter[b] > 0
  /\ Minus(now, g_bank_select_counter[b]) >= (IF G_EE_SIDE_BANK > 1 THEN 1 ELSE LIMIT)

\* The first bank whose counter expired is selected; the host is notified (the
\* message is left out).
service_bank_select_buttons ==
  /\ pc = "service" /\ pc' = "receive"
  /\ \E now \in ReadTime :
       LET expired == {b \in Bank : G_EE_SIDE_BANK > 0 /\ Expired(b, now)} IN
       /\ torn' = (torn \/ Torn(now))
       /\ \/ expired = {} /\ UNCHANGED <<g_bank_selected, g_bank_select_counter>>
          \/ \E b \in expired : (\A c \in expired : b <= c) /\ change_bank(b)
  /\ ticked' = FALSE
  /\ UNCHANGED <<system_time_ms, held, G_EE_SIDE_BANK, last_led_refresh_time_ms, gap,
                 since>>

MainLoop ==
  \/ ReceiveDone
  \/ \E down \in SUBSET (Bank \ held), up \in SUBSET held : PollKeys(down, up)
  \/ RefreshDue
  \/ RefreshStamp
  \/ service_bank_select_buttons

Host ==
  \/ \E b \in Bank : ReceiveBankCC(b)
  \/ \E m \in SideBank : ReceiveConfig(m)
  \/ FactoryReset

Next == Tick \/ MainLoop \/ Host

Spec == Init /\ [][Next]_vars

\* The timer runs and the main loop is never abandoned; the host owes nothing.
FairSpec == Spec /\ WF_vars(Tick) /\ WF_vars(MainLoop)

----------------------------------------------------------------------------
\* Types; a stopped counter is 0 and a running one a time.
TypeOK ==
  /\ system_time_ms \in Time /\ ticked \in BOOLEAN
  /\ pc \in {"receive", "keys", "due", "stamp", "service"}
  /\ held \subseteq Bank
  /\ g_bank_select_counter \in [Bank -> Time]
  /\ g_bank_selected \in Bank
  /\ G_EE_SIDE_BANK \in SideBank
  /\ last_led_refresh_time_ms \in Time
  /\ gap \in 0..MAX_GAP
  /\ since \in [Bank -> 0..LIMIT] /\ torn \in BOOLEAN

armed == {b \in Bank : g_bank_select_counter[b] > 0}
Buttons == INSTANCE BankButtons WITH bank <- g_bank_selected

\* With the clock abstracted, the counters are what BankButtons promises: torn
\* reads, wraps of the clock and presses at time 0 included, a counter runs
\* exactly while its key is held, was the last pressed and has not acted yet.
ImplementsButtons == Buttons!Spec

\* A counter runs only while its key is held, and at most one runs: a key that
\* was let go of never changes the bank later.
OnlyHeldKeyCounts == armed \subseteq held /\ \A b, c \in armed : b = c

\* In hold mode the bank follows a key only after LIMIT milliseconds of holding
\* it, "1=Hold 2 seconds": one less when the press fell on time 0, and one less
\* when the time that was read for the press was a tick old.
HoldHonoured ==
  [][\A b \in Bank :
       pc = "service" /\ G_EE_SIDE_BANK = 1 /\ b \in armed /\ b \notin armed'
         => since[b] >= LIMIT - 2]_vars

\* The same as long as no torn value of the clock was used: a press at time 0, a
\* read a tick old, of the press or of the test, a wrap of the clock, the other
\* key and the host shorten no hold.
HoldHonouredUntorn ==
  [][\A b \in Bank :
       pc = "service" /\ G_EE_SIDE_BANK = 1 /\ b \in armed /\ b \notin armed' /\ ~torn'
         => since[b] >= LIMIT - 2]_vars

\* A key that is held long enough does change the bank, whatever the clock does.
HoldServed ==
  \A b \in Bank : (b \in armed /\ G_EE_SIDE_BANK > 0) ~> (b \notin armed \/ G_EE_SIDE_BANK = 0)
=============================================================================

------------------------------- MODULE Sleep -------------------------------
(***************************************************************************)
(* The sleep timer of default_display_run (display.c): TIMER1 counts half  *)
(* milliseconds, the refresh turns them into seconds and minutes, a key    *)
(* resets the minutes, and when they reach G_EE_SLEEP_TIME the ball demo   *)
(* covers the lights.                                                      *)
(*                                                                         *)
(* half_ms_counter has two bytes and is compared and reset with interrupts *)
(* on.  The interrupt comes every half millisecond, so it falls at most    *)
(* once into the few cycles of one refresh.                                *)
(***************************************************************************)
EXTENDS Integers

CONSTANTS
  BYTE,        \* values of one byte of half_ms_counter: 256
  SECOND,      \* half milliseconds of a second: 2000
  MINUTE,      \* seconds of a minute: 60
  MINUTES,     \* values of sleep_minute_counter: 256
  SleepTime,   \* values of G_EE_SLEEP_TIME: seven bits
  REFRESH_GAP, \* bound: half milliseconds between two refreshes
  MAX_CHANGES, \* bound: configurations received
  MAX_IDLE     \* bound: half milliseconds the history counts

ASSUME SleepAssumption ==
  /\ BYTE \in Nat \ {0, 1} /\ SECOND \in Nat \ {0} /\ MINUTE \in Nat \ {0, 1}
  /\ MINUTES \in Nat \ {0, 1}
  /\ SleepTime \subseteq 0 .. (MINUTES - 2)
  /\ REFRESH_GAP \in Nat \ {0} /\ BYTE <= SECOND /\ SECOND + REFRESH_GAP < BYTE * BYTE
  /\ MAX_CHANGES \in Nat /\ MAX_IDLE \in Nat
  /\ \A t \in SleepTime : (t - 1) * (MINUTE * SECOND) <= MAX_IDLE

VARIABLES
  half_ms_counter, one_second_counter, sleep_minute_counter,
  G_EE_SLEEP_TIME,
  demo,        \* the last refresh ran ball_demo_run
  clean,       \* history: the demo on show began with ball_demo_setup
  since,       \* half milliseconds since the last refresh
  changes,     \* configurations so far
  idle,        \* history: half milliseconds since the last key press, up to MAX_IDLE
  steady,      \* history: a key was pressed, and no new setting and no torn access since
  touched      \* history: a key or a new setting since the demo began

sleepVars == <<half_ms_counter, one_second_counter, sleep_minute_counter, G_EE_SLEEP_TIME,
               demo, clean, since, changes, idle, steady, touched>>
counters == <<half_ms_counter, one_second_counter, sleep_minute_counter>>

Low(h) == h % BYTE
High(h) == h \div BYTE
Wait(t) == IF t < MAX_IDLE THEN t + 1 ELSE t

\* main: "Start Device With Sleep Animation Enabled".
SleepInit ==
  /\ half_ms_counter = 0 /\ one_second_counter = 0
  /\ G_EE_SLEEP_TIME \in SleepTime /\ sleep_minute_counter = G_EE_SLEEP_TIME
  /\ demo = FALSE /\ clean = FALSE /\ since = 0 /\ changes = 0
  /\ idle = 0 /\ steady = FALSE /\ touched = FALSE

\* The interrupt, as far as sleep goes.
TIMER1_OVF_vect ==
  /\ since < REFRESH_GAP /\ since' = since + 1
  /\ half_ms_counter' = (half_ms_counter + 1) % (BYTE * BYTE)
  /\ idle' = Wait(idle)
  /\ UNCHANGED <<one_second_counter, sleep_minute_counter, G_EE_SLEEP_TIME, demo, clean,
                 changes, steady, touched>>

\* A pass of Midifighter_Task with key edges and no refresh.
KeyDown ==
  /\ sleep_minute_counter' = 0
  /\ idle' = 0 /\ steady' = TRUE /\ touched' = TRUE
  /\ UNCHANGED <<half_ms_counter, one_second_counter, G_EE_SLEEP_TIME, demo, clean, since,
                 changes>>

\* sysExCmdPushConfig.
ReceiveSleepTime(t) ==
  /\ changes < MAX_CHANGES /\ changes' = changes + 1
  /\ G_EE_SLEEP_TIME' = t
  /\ steady' = FALSE /\ touched' = TRUE
  /\ UNCHANGED <<counters, demo, clean, since, idle>>

\* The two-byte comparison: the low byte is read first, so that an interrupt in
\* between may pair it with a high byte that has just been carried into.
Compared(interrupt) ==
  IF interrupt = "read" THEN BYTE * High(half_ms_counter + 1) + Low(half_ms_counter)
  ELSE half_ms_counter

\* Mutant: every refresh starts the second again.
Counted_restarted(interrupt) == 0

Counted(interrupt) == IF interrupt = "read" THEN half_ms_counter + 1 ELSE half_ms_counter

\* half_ms_counter = 0, high byte first: an interrupt in between increments the
\* old low byte, and its carry stays.
Cleared(interrupt) ==
  IF interrupt = "write" THEN BYTE * High(Low(half_ms_counter) + 1) ELSE 0

\* Mutant: seconds are counted from one too few half milliseconds.
SecondOver_early(interrupt) == Compared(interrupt) >= SECOND - 1

SecondOver(interrupt) == Compared(interrupt) >= SECOND

MinuteOver(interrupt) == SecondOver(interrupt) /\ one_second_counter + 1 >= MINUTE

\* sleep_minute_counter after key edges, and after "Increment timing counters".
AfterKeys(down) == IF down THEN 0 ELSE sleep_minute_counter

MinutesElapsed(down, interrupt) ==
  IF MinuteOver(interrupt) THEN (AfterKeys(down) + 1) % MINUTES ELSE AfterKeys(down)

\* The demo is set up when the minutes are exactly the setting.
FallsAsleep(m) == G_EE_SLEEP_TIME # 0 /\ m = G_EE_SLEEP_TIME

\* Mutant: the demo runs without being set up.
AfterSetup_none(m) == m

AfterSetup(m) == IF FallsAsleep(m) THEN (m + 1) % MINUTES ELSE m

ShowsDemo(m) == G_EE_SLEEP_TIME # 0 /\ AfterSetup(m) > G_EE_SLEEP_TIME

\* A pass of Midifighter_Task with a refresh: key edges, then default_display_run.
SleepRefresh(down, interrupt) ==
  LET m == MinutesElapsed(down, interrupt)
      s == IF ~SecondOver(interrupt) THEN one_second_counter
           ELSE IF MinuteOver(interrupt) THEN 0 ELSE one_second_counter + 1
      torn == \/ Compared(interrupt) \notin {half_ms_counter, Counted(interrupt)}
              \/ Cleared(interrupt) # 0
      resets == down /\ G_EE_SLEEP_TIME # 0
  IN  /\ interrupt = "write" => SecondOver(interrupt)
      /\ half_ms_counter' = IF SecondOver(interrupt) THEN Cleared(interrupt)
                            ELSE Counted(interrupt)
      /\ demo' = ShowsDemo(m)
      /\ clean' = (FallsAsleep(m) \/ (clean /\ demo))
      /\ one_second_counter' = IF resets THEN 0 ELSE s
      /\ sleep_minute_counter' = IF resets THEN 0
                                 ELSE IF G_EE_SLEEP_TIME # 0 THEN AfterSetup(m) ELSE m
      /\ since' = 0
      /\ idle' = IF down THEN 0 ELSE IF interrupt = "none" THEN idle ELSE Wait(idle)
      /\ steady' = ((steady \/ down) /\ ~torn)
      /\ touched' = ((touched /\ demo) \/ down)
      /\ UNCHANGED <<G_EE_SLEEP_TIME, changes>>

Moment == {"none", "read", "write"}
RefreshStep == \E down \in BOOLEAN, interrupt \in Moment : SleepRefresh(down, interrupt)

SleepNext ==
  \/ TIMER1_OVF_vect \/ KeyDown
  \/ \E t \in SleepTime : ReceiveSleepTime(t)
  \/ RefreshStep

\* The timer runs, and the main loop comes round to a refresh.
SleepFairness == WF_sleepVars(TIMER1_OVF_vect) /\ WF_sleepVars(RefreshStep)

SleepSpec == SleepInit /\ [][SleepNext]_sleepVars /\ SleepFairness

----------------------------------------------------------------------------
\* Types; a setup leaves the minutes past the setting, within their byte.
SleepTypeOK ==
  /\ half_ms_counter \in 0 .. (BYTE * BYTE - 1)
  /\ one_second_counter \in 0 .. (MINUTE - 1)
  /\ sleep_minute_counter \in 0 .. (MINUTES - 1)
  /\ G_EE_SLEEP_TIME \in SleepTime
  /\ demo \in BOOLEAN /\ clean \in BOOLEAN
  /\ since \in 0..REFRESH_GAP /\ changes \in 0..MAX_CHANGES /\ idle \in 0..MAX_IDLE
  /\ steady \in BOOLEAN /\ touched \in BOOLEAN

\* A refresh shows the demo only after G_EE_SLEEP_TIME - 1 whole minutes without a
\* key, unless the setting changed or an access to half_ms_counter was torn since
\* the key.  (The first minute may be short: a key resets the seconds only when
\* its edge meets a refresh.)  In particular a key ends the demo when the setting
\* is two minutes or more.
SleepsNoSooner ==
  [][RefreshStep /\ demo' /\ steady' =>
       idle' >= (G_EE_SLEEP_TIME - 1) * (MINUTE * SECOND)]_sleepVars

\* The demo always starts from a grid cleared by ball_demo_setup: the minutes cannot
\* pass the setting without being equal to it at a refresh, unless the setting
\* itself is moved below them.  It goes on until a key, a new setting, or the
\* minutes' turn through 0 after MINUTES - G_EE_SLEEP_TIME - 1 minutes of sleep.
DemoIsWhole ==
  [][/\ demo' /\ ~demo /\ changes = 0 => clean'
     /\ demo /\ ~demo' => \/ touched \/ touched'
                          \/ sleep_minute_counter = MINUTES - 1 /\ sleep_minute_counter' = 0]_sleepVars

\* "If the Sleep Time is set to 0 never activate the sleep mode"; otherwise a device
\* left alone shows the demo again and again.
SleepComes ==
  []<>(\/ demo \/ G_EE_SLEEP_TIME = 0 \/ idle = 0)

\* A refresh may find a second over as late as REFRESH_GAP after its end, and starts
\* the next one from there.
SlowSecond == SECOND + REFRESH_GAP + 1

\* Why SleepComes, and when: a device left alone for G_EE_SLEEP_TIME such minutes shows
\* the demo, until the minutes may have turned through 0, unless the setting changed
\* or an access to half_ms_counter was torn since the key.
SleepsNoLater ==
  /\ steady /\ G_EE_SLEEP_TIME # 0
  /\ G_EE_SLEEP_TIME * (MINUTE * SlowSecond) <= idle
  /\ idle < MAX_IDLE /\ idle < (MINUTES - 3) * (MINUTE * SECOND)
  => demo
=============================================================================

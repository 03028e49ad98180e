---------------------------- MODULE LightsProofs ---------------------------
(***************************************************************************)
(* What the sleep timer and the animations keep for every value of their   *)
(* constants.                                                              *)
(***************************************************************************)
EXTENDS Sleep, Animations, FiniteSetTheorems, TLAPS

\* A step that names no prover is given to Zenon, then to the SMT solver.
USE ZenonT(20), SMTT(30)

----------------------------------------------------------------------------
(* Products and quotients.                                                 *)

\* A larger factor makes a product larger by at least the other factor.
LEMMA Monotonic ==
  ASSUME NEW n \in Nat \ {0}, NEW a \in Int, NEW b \in Int, a < b
  PROVE  n * a + n <= n * b
<1>1. \A d \in Nat : d >= 1 => n * d >= n
  OBVIOUS
<1>2. b - a \in Nat /\ b - a >= 1
  OBVIOUS
<1>3. n * (b - a) >= n
  BY <1>1, <1>2
<1>4. n * (b - a) = n * b - n * a /\ n * b \in Int /\ n * a \in Int
  OBVIOUS
<1> QED
  BY <1>3, <1>4

\* Quotient and remainder are unique.
LEMMA Division ==
  ASSUME NEW n \in Nat \ {0}, NEW x \in Nat, NEW q \in Nat, NEW r \in 0 .. (n - 1),
         x = n * q + r
  PROVE  x \div n = q /\ x % n = r
<1> DEFINE d == x \div n
           m == x % n
<1>1. d \in Int /\ m \in 0 .. (n - 1) /\ x = n * d + m
  OBVIOUS
<1>0. n * q \in Nat
  BY SMTT(30)
<1> HIDE DEF d, m
<1>2. ~(d < q)
  BY <1>0, <1>1, Monotonic
<1>3. ~(q < d)
  BY <1>0, <1>1, Monotonic
<1>4. d = q
  BY <1>1, <1>2, <1>3
<1>5. m = r
  BY <1>0, <1>1, <1>4
<1> QED
  BY <1>4, <1>5 DEF d, m

\* Of two products with the same factor, the one with the larger other factor is
\* the larger; the next multiple is one factor more.
LEMMA Multiples ==
  ASSUME NEW n \in Nat, NEW a \in Int
  PROVE  /\ a * n \in Int /\ (a + 1) * n = a * n + n
         /\ \A b \in Int : a <= b => a * n <= b * n
<1>1. a * n \in Int /\ (a + 1) * n = a * n + n
  OBVIOUS
<1>2. ASSUME NEW b \in Int, a <= b PROVE a * n <= b * n
  <2>1. b - a \in Nat
    BY <1>2
  <2>2. (b - a) * n \in Nat
    BY <2>1
  <2>3. (b - a) * n = b * n - a * n /\ b * n \in Int
    OBVIOUS
  <2> QED
    BY <1>1, <2>2, <2>3
<1> QED
  BY <1>1, <1>2

----------------------------------------------------------------------------
(* Sleep.                                                                  *)

\* The half milliseconds that the counters stand for: the minutes that have passed
\* since the first one after the key (which may be short), and the seconds and half
\* milliseconds of the current one.  The setup of the demo counts as a minute.
Elapsed ==
  (IF G_EE_SLEEP_TIME # 0 /\ sleep_minute_counter > G_EE_SLEEP_TIME
   THEN sleep_minute_counter - 2 ELSE sleep_minute_counter - 1) * (MINUTE * SECOND)
  + one_second_counter * SECOND + half_ms_counter

\* Since a key, the counters do not run ahead of time, unless torn.
NotAhead ==
  steady /\ sleep_minute_counter # 0 => idle = MAX_IDLE \/ Elapsed <= idle

\* Until a setting is received, the minutes are not past it without the demo, and are
\* equal to it only before the first refresh.
SetupIsMet ==
  changes = 0 /\ G_EE_SLEEP_TIME # 0 =>
    /\ sleep_minute_counter = G_EE_SLEEP_TIME => one_second_counter = 0
    /\ ~demo => sleep_minute_counter <= G_EE_SLEEP_TIME

\* The demo on show goes on as long as the minutes are past the setting.
DemoPast ==
  demo /\ ~touched => G_EE_SLEEP_TIME # 0 /\ sleep_minute_counter > G_EE_SLEEP_TIME

TimerInv == SleepTypeOK /\ NotAhead /\ SetupIsMet /\ DemoPast

\* The constants, as numbers.
LEMMA SleepConstants ==
  /\ BYTE \in Nat /\ BYTE >= 2 /\ SECOND \in Nat /\ SECOND >= 1 /\ MINUTE \in Nat /\ MINUTE >= 2
  /\ MINUTES \in Nat /\ MINUTES >= 2 /\ SleepTime \subseteq 0 .. (MINUTES - 2)
  /\ REFRESH_GAP \in Nat /\ MAX_CHANGES \in Nat /\ MAX_IDLE \in Nat
  /\ BYTE * BYTE \in Nat /\ SECOND < BYTE * BYTE /\ BYTE < BYTE * BYTE
<1>1. /\ BYTE \in Nat /\ BYTE >= 2 /\ SECOND \in Nat /\ SECOND >= 1 /\ MINUTE \in Nat /\ MINUTE >= 2
      /\ MINUTES \in Nat /\ MINUTES >= 2 /\ SleepTime \subseteq 0 .. (MINUTES - 2)
      /\ REFRESH_GAP \in Nat /\ MAX_CHANGES \in Nat /\ MAX_IDLE \in Nat
      /\ REFRESH_GAP >= 1 /\ SECOND + REFRESH_GAP < BYTE * BYTE
  BY SleepAssumption DEF SleepAssumption
<1>2. BYTE * BYTE \in Nat
  BY <1>1
<1>3. BYTE * 1 + BYTE <= BYTE * BYTE
  BY <1>1, Monotonic
<1> QED
  BY <1>1, <1>2, <1>3, SMTT(30)

\* What the interrupted accesses to half_ms_counter can read and leave.
LEMMA TornBytes ==
  ASSUME SleepTypeOK, NEW interrupt \in Moment
  PROVE  /\ Compared(interrupt) \in Nat /\ half_ms_counter <= Compared(interrupt)
         /\ Cleared(interrupt) \in {0, BYTE}
<1> DEFINE h == half_ms_counter
           q == h \div BYTE
           r == h % BYTE
<1>1. BYTE \in Nat \ {0} /\ h \in Nat
  BY SleepConstants DEF SleepTypeOK
<1>2. q \in Nat /\ r \in 0 .. (BYTE - 1) /\ h = BYTE * q + r
  BY <1>1
<1> HIDE DEF q, r
<1>3. CASE r + 1 < BYTE
  <2>1. h + 1 = BYTE * q + (r + 1) /\ r + 1 = BYTE * 0 + (r + 1) /\ r + 1 \in 0 .. (BYTE - 1)
    BY <1>1, <1>2, <1>3
  <2>2. (h + 1) \div BYTE = q /\ (r + 1) \div BYTE = 0
    BY <1>1, <1>2, <2>1, Division, SMTT(30)
  <2> QED
    BY <1>1, <1>2, <2>2 DEF Compared, Cleared, High, Low, q, r
<1>4. CASE r + 1 = BYTE
  <2>1. h + 1 = BYTE * (q + 1) + 0 /\ r + 1 = BYTE * 1 + 0 /\ 0 \in 0 .. (BYTE - 1)
    BY <1>1, <1>2, <1>4
  <2>2. (h + 1) \div BYTE = q + 1 /\ (r + 1) \div BYTE = 1
    BY <1>1, <1>2, <2>1, Division, SMTT(30)
  <2>3. BYTE * (q + 1) + r = h + BYTE
    BY <1>1, <1>2, <1>4
  <2> QED
    BY <1>1, <1>2, <2>2, <2>3 DEF Compared, Cleared, High, Low, q, r
<1> QED
  BY <1>1, <1>2, <1>3, <1>4

\* The minute counter turns over at the end of its byte.
LEMMA NextMinute ==
  ASSUME NEW m \in 0 .. (MINUTES - 1)
  PROVE  (m + 1) % MINUTES = IF m + 1 = MINUTES THEN 0 ELSE m + 1
<1>1. MINUTES \in Nat \ {0}
  BY SleepConstants
<1>2. CASE m + 1 = MINUTES
  <2>1. m + 1 = MINUTES * 1 + 0 /\ 0 \in 0 .. (MINUTES - 1)
    BY <1>1, <1>2, SMTT(30)
  <2> QED
    BY <1>1, <1>2, <2>1, Division, SMTT(30)
<1>3. CASE m + 1 # MINUTES
  <2>1. m + 1 = MINUTES * 0 + (m + 1) /\ m + 1 \in 0 .. (MINUTES - 1)
    BY <1>1, <1>3, SMTT(30)
  <2> QED
    BY <1>1, <1>3, <2>1, Division, SMTT(30)
<1> QED
  BY <1>2, <1>3

\* A refresh, in terms of the minutes before and after "Increment timing counters".
LEMMA RefreshFacts ==
  ASSUME SleepTypeOK, NEW down \in BOOLEAN, NEW interrupt \in Moment
  PROVE  /\ AfterKeys(down) \in 0 .. (MINUTES - 1)
         /\ MinutesElapsed(down, interrupt) =
              IF ~MinuteOver(interrupt) THEN AfterKeys(down)
              ELSE IF AfterKeys(down) + 1 = MINUTES THEN 0 ELSE AfterKeys(down) + 1
         /\ MinutesElapsed(down, interrupt) \in 0 .. (MINUTES - 1)
         /\ G_EE_SLEEP_TIME \in 0 .. (MINUTES - 2)
         /\ \A m \in 0 .. (MINUTES - 1) :
              AfterSetup(m) = IF FallsAsleep(m) THEN m + 1 ELSE m
<1>1. /\ AfterKeys(down) \in 0 .. (MINUTES - 1) /\ G_EE_SLEEP_TIME \in 0 .. (MINUTES - 2)
      /\ MINUTES \in Nat /\ MINUTES >= 2
  BY SleepConstants DEF SleepTypeOK, AfterKeys
<1>2. MinutesElapsed(down, interrupt) =
        IF ~MinuteOver(interrupt) THEN AfterKeys(down)
        ELSE IF AfterKeys(down) + 1 = MINUTES THEN 0 ELSE AfterKeys(down) + 1
  BY <1>1, NextMinute DEF MinutesElapsed
<1>3. ASSUME NEW m \in 0 .. (MINUTES - 1)
      PROVE  AfterSetup(m) = IF FallsAsleep(m) THEN m + 1 ELSE m
  BY <1>1, NextMinute DEF AfterSetup, FallsAsleep
<1> QED
  BY <1>1, <1>2, <1>3, SMTT(30)

\* half_ms_counter stays in its two bytes over a refresh.
LEMMA CounterFits ==
  ASSUME SleepTypeOK, NEW interrupt \in Moment
  PROVE  (IF SecondOver(interrupt) THEN Cleared(interrupt) ELSE Counted(interrupt))
         \in 0 .. (BYTE * BYTE - 1)
<1>1. half_ms_counter \in Nat
  BY SleepConstants DEF SleepTypeOK
<1>2. ~SecondOver(interrupt) => half_ms_counter < SECOND
  BY <1>1, TornBytes, SleepConstants, SMTT(30) DEF SecondOver
<1>3. Counted(interrupt) \in half_ms_counter .. (half_ms_counter + 1)
  BY <1>1 DEF Counted
<1> QED
  BY <1>1, <1>2, <1>3, TornBytes, SleepConstants, SMTT(30)

\* Every step keeps the types.
LEMMA SleepTypeStep == SleepTypeOK /\ [SleepNext]_sleepVars => SleepTypeOK'
<1> SUFFICES ASSUME SleepTypeOK, [SleepNext]_sleepVars PROVE SleepTypeOK'
  OBVIOUS
<1> USE SleepConstants DEF SleepTypeOK
<1>0. Wait(idle) \in 0..MAX_IDLE
  BY DEF Wait
<1>1. CASE TIMER1_OVF_vect
  <2>1. (half_ms_counter + 1) % (BYTE * BYTE) \in 0 .. (BYTE * BYTE - 1)
    OBVIOUS
  <2> QED
    BY <1>0, <1>1, <2>1 DEF TIMER1_OVF_vect
<1>2. CASE KeyDown
  BY <1>2 DEF KeyDown
<1>3. ASSUME NEW t \in SleepTime, ReceiveSleepTime(t) PROVE SleepTypeOK'
  <2>1. /\ UNCHANGED <<half_ms_counter, one_second_counter, sleep_minute_counter, demo, clean,
                        since, idle>>
        /\ G_EE_SLEEP_TIME' \in SleepTime /\ changes' \in 0..MAX_CHANGES
    BY <1>3 DEF ReceiveSleepTime, counters
  <2>2. steady' \in BOOLEAN /\ touched' \in BOOLEAN
    BY <1>3 DEF ReceiveSleepTime
  <2> QED
    BY <2>1, <2>2
<1>4. ASSUME NEW down \in BOOLEAN, NEW interrupt \in Moment, SleepRefresh(down, interrupt)
      PROVE  SleepTypeOK'
  <2> DEFINE m == MinutesElapsed(down, interrupt)
  <2>1. /\ half_ms_counter' \in 0 .. (BYTE * BYTE - 1)
        /\ since' = 0 /\ changes' = changes /\ G_EE_SLEEP_TIME' = G_EE_SLEEP_TIME
    BY <1>4, CounterFits DEF SleepRefresh
  <2>2. one_second_counter' \in 0 .. (MINUTE - 1)
    BY <1>4 DEF SleepRefresh, MinuteOver
  <2>3. sleep_minute_counter' \in 0 .. (MINUTES - 1)
    <3>1. m \in 0 .. (MINUTES - 1) /\ AfterSetup(m) = (IF FallsAsleep(m) THEN m + 1 ELSE m)
      BY RefreshFacts
    <3>2. AfterSetup(m) \in 0 .. (MINUTES - 1)
      BY <3>1, RefreshFacts, SMTT(30) DEF FallsAsleep
    <3>3. sleep_minute_counter' \in {0, AfterSetup(m), m}
      BY <1>4 DEF SleepRefresh
    <3> QED
      BY <3>1, <3>2, <3>3, SMTT(30)
  <2>4. idle' \in 0..MAX_IDLE
    BY <1>0, <1>4 DEF SleepRefresh
  <2>5. demo' \in BOOLEAN /\ clean' \in BOOLEAN /\ steady' \in BOOLEAN /\ touched' \in BOOLEAN
    BY <1>4 DEF SleepRefresh, ShowsDemo
  <2> QED
    BY <2>1, <2>2, <2>3, <2>4, <2>5, SMTT(30)
<1>5. CASE UNCHANGED sleepVars
  BY <1>5 DEF sleepVars
<1> QED
  BY <1>1, <1>2, <1>3, <1>4, <1>5 DEF SleepNext, RefreshStep

\* An untorn refresh with a second over has seen at least a second.
LEMMA WholeSecond ==
  ASSUME SleepTypeOK, NEW interrupt \in Moment,
         Compared(interrupt) \in {half_ms_counter, Counted(interrupt)},
         SecondOver(interrupt)
  PROVE  Counted(interrupt) >= SECOND
BY SleepConstants DEF SleepTypeOK, SecondOver, Counted

\* What an untorn refresh that finds or makes the device steady does to the minutes:
\* past the first, they are no more than the time without a key.  The minutes m are
\* those before the setup of the demo; at most one of them is that of an earlier setup.
LEMMA MinutesNotAhead ==
  ASSUME TimerInv, NEW down \in BOOLEAN, NEW interrupt \in Moment,
         SleepRefresh(down, interrupt), steady',
         MinutesElapsed(down, interrupt) # 0
  PROVE  \E y \in {MinutesElapsed(down, interrupt) - 1, MinutesElapsed(down, interrupt) - 2} :
           /\ y = MinutesElapsed(down, interrupt) - 2
              => G_EE_SLEEP_TIME # 0 /\ MinutesElapsed(down, interrupt) > G_EE_SLEEP_TIME
           /\ idle' = MAX_IDLE \/
              y * (MINUTE * SECOND)
              + (IF ~SecondOver(interrupt) THEN one_second_counter
                 ELSE IF MinuteOver(interrupt) THEN 0 ELSE one_second_counter + 1) * SECOND
              + half_ms_counter' <= idle'
<1> DEFINE m == MinutesElapsed(down, interrupt)
           m0 == AfterKeys(down)
           s == one_second_counter
           P == MINUTE * SECOND
           x == IF G_EE_SLEEP_TIME # 0 /\ m0 > G_EE_SLEEP_TIME THEN m0 - 2 ELSE m0 - 1
<1>1. /\ Compared(interrupt) \in {half_ms_counter, Counted(interrupt)}
      /\ Cleared(interrupt) = 0 /\ (steady \/ down)
      /\ interrupt = "write" => SecondOver(interrupt)
      /\ half_ms_counter' = IF SecondOver(interrupt) THEN 0 ELSE Counted(interrupt)
      /\ idle' = IF down THEN 0 ELSE IF interrupt = "none" THEN idle ELSE Wait(idle)
  BY DEF SleepRefresh
<1>2. /\ SleepTypeOK /\ NotAhead
      /\ half_ms_counter \in Nat /\ s \in 0 .. (MINUTE - 1) /\ idle \in 0..MAX_IDLE
      /\ SECOND \in Nat /\ MINUTE \in Nat /\ P \in Nat /\ MAX_IDLE \in Nat
      /\ idle' \in 0..MAX_IDLE
  <2>1. SECOND \in Nat /\ MINUTE \in Nat /\ P \in Nat /\ MAX_IDLE \in Nat
    BY SleepConstants
  <2>2. half_ms_counter \in Nat /\ s \in 0 .. (MINUTE - 1) /\ idle \in 0..MAX_IDLE
    BY SleepConstants DEF TimerInv, SleepTypeOK
  <2>3. idle' \in 0..MAX_IDLE
    BY <1>1, <2>1, <2>2 DEF Wait
  <2> QED
    BY <2>1, <2>2, <2>3 DEF TimerInv
<1>3. m0 \in Nat /\ m \in Nat /\ G_EE_SLEEP_TIME \in Nat /\ x \in Int
      /\ m = IF ~MinuteOver(interrupt) THEN m0 ELSE IF m0 + 1 = MINUTES THEN 0 ELSE m0 + 1
  BY <1>2, RefreshFacts, SleepConstants, SMTT(30)
<1>4. m0 # 0 => ~down /\ m0 = sleep_minute_counter
  BY DEF AfterKeys
<1>5. m0 # 0 => idle' = MAX_IDLE \/ x * P + s * SECOND + Counted(interrupt) <= idle'
                \/ (interrupt = "write" /\ x * P + s * SECOND + half_ms_counter <= idle')
  <2> SUFFICES ASSUME m0 # 0, idle' # MAX_IDLE
              PROVE  \/ x * P + s * SECOND + Counted(interrupt) <= idle'
                     \/ (interrupt = "write" /\ x * P + s * SECOND + half_ms_counter <= idle')
    OBVIOUS
  <2>0. idle' = IF interrupt = "none" THEN idle ELSE Wait(idle)
    BY <1>1, <1>4
  <2>1. idle' = (IF interrupt = "none" THEN idle ELSE idle + 1) /\ idle # MAX_IDLE
    <3> HIDE DEF m0, x, P, s
    <3> QED
      BY <1>2, <2>0 DEF Wait
  <2>2. x * P + s * SECOND + half_ms_counter <= idle
    BY <1>1, <1>2, <1>4, <2>1 DEF NotAhead, Elapsed
  <2>3. x * P \in Int /\ s * SECOND \in Int
    BY <1>2, <1>3
  <2> HIDE DEF x, P, m0
  <2> QED
    BY <1>2, <2>1, <2>2, <2>3 DEF Counted, Moment
<1>6. SecondOver(interrupt) => Counted(interrupt) >= SECOND
  BY <1>1, <1>2, WholeSecond
<1>7. /\ Counted(interrupt) \in Nat /\ x * P \in Int /\ s * SECOND \in Int
      /\ (s + 1) * SECOND = s * SECOND + SECOND /\ (x + 1) * P = x * P + P /\ 0 * P = 0
      /\ 0 * SECOND = 0
  BY <1>2, <1>3, Multiples, SMTT(30) DEF Counted
<1>8. interrupt = "write" => Counted(interrupt) = half_ms_counter
  BY DEF Counted
<1> DEFINE Goal(y, s1) ==
      /\ y \in {m - 1, m - 2}
      /\ y = m - 2 => G_EE_SLEEP_TIME # 0 /\ m > G_EE_SLEEP_TIME
      /\ idle' = MAX_IDLE \/ y * P + s1 * SECOND + half_ms_counter' <= idle'
<1>9. CASE ~SecondOver(interrupt)
  <2>1. m = m0 /\ half_ms_counter' = Counted(interrupt) /\ interrupt # "write"
    BY <1>1, <1>3, <1>9 DEF MinuteOver
  <2>2. Goal(x, s)
    BY <1>3, <1>5, <2>1
  <2> QED
    BY <1>9, <2>2
<1>10. CASE SecondOver(interrupt) /\ ~MinuteOver(interrupt)
  <2>1. m = m0 /\ m0 # 0 /\ half_ms_counter' = 0
    BY <1>1, <1>3, <1>10
  <2>2. Goal(x, s + 1)
    <3>1. x \in {m - 1, m - 2} /\ (x = m - 2 => G_EE_SLEEP_TIME # 0 /\ m > G_EE_SLEEP_TIME)
      BY <1>3, <2>1, SMTT(30)
    <3>2. idle' = MAX_IDLE \/ x * P + (s + 1) * SECOND <= idle'
      <4> HIDE DEF x, P, m, m0, s
      <4> QED
        BY <1>2, <1>5, <1>6, <1>7, <1>8, <1>10, <2>1, SMTT(30)
    <3> HIDE DEF x, P, m, m0
    <3> QED
      BY <1>2, <1>7, <2>1, <3>1, <3>2, SMTT(30)
  <2> QED
    BY <1>10, <2>2
<1>11. CASE MinuteOver(interrupt)
  <2>1. /\ SecondOver(interrupt) /\ half_ms_counter' = 0 /\ m = m0 + 1 /\ s + 1 = MINUTE
    BY <1>1, <1>2, <1>3, <1>11, SMTT(30) DEF MinuteOver
  <2>2. CASE m0 = 0
    <3>1. Goal(0, 0)
      BY <1>2, <1>7, <2>1, <2>2, SMTT(30)
    <3> QED
      BY <1>11, <2>1, <3>1
  <2>3. CASE m0 # 0
    <3>1. /\ x + 1 \in {m - 1, m - 2}
          /\ x + 1 = m - 2 => G_EE_SLEEP_TIME # 0 /\ m > G_EE_SLEEP_TIME
      BY <1>3, <2>1, SMTT(30)
    <3>2. s * SECOND + SECOND = P
      BY <1>7, <2>1
    <3>3. Goal(x + 1, 0)
      <4> HIDE DEF x, P, m, m0
      <4> QED
        BY <1>2, <1>5, <1>6, <1>7, <1>8, <2>1, <2>3, <3>1, <3>2, SMTT(30)
    <3> QED
      BY <1>11, <2>1, <3>3
  <2> QED
    BY <2>2, <2>3
<1> QED
  BY <1>9, <1>10, <1>11

\* A refresh keeps the counters from running ahead, and shows the demo only when the
\* time without a key is long enough.
LEMMA RefreshNotAhead ==
  ASSUME TimerInv, NEW down \in BOOLEAN, NEW interrupt \in Moment,
         SleepRefresh(down, interrupt), steady'
  PROVE  /\ NotAhead'
         /\ demo' => idle' >= (G_EE_SLEEP_TIME - 1) * (MINUTE * SECOND)
<1> DEFINE m == MinutesElapsed(down, interrupt)
           t == G_EE_SLEEP_TIME
           P == MINUTE * SECOND
           s1 == IF ~SecondOver(interrupt) THEN one_second_counter
                 ELSE IF MinuteOver(interrupt) THEN 0 ELSE one_second_counter + 1
<1>1. SleepTypeOK /\ SleepTypeOK'
  <2>1. SleepNext
    BY DEF SleepNext, RefreshStep
  <2> QED
    BY <2>1, SleepTypeStep DEF TimerInv
<1>2. /\ m \in 0 .. (MINUTES - 1) /\ t \in 0 .. (MINUTES - 2) /\ MINUTES \in Nat
      /\ AfterSetup(m) = IF t # 0 /\ m = t THEN m + 1 ELSE m
  BY <1>1, RefreshFacts, SleepConstants DEF FallsAsleep
<1>3. /\ P \in Nat /\ SECOND \in Nat /\ MAX_IDLE \in Nat /\ idle' \in 0..MAX_IDLE
      /\ half_ms_counter' \in Nat /\ s1 \in Nat /\ s1 * SECOND \in Nat
      /\ (t - 1) * P <= MAX_IDLE
  <2>1. P \in Nat /\ SECOND \in Nat /\ MAX_IDLE \in Nat
    BY SleepConstants
  <2>2. idle' \in 0..MAX_IDLE /\ half_ms_counter' \in Nat
    BY <1>1, SleepConstants DEF SleepTypeOK
  <2>3. one_second_counter \in Nat
    BY <1>1, SleepConstants DEF SleepTypeOK
  <2>4. s1 \in Nat /\ s1 * SECOND \in Nat
    BY <2>1, <2>3
  <2>5. (t - 1) * P <= MAX_IDLE
    BY <1>1, SleepAssumption DEF SleepTypeOK, SleepAssumption
  <2> QED
    BY <2>1, <2>2, <2>4, <2>5
<1>4. /\ demo' <=> t # 0 /\ AfterSetup(m) > t
      /\ G_EE_SLEEP_TIME' = t
      /\ one_second_counter' = IF down /\ t # 0 THEN 0 ELSE s1
      /\ sleep_minute_counter' = IF down /\ t # 0 THEN 0 ELSE IF t # 0 THEN AfterSetup(m) ELSE m
  BY DEF SleepRefresh, ShowsDemo
<1>5. m = 0 => AfterSetup(m) = 0 /\ ~demo'
  <2> HIDE DEF m
  <2> QED
    BY <1>2, <1>4
<1>6. CASE m = 0
  BY <1>4, <1>5, <1>6 DEF NotAhead
<1>7. CASE m # 0
  <2>1. PICK y \in {m - 1, m - 2} :
           /\ y = m - 2 => t # 0 /\ m > t
           /\ idle' = MAX_IDLE \/ y * P + s1 * SECOND + half_ms_counter' <= idle'
    BY <1>7, MinutesNotAhead
  <2>2. \A a \in Int : a <= y => a * P \in Int /\ y * P \in Int /\ a * P <= y * P
    <3>1. y \in Int
      BY <1>2
    <3> QED
      BY <1>3, <3>1, Multiples
  <2>3. demo' => (t - 1) * P <= idle'
    <3>1. demo' => t - 1 <= y
      <4> HIDE DEF m
      <4> QED
        BY <1>2, <1>4, <2>1, SMTT(30)
    <3>2. t - 1 \in Int
      BY <1>2
    <3>3. demo' => (t - 1) * P \in Int /\ y * P \in Int /\ (t - 1) * P <= y * P
      BY <2>2, <3>1, <3>2
    <3> DEFINE tP == (t - 1) * P
               yP == y * P
               sS == s1 * SECOND
    <3> HIDE DEF tP, yP, sS, P, s1, m
    <3> SUFFICES demo' => tP <= idle'
      BY DEF tP
    <3>4. sS \in Nat /\ (idle' = MAX_IDLE \/ yP + sS + half_ms_counter' <= idle')
      BY <1>3, <2>1 DEF yP, sS
    <3>5. tP <= MAX_IDLE /\ (demo' => tP \in Int /\ yP \in Int /\ tP <= yP)
      BY <1>3, <3>3 DEF tP, yP
    <3> QED
      BY <1>3, <3>4, <3>5
  <2>4. NotAhead'
    <3> SUFFICES ASSUME sleep_minute_counter' # 0, idle' # MAX_IDLE PROVE Elapsed' <= idle'
      BY DEF NotAhead
    <3> DEFINE n == sleep_minute_counter'
               x == IF t # 0 /\ n > t THEN n - 2 ELSE n - 1
    <3>1. ~(down /\ t # 0) /\ one_second_counter' = s1
          /\ n = IF t # 0 THEN AfterSetup(m) ELSE m
      BY <1>4
    <3>2. x \in Int /\ x <= y
      <4> HIDE DEF m
      <4> QED
        BY <1>2, <2>1, <3>1, SMTT(30)
    <3>3. Elapsed' = x * P + s1 * SECOND + half_ms_counter'
      BY <1>4, <3>1 DEF Elapsed
    <3>4. x * P \in Int /\ y * P \in Int /\ x * P <= y * P
      BY <2>2, <3>2
    <3>5. \A a, b, c, h, i \in Int : a <= b /\ b + c + h <= i => a + c + h <= i
      BY SMTT(30)
    <3>6. y * P + s1 * SECOND + half_ms_counter' <= idle'
      BY <2>1
    <3>7. s1 * SECOND \in Int /\ half_ms_counter' \in Int /\ idle' \in Int
      BY <1>3
    <3> HIDE DEF x, P, s1, m, n
    <3>8. x * P + s1 * SECOND + half_ms_counter' <= idle'
      BY <3>4, <3>5, <3>6, <3>7
    <3> QED
      BY <3>3, <3>8
  <2> QED
    BY <2>3, <2>4
<1> QED
  BY <1>6, <1>7

\* A refresh keeps the demo's bookkeeping.
LEMMA RefreshDemo ==
  ASSUME TimerInv, NEW down \in BOOLEAN, NEW interrupt \in Moment,
         SleepRefresh(down, interrupt)
  PROVE  /\ SetupIsMet' /\ DemoPast'
         /\ demo' /\ ~demo /\ changes = 0 => clean'
         /\ demo /\ ~demo' => \/ touched \/ touched'
                              \/ sleep_minute_counter = MINUTES - 1 /\ sleep_minute_counter' = 0
<1> DEFINE m == MinutesElapsed(down, interrupt)
           m0 == AfterKeys(down)
           t == G_EE_SLEEP_TIME
<1>1. /\ m0 \in 0 .. (MINUTES - 1) /\ m \in 0 .. (MINUTES - 1) /\ t \in 0 .. (MINUTES - 2)
      /\ MINUTES \in Nat
      /\ m = IF ~MinuteOver(interrupt) THEN m0 ELSE IF m0 + 1 = MINUTES THEN 0 ELSE m0 + 1
      /\ AfterSetup(m) = IF t # 0 /\ m = t THEN m + 1 ELSE m
  BY RefreshFacts, SleepConstants DEF TimerInv, FallsAsleep
<1>2. /\ G_EE_SLEEP_TIME' = t /\ changes' = changes
      /\ sleep_minute_counter' = IF down /\ t # 0 THEN 0 ELSE IF t # 0 THEN AfterSetup(m) ELSE m
      /\ m0 = IF down THEN 0 ELSE sleep_minute_counter
  BY DEF SleepRefresh, AfterKeys
<1>3. demo' <=> t # 0 /\ AfterSetup(m) > t
  BY DEF SleepRefresh, ShowsDemo
<1>4. clean' <=> (t # 0 /\ m = t) \/ (clean /\ demo)
  BY DEF SleepRefresh, FallsAsleep
<1>5. touched' <=> (touched /\ demo) \/ down
  BY DEF SleepRefresh
<1>6. one_second_counter = 0 => ~MinuteOver(interrupt)
  BY SleepConstants DEF MinuteOver
<1> HIDE DEF m, m0
<1>7. SetupIsMet'
  BY <1>1, <1>2, <1>3, SMTT(30) DEF SetupIsMet
<1>8. DemoPast'
  BY <1>1, <1>2, <1>3, <1>5 DEF DemoPast
<1>9. demo' /\ ~demo /\ changes = 0 => clean'
  BY <1>1, <1>2, <1>3, <1>4, <1>6, SMTT(30) DEF TimerInv, SetupIsMet
<1>10. demo /\ ~demo' => \/ touched \/ touched'
                         \/ sleep_minute_counter = MINUTES - 1 /\ sleep_minute_counter' = 0
  BY <1>1, <1>2, <1>3, <1>5, SMTT(30) DEF TimerInv, DemoPast
<1> QED
  BY <1>7, <1>8, <1>9, <1>10

\* The interrupt counts time for the counters and for the history alike.
LEMMA TimerNotAhead == TimerInv /\ TIMER1_OVF_vect => NotAhead'
<1> SUFFICES ASSUME TimerInv, TIMER1_OVF_vect, steady, sleep_minute_counter # 0, idle' # MAX_IDLE
             PROVE  Elapsed' <= idle'
  BY DEF NotAhead, TIMER1_OVF_vect
<1> DEFINE e == Elapsed - half_ms_counter
<1>1. /\ half_ms_counter \in Nat /\ idle \in 0..MAX_IDLE /\ MAX_IDLE \in Nat
      /\ sleep_minute_counter \in Int /\ G_EE_SLEEP_TIME \in Int
  BY SleepConstants DEF TimerInv, SleepTypeOK
<1>2. idle' = idle + 1 /\ idle # MAX_IDLE
  BY <1>1 DEF TIMER1_OVF_vect, Wait
<1>3. half_ms_counter' \in Nat /\ half_ms_counter' <= half_ms_counter + 1
  <2>1. BYTE * BYTE \in Nat \ {0} /\ half_ms_counter + 1 \in 0 .. (BYTE * BYTE)
    BY SleepConstants DEF TimerInv, SleepTypeOK
  <2>2. CASE half_ms_counter + 1 = BYTE * BYTE
    <3>1. half_ms_counter + 1 = (BYTE * BYTE) * 1 + 0 /\ 0 \in 0 .. (BYTE * BYTE - 1)
      BY <2>1, <2>2
    <3>2. (half_ms_counter + 1) % (BYTE * BYTE) = 0
      BY <2>1, <3>1, Division, SMTT(30)
    <3> QED
      BY <1>1, <3>2 DEF TIMER1_OVF_vect
  <2>3. CASE half_ms_counter + 1 # BYTE * BYTE
    <3>1. /\ half_ms_counter + 1 = (BYTE * BYTE) * 0 + (half_ms_counter + 1)
          /\ half_ms_counter + 1 \in 0 .. (BYTE * BYTE - 1)
      BY <2>1, <2>3
    <3>2. (half_ms_counter + 1) % (BYTE * BYTE) = half_ms_counter + 1
      BY <2>1, <3>1, Division, SMTT(30)
    <3> QED
      BY <1>1, <3>2 DEF TIMER1_OVF_vect
  <2> QED
    BY <2>2, <2>3
<1>4. e \in Int /\ Elapsed = e + half_ms_counter /\ Elapsed' = e + half_ms_counter'
  <2> DEFINE x == IF G_EE_SLEEP_TIME # 0 /\ sleep_minute_counter > G_EE_SLEEP_TIME
                  THEN sleep_minute_counter - 2 ELSE sleep_minute_counter - 1
             f == x * (MINUTE * SECOND) + one_second_counter * SECOND
  <2>1. one_second_counter \in Int /\ MINUTE \in Int /\ SECOND \in Int /\ x \in Int
    BY <1>1, SleepConstants DEF TimerInv, SleepTypeOK
  <2>2. f \in Int
    BY <2>1
  <2>3. Elapsed = f + half_ms_counter /\ Elapsed' = f + half_ms_counter'
    BY DEF Elapsed, TIMER1_OVF_vect
  <2> HIDE DEF f
  <2> QED
    BY <1>1, <1>3, <2>2, <2>3
<1>5. Elapsed <= idle
  BY <1>2 DEF TimerInv, NotAhead
<1>6. \A d, h, k, i \in Int : d + h <= i /\ k <= h + 1 => d + k <= i + 1
  BY SMTT(30)
<1>7. half_ms_counter \in Int /\ half_ms_counter' \in Int /\ idle \in Int
  BY <1>1, <1>3
<1>8. e + half_ms_counter <= idle
  BY <1>4, <1>5
<1> HIDE DEF e
<1>9. e + half_ms_counter' <= idle + 1
  BY <1>3, <1>4, <1>6, <1>7, <1>8
<1> QED
  BY <1>2, <1>4, <1>9

\* Every step preserves the invariant and is one that the two action properties allow.
LEMMA TimerStep ==
  ASSUME TimerInv, [SleepNext]_sleepVars
  PROVE  /\ TimerInv'
         /\ RefreshStep /\ demo' /\ steady'
            => idle' >= (G_EE_SLEEP_TIME - 1) * (MINUTE * SECOND)
         /\ demo' /\ ~demo /\ changes = 0 => clean'
         /\ demo /\ ~demo' => \/ touched \/ touched'
                              \/ sleep_minute_counter = MINUTES - 1 /\ sleep_minute_counter' = 0
<1> DEFINE Kept == NotAhead' /\ SetupIsMet' /\ DemoPast'
<1>0. SleepTypeOK'
  BY SleepTypeStep DEF TimerInv
<1>1. ASSUME TIMER1_OVF_vect PROVE Kept /\ demo' = demo
  <2>1. NotAhead'
    BY <1>1, TimerNotAhead
  <2>2. SetupIsMet' /\ DemoPast' /\ demo' = demo
    BY <1>1 DEF TIMER1_OVF_vect, TimerInv, SetupIsMet, DemoPast
  <2> QED
    BY <2>1, <2>2
<1>2. ASSUME KeyDown PROVE Kept /\ demo' = demo
  <2>1. NotAhead' /\ DemoPast' /\ demo' = demo
    BY <1>2 DEF KeyDown, NotAhead, DemoPast
  <2>2. SetupIsMet'
    <3>1. G_EE_SLEEP_TIME \in Nat
      BY SleepConstants DEF TimerInv, SleepTypeOK
    <3> QED
      BY <1>2, <3>1 DEF KeyDown, SetupIsMet
  <2> QED
    BY <2>1, <2>2
<1>3. ASSUME NEW t \in SleepTime, ReceiveSleepTime(t)
      PROVE  Kept /\ demo' = demo
  <2>1. changes' # 0
    BY <1>3, SleepConstants DEF ReceiveSleepTime, TimerInv, SleepTypeOK
  <2> QED
    BY <1>3, <2>1 DEF ReceiveSleepTime, NotAhead, SetupIsMet, DemoPast
<1>4. ASSUME NEW down \in BOOLEAN, NEW interrupt \in Moment, SleepRefresh(down, interrupt)
      PROVE  /\ Kept
             /\ demo' /\ steady' => idle' >= (G_EE_SLEEP_TIME - 1) * (MINUTE * SECOND)
             /\ demo' /\ ~demo /\ changes = 0 => clean'
             /\ demo /\ ~demo' => \/ touched \/ touched'
                                  \/ sleep_minute_counter = MINUTES - 1 /\ sleep_minute_counter' = 0
  <2>1. ~steady' => NotAhead'
    BY DEF NotAhead
  <2> QED
    BY <1>4, <2>1, RefreshNotAhead, RefreshDemo
<1>5. ASSUME UNCHANGED sleepVars PROVE Kept /\ demo' = demo
  BY <1>5 DEF sleepVars, TimerInv, NotAhead, SetupIsMet, DemoPast, Elapsed
<1>6. RefreshStep /\ demo' /\ steady' => idle' >= (G_EE_SLEEP_TIME - 1) * (MINUTE * SECOND)
  BY <1>4 DEF RefreshStep
<1>7. CASE Kept /\ demo' = demo
  BY <1>0, <1>6, <1>7 DEF TimerInv
<1>8. CASE RefreshStep
  BY <1>0, <1>4, <1>8 DEF TimerInv, RefreshStep
<1> HIDE DEF Kept
<1> QED
  BY <1>1, <1>2, <1>3, <1>5, <1>7, <1>8 DEF SleepNext

\* The timer starts in the invariant.
LEMMA TimerStart == SleepInit => TimerInv
<1> SUFFICES ASSUME SleepInit PROVE TimerInv
  OBVIOUS
<1>1. SleepTypeOK
  <2>1. /\ demo \in BOOLEAN /\ clean \in BOOLEAN /\ steady \in BOOLEAN /\ touched \in BOOLEAN
        /\ G_EE_SLEEP_TIME \in SleepTime
    BY DEF SleepInit
  <2>2. G_EE_SLEEP_TIME \in 0 .. (MINUTES - 1)
    BY <2>1, SleepConstants
  <2> QED
    BY <2>1, <2>2, SleepConstants DEF SleepInit, SleepTypeOK
<1>2. NotAhead /\ DemoPast
  BY DEF SleepInit, NotAhead, DemoPast
<1>3. SetupIsMet
  BY <1>1, SleepConstants DEF SleepInit, SetupIsMet, SleepTypeOK
<1> QED
  BY <1>1, <1>2, <1>3 DEF TimerInv

\* For every length of a second and a minute, every setting and every gap between
\* refreshes: the counters stay in their bytes, and a refresh shows the demo only
\* after G_EE_SLEEP_TIME - 1 whole minutes without a key.
THEOREM SleepsNoSoonerAlways == SleepSpec => SleepsNoSooner
<1>1. TimerInv /\ [SleepNext]_sleepVars
      => TimerInv' /\ [RefreshStep /\ demo' /\ steady' =>
                         idle' >= (G_EE_SLEEP_TIME - 1) * (MINUTE * SECOND)]_sleepVars
  BY TimerStep
<1> QED
  BY <1>1, TimerStart, PTL DEF SleepSpec, SleepsNoSooner

\* Likewise: the demo starts from a grid that ball_demo_setup cleared, and goes on
\* until a key, a new setting or the turn of the minutes.
THEOREM DemoIsWholeAlways == SleepSpec => DemoIsWhole
<1>1. TimerInv /\ [SleepNext]_sleepVars
      => TimerInv' /\ [/\ demo' /\ ~demo /\ changes = 0 => clean'
                       /\ demo /\ ~demo' =>
                            \/ touched \/ touched'
                            \/ sleep_minute_counter = MINUTES - 1 /\ sleep_minute_counter' = 0]_sleepVars
  BY TimerStep
<1> QED
  BY <1>1, TimerStart, PTL DEF SleepSpec, DemoIsWhole

\* A refresh leaves no more than a second in half_ms_counter.
HalfBound == half_ms_counter <= SECOND + since

\* Since a key the minutes reach the setting only with the demo on show.
Awake == steady /\ G_EE_SLEEP_TIME # 0 /\ ~demo => sleep_minute_counter < G_EE_SLEEP_TIME

\* The longest time that the counters can stand for.
AtMost == (sleep_minute_counter * MINUTE + one_second_counter) * SlowSecond + half_ms_counter

\* Since a key, the counters do not fall behind time by more than REFRESH_GAP a second,
\* unless torn, until the minutes turn through 0.
LongIdle(i) == i = MAX_IDLE \/ i >= (MINUTES - 3) * (MINUTE * SECOND)
NotBehind == steady /\ G_EE_SLEEP_TIME # 0 => LongIdle(idle) \/ idle <= AtMost

LateInv == HalfBound /\ Awake /\ NotBehind

LEMMA SlowConstants ==
  /\ BYTE <= SECOND /\ SECOND + REFRESH_GAP < BYTE * BYTE
  /\ SlowSecond \in Nat /\ MINUTE * SECOND \in Nat /\ (MINUTES - 3) * (MINUTE * SECOND) \in Int
<1>1. BYTE <= SECOND /\ SECOND + REFRESH_GAP < BYTE * BYTE
  BY SleepAssumption
<1>2. MINUTE * SECOND \in Nat /\ SlowSecond \in Nat /\ MINUTES - 3 \in Int
  BY SleepConstants DEF SlowSecond
<1> QED
  BY <1>1, <1>2, Multiples

\* The interrupt does not find half_ms_counter at its end, so that it counts one more.
LEMMA TimerCounts ==
  ASSUME SleepTypeOK, HalfBound, TIMER1_OVF_vect
  PROVE  half_ms_counter' = half_ms_counter + 1
<1>1. /\ half_ms_counter \in Nat /\ since \in Nat /\ since < REFRESH_GAP
      /\ half_ms_counter' = (half_ms_counter + 1) % (BYTE * BYTE)
  BY SleepConstants DEF TIMER1_OVF_vect, SleepTypeOK
<1>2. half_ms_counter + 1 < BYTE * BYTE /\ BYTE * BYTE \in Nat \ {0}
  BY <1>1, SlowConstants, SleepConstants DEF HalfBound
<1>3. /\ half_ms_counter + 1 = (BYTE * BYTE) * 0 + (half_ms_counter + 1)
      /\ half_ms_counter + 1 \in 0 .. (BYTE * BYTE - 1)
  BY <1>1, <1>2
<1> QED
  BY <1>1, <1>2, <1>3, Division, SMTT(30)

\* The counter of half milliseconds, by what a step does to it.
LEMMA HalfStep ==
  SleepTypeOK /\ HalfBound /\ SleepNext => HalfBound'
<1> SUFFICES ASSUME SleepTypeOK, HalfBound, SleepNext PROVE HalfBound'
  OBVIOUS
<1>0. half_ms_counter \in Nat /\ since \in 0..REFRESH_GAP /\ SECOND \in Nat /\ REFRESH_GAP \in Nat
  BY SleepConstants DEF SleepTypeOK
<1>1. CASE TIMER1_OVF_vect
  <2>1. since' = since + 1 /\ half_ms_counter' = half_ms_counter + 1
    BY <1>1, TimerCounts DEF TIMER1_OVF_vect
  <2> QED
    BY <1>0, <2>1 DEF HalfBound
<1>2. CASE KeyDown \/ \E t \in SleepTime : ReceiveSleepTime(t)
  <2>1. UNCHANGED <<half_ms_counter, since>>
    BY <1>2 DEF KeyDown, ReceiveSleepTime, counters
  <2> QED
    BY <2>1 DEF HalfBound
<1>3. ASSUME NEW down \in BOOLEAN, NEW interrupt \in Moment, SleepRefresh(down, interrupt)
      PROVE  HalfBound'
  <2>1. /\ since' = 0
        /\ half_ms_counter' = IF SecondOver(interrupt) THEN Cleared(interrupt)
                              ELSE Counted(interrupt)
    BY <1>3 DEF SleepRefresh
  <2>2. CASE SecondOver(interrupt)
    <3>1. half_ms_counter' \in {0, BYTE}
      BY <2>1, <2>2, TornBytes
    <3> QED
      BY <1>0, <2>1, <3>1, SlowConstants, SleepConstants, SMTT(30) DEF HalfBound
  <2>3. CASE ~SecondOver(interrupt)
    <3>1. half_ms_counter < SECOND
      BY <1>0, <2>3, TornBytes, SleepConstants, SMTT(30) DEF SecondOver
    <3>2. half_ms_counter' = half_ms_counter \/ half_ms_counter' = half_ms_counter + 1
      BY <2>1, <2>3 DEF Counted
    <3> QED
      BY <1>0, <2>1, <3>1, <3>2, SMTT(30) DEF HalfBound
  <2> QED
    BY <2>2, <2>3
<1> QED
  BY <1>1, <1>2, <1>3 DEF SleepNext, RefreshStep

LEMMA AwakeStep ==
  SleepTypeOK /\ Awake /\ SleepNext => Awake'
<1> SUFFICES ASSUME SleepTypeOK, Awake, SleepNext PROVE Awake'
  OBVIOUS
<1>0. sleep_minute_counter \in Nat /\ G_EE_SLEEP_TIME \in Nat
  BY SleepConstants DEF SleepTypeOK
<1>1. CASE TIMER1_OVF_vect
  BY <1>1 DEF TIMER1_OVF_vect, Awake
<1>2. CASE KeyDown
  <2>1. sleep_minute_counter' = 0 /\ G_EE_SLEEP_TIME' = G_EE_SLEEP_TIME
    BY <1>2 DEF KeyDown
  <2> QED
    BY <1>0, <2>1 DEF Awake
<1>3. CASE \E t \in SleepTime : ReceiveSleepTime(t)
  BY <1>3 DEF ReceiveSleepTime, Awake
<1>4. ASSUME NEW down \in BOOLEAN, NEW interrupt \in Moment, SleepRefresh(down, interrupt)
      PROVE  Awake'
  <2> DEFINE m == MinutesElapsed(down, interrupt)
             t == G_EE_SLEEP_TIME
  <2>1. /\ m \in 0 .. (MINUTES - 1) /\ MINUTES \in Nat
        /\ AfterSetup(m) = IF t # 0 /\ m = t THEN m + 1 ELSE m
    BY RefreshFacts, SleepConstants DEF FallsAsleep
  <2>2. /\ demo' <=> t # 0 /\ AfterSetup(m) > t
        /\ G_EE_SLEEP_TIME' = t
        /\ sleep_minute_counter' = IF down /\ t # 0 THEN 0 ELSE IF t # 0 THEN AfterSetup(m) ELSE m
    BY <1>4 DEF SleepRefresh, ShowsDemo
  <2> HIDE DEF m
  <2> QED
    BY <1>0, <2>1, <2>2, SMTT(30) DEF Awake
<1> QED
  BY <1>1, <1>2, <1>3, <1>4 DEF SleepNext, RefreshStep

\* A long time without a key stays long, and a short one grows by one at most.
LEMMA IdleGrows ==
  ASSUME NEW i \in 0..MAX_IDLE
  PROVE  /\ LongIdle(i) => LongIdle(Wait(i))
         /\ Wait(i) \in Nat /\ Wait(i) <= i + 1 /\ i <= Wait(i)
<1>1. MAX_IDLE \in Nat /\ (MINUTES - 3) * (MINUTE * SECOND) \in Int
  BY SlowConstants, SleepConstants
<1> DEFINE w == (MINUTES - 3) * (MINUTE * SECOND)
<1>2. w \in Int /\ (LongIdle(i) <=> i = MAX_IDLE \/ i >= w)
      /\ (LongIdle(Wait(i)) <=> Wait(i) = MAX_IDLE \/ Wait(i) >= w)
  BY <1>1 DEF LongIdle
<1> HIDE DEF w
<1> QED
  BY <1>1, <1>2 DEF Wait

LEMMA LateTimer ==
  ASSUME SleepTypeOK, HalfBound, NotBehind, TIMER1_OVF_vect
  PROVE  NotBehind'
<1> DEFINE k == (sleep_minute_counter * MINUTE + one_second_counter) * SlowSecond
<1>1. half_ms_counter \in Nat /\ idle \in 0..MAX_IDLE /\ k \in Int
  <2>1. sleep_minute_counter \in Nat /\ one_second_counter \in Nat /\ MINUTE \in Nat
    BY SleepConstants DEF SleepTypeOK
  <2>2. sleep_minute_counter * MINUTE + one_second_counter \in Nat
    BY <2>1
  <2> QED
    BY <2>2, Multiples, SlowConstants, SleepConstants, SMTT(30) DEF SleepTypeOK
<1>2. half_ms_counter' = half_ms_counter + 1
  BY TimerCounts
<1>3. /\ idle' = Wait(idle)
      /\ UNCHANGED <<steady, G_EE_SLEEP_TIME, sleep_minute_counter, one_second_counter>>
  BY DEF TIMER1_OVF_vect
<1>4. AtMost = k + half_ms_counter /\ AtMost' = k + half_ms_counter'
  BY <1>3 DEF AtMost
<1> HIDE DEF k
<1>5. idle <= AtMost => Wait(idle) <= AtMost'
  BY <1>1, <1>2, <1>4, IdleGrows
<1>6. LongIdle(idle) => LongIdle(Wait(idle))
  BY <1>1, IdleGrows
<1> QED
  BY <1>3, <1>5, <1>6 DEF NotBehind, LongIdle

\* Minutes that turn through 0 come long after the key.
LEMMA LateTurn ==
  ASSUME TimerInv, steady, G_EE_SLEEP_TIME # 0, sleep_minute_counter + 1 = MINUTES
  PROVE  LongIdle(idle)
<1> DEFINE w == (MINUTES - 3) * (MINUTE * SECOND)
           r == one_second_counter * SECOND
<1>1. /\ G_EE_SLEEP_TIME \in 0 .. (MINUTES - 2) /\ sleep_minute_counter \in Nat /\ MINUTES \in Nat
      /\ MINUTES >= 2 /\ one_second_counter \in Nat /\ half_ms_counter \in Nat /\ idle \in Nat
      /\ SECOND \in Nat
  BY SleepConstants DEF TimerInv, SleepTypeOK
<1>2. /\ sleep_minute_counter # 0 /\ sleep_minute_counter > G_EE_SLEEP_TIME
      /\ sleep_minute_counter - 2 = MINUTES - 3
  BY <1>1
<1>3. w \in Int /\ r \in Nat
  BY <1>1, SlowConstants, SMTT(30)
<1>4. Elapsed = w + r + half_ms_counter
  BY <1>2 DEF Elapsed
<1>5. idle = MAX_IDLE \/ Elapsed <= idle
  BY <1>2 DEF TimerInv, NotAhead
<1> SUFFICES idle = MAX_IDLE \/ idle >= w
  BY DEF LongIdle
<1> HIDE DEF w, r
<1> QED
  BY <1>1, <1>3, <1>4, <1>5, SMTT(30)

\* A refresh that finds a second over counts it, one that does not counts the time on.
LEMMA LateRefresh ==
  ASSUME TimerInv, HalfBound, NotBehind, NEW down \in BOOLEAN, NEW interrupt \in Moment,
         SleepRefresh(down, interrupt)
  PROVE  NotBehind'
<1> SUFFICES ASSUME steady', G_EE_SLEEP_TIME' # 0, ~LongIdle(idle') PROVE idle' <= AtMost'
  BY DEF NotBehind, LongIdle
<1> DEFINE m == MinutesElapsed(down, interrupt)
           over == SecondOver(interrupt)
           s == one_second_counter
           s1 == IF ~over THEN s ELSE IF MinuteOver(interrupt) THEN 0 ELSE s + 1
           n == IF down THEN 0 ELSE AfterSetup(m)
           s2 == IF down THEN 0 ELSE s1
           c0 == sleep_minute_counter * MINUTE + s
           c1 == n * MINUTE + s2
<1>1. /\ Cleared(interrupt) = 0 /\ (steady \/ down) /\ G_EE_SLEEP_TIME # 0
      /\ interrupt = "write" => over
      /\ half_ms_counter' = IF over THEN 0 ELSE Counted(interrupt)
      /\ idle' = IF down THEN 0 ELSE IF interrupt = "none" THEN idle ELSE Wait(idle)
      /\ one_second_counter' = s2 /\ sleep_minute_counter' = n
  BY DEF SleepRefresh
<1>2. /\ SleepTypeOK /\ half_ms_counter \in Nat /\ s \in 0 .. (MINUTE - 1) /\ idle \in 0..MAX_IDLE
      /\ sleep_minute_counter \in Nat /\ MINUTE \in Nat /\ SlowSecond \in Nat /\ MINUTES \in Nat
      /\ half_ms_counter + 1 <= SlowSecond
  <2>1. since \in 0..REFRESH_GAP /\ half_ms_counter \in Nat
    BY SleepConstants DEF TimerInv, SleepTypeOK
  <2>2. half_ms_counter + 1 <= SlowSecond
    BY <2>1, SleepConstants DEF HalfBound, SlowSecond
  <2> QED
    BY <2>1, <2>2, SlowConstants, SleepConstants, SMTT(30) DEF TimerInv, SleepTypeOK
<1>3. /\ m \in Nat /\ AfterSetup(m) \in Nat /\ m <= AfterSetup(m)
      /\ m = IF ~MinuteOver(interrupt) THEN AfterKeys(down)
             ELSE IF AfterKeys(down) + 1 = MINUTES THEN 0 ELSE AfterKeys(down) + 1
  <2>1. /\ m \in 0 .. (MINUTES - 1)
        /\ AfterSetup(m) = IF FallsAsleep(m) THEN m + 1 ELSE m
        /\ m = IF ~MinuteOver(interrupt) THEN AfterKeys(down)
               ELSE IF AfterKeys(down) + 1 = MINUTES THEN 0 ELSE AfterKeys(down) + 1
    BY <1>2, RefreshFacts
  <2> HIDE DEF m
  <2> QED
    BY <1>2, <2>1
<1>4. n \in Nat /\ s2 \in Nat /\ c0 \in Nat /\ c1 \in Nat /\ Counted(interrupt) \in Nat
  <2>1. n \in Nat /\ s2 \in Nat
    BY <1>2, <1>3
  <2> QED
    BY <1>2, <2>1 DEF Counted
<1>5. AtMost' = c1 * SlowSecond + half_ms_counter'
  BY <1>1 DEF AtMost
<1>6. CASE down
  <2>1. idle' = 0 /\ half_ms_counter' \in Nat /\ c1 * SlowSecond \in Nat
    <3> HIDE DEF c1, over
    <3> QED
      BY <1>1, <1>2, <1>4, <1>6, SMTT(30)
  <2> HIDE DEF c1
  <2> QED
    BY <1>5, <2>1
<1>7. CASE ~down
  <2>1. steady /\ AfterKeys(down) = sleep_minute_counter /\ n = AfterSetup(m) /\ s2 = s1
        /\ idle' = IF interrupt = "none" THEN idle ELSE Wait(idle)
    BY <1>1, <1>7 DEF AfterKeys
  <2>2. ~LongIdle(idle)
    <3>1. LongIdle(idle) => LongIdle(Wait(idle))
      BY <1>2, IdleGrows
    <3> QED
      BY <2>1, <3>1
  <2>3. idle <= c0 * SlowSecond + half_ms_counter
    BY <1>1, <2>1, <2>2 DEF NotBehind, AtMost
  <2>4. sleep_minute_counter + 1 # MINUTES
    BY <1>1, <2>1, <2>2, LateTurn
  <2>5. IF over THEN c0 + 1 <= c1 ELSE c0 <= c1
    <3>1. /\ m = IF ~MinuteOver(interrupt) THEN sleep_minute_counter ELSE sleep_minute_counter + 1
          /\ MinuteOver(interrupt) => over /\ s + 1 = MINUTE
      BY <1>2, <1>3, <2>1, <2>4, SMTT(30) DEF MinuteOver
    <3>2. /\ n * MINUTE >= m * MINUTE /\ n * MINUTE \in Int /\ m * MINUTE \in Int
          /\ sleep_minute_counter * MINUTE \in Int
          /\ (sleep_minute_counter + 1) * MINUTE = sleep_minute_counter * MINUTE + MINUTE
      <4> HIDE DEF m, n
      <4> QED
        BY <1>2, <1>3, <1>4, <2>1, Multiples, SMTT(30)
    <3> DEFINE nM == n * MINUTE
               mM == m * MINUTE
               kM == sleep_minute_counter * MINUTE
    <3>3. /\ c0 = kM + s /\ c1 = nM + s1 /\ nM >= mM /\ nM \in Int /\ mM \in Int /\ kM \in Int
          /\ mM = IF ~MinuteOver(interrupt) THEN kM ELSE kM + MINUTE
      BY <2>1, <3>1, <3>2
    <3> HIDE DEF c0, c1, nM, mM, kM, m, n, over, s2
    <3> QED
      BY <1>2, <3>1, <3>3, SMTT(30)
  <2>6. idle' \in Int /\ idle' <= (IF interrupt = "none" THEN idle ELSE idle + 1)
    BY <1>2, <2>1, IdleGrows
  <2>7. /\ c0 * SlowSecond \in Int /\ c1 * SlowSecond \in Int
        /\ (c0 + 1) * SlowSecond = c0 * SlowSecond + SlowSecond
        /\ c0 <= c1 => c0 * SlowSecond <= c1 * SlowSecond
        /\ c0 + 1 <= c1 => (c0 + 1) * SlowSecond <= c1 * SlowSecond
    <3> HIDE DEF c0, c1
    <3> QED
      BY <1>2, <1>4, Multiples, SMTT(30)
  <2> DEFINE a == c0 * SlowSecond
             b == c1 * SlowSecond
  <2>8. /\ a \in Int /\ b \in Int /\ idle <= a + half_ms_counter
        /\ IF over THEN a + SlowSecond <= b ELSE a <= b
        /\ AtMost' = b + half_ms_counter'
    <3> HIDE DEF c0, c1, over
    <3> QED
      BY <1>5, <2>3, <2>5, <2>7
  <2> HIDE DEF a, b, c0, c1
  <2>9. PICK i \in Int : i = idle'
    BY <2>6
  <2>10. i <= (IF interrupt = "none" THEN idle ELSE idle + 1)
    BY <2>6, <2>9
  <2>11. i <= b + (IF over THEN 0 ELSE Counted(interrupt))
    <3> HIDE DEF over
    <3> QED
      BY <1>1, <1>2, <2>8, <2>10, SMTT(30) DEF Counted, Moment
  <2> QED
    BY <1>1, <2>8, <2>9, <2>11
<1> QED
  BY <1>6, <1>7

LEMMA LateStep == TimerInv /\ LateInv /\ [SleepNext]_sleepVars => LateInv'
<1> SUFFICES ASSUME TimerInv, LateInv, [SleepNext]_sleepVars PROVE LateInv'
  OBVIOUS
<1>0. SleepTypeOK /\ HalfBound /\ Awake /\ NotBehind
  BY DEF TimerInv, LateInv
<1>1. CASE UNCHANGED sleepVars
  BY <1>0, <1>1 DEF LateInv, HalfBound, Awake, NotBehind, LongIdle, AtMost, sleepVars
<1>2. ASSUME KeyDown PROVE NotBehind'
  <2>1. idle' = 0 /\ sleep_minute_counter' = 0 /\ UNCHANGED <<one_second_counter, half_ms_counter>>
    BY <1>2 DEF KeyDown
  <2>2. one_second_counter \in Nat /\ half_ms_counter \in Nat /\ MINUTE \in Nat /\ SlowSecond \in Nat
    BY <1>0, SleepConstants, SlowConstants, SMTT(30) DEF SleepTypeOK
  <2>3. 0 <= (0 * MINUTE + one_second_counter) * SlowSecond + half_ms_counter
    BY <2>2
  <2> QED
    BY <2>1, <2>3 DEF NotBehind, AtMost
<1>3. ASSUME NEW t \in SleepTime, ReceiveSleepTime(t) PROVE NotBehind'
  BY <1>3 DEF ReceiveSleepTime, NotBehind
<1>4. SleepNext => NotBehind'
  BY <1>0, <1>2, <1>3, LateTimer, LateRefresh DEF SleepNext, RefreshStep
<1> QED
  BY <1>0, <1>1, <1>4, HalfStep, AwakeStep DEF LateInv

LEMMA LateStart == SleepInit => LateInv
<1> SUFFICES ASSUME SleepInit PROVE LateInv
  OBVIOUS
<1>1. half_ms_counter = 0 /\ since = 0 /\ ~steady
  BY DEF SleepInit
<1> QED
  BY <1>1, SleepConstants DEF LateInv, HalfBound, Awake, NotBehind

\* Awake, the minutes are below the setting, and the time without a key below that.
LEMMA LateImplies == SleepTypeOK /\ LateInv => SleepsNoLater
<1> SUFFICES ASSUME SleepTypeOK, LateInv PROVE SleepsNoLater
  OBVIOUS
<1> SUFFICES ASSUME steady, G_EE_SLEEP_TIME # 0, ~demo, ~LongIdle(idle)
             PROVE  idle < G_EE_SLEEP_TIME * (MINUTE * SlowSecond)
  <2>1. idle \in Nat /\ MAX_IDLE \in Nat /\ (MINUTES - 3) * (MINUTE * SECOND) \in Int
    BY SlowConstants, SleepConstants DEF SleepTypeOK
  <2>2. G_EE_SLEEP_TIME * (MINUTE * SlowSecond) \in Int
    BY SlowConstants, SleepConstants DEF SleepTypeOK
  <2> DEFINE w == (MINUTES - 3) * (MINUTE * SECOND)
             g == G_EE_SLEEP_TIME * (MINUTE * SlowSecond)
  <2>3. w \in Int /\ g \in Int
    BY <2>1, <2>2
  <2>4. (LongIdle(idle) <=> idle = MAX_IDLE \/ idle >= w)
    BY DEF LongIdle
  <2>5. SleepsNoLater <=> (steady /\ G_EE_SLEEP_TIME # 0 /\ g <= idle
                           /\ idle < MAX_IDLE /\ idle < w => demo)
    BY DEF SleepsNoLater
  <2>6. steady /\ G_EE_SLEEP_TIME # 0 /\ ~demo /\ ~LongIdle(idle) => idle < g
    OBVIOUS
  <2> HIDE DEF w, g
  <2>7. idle < g => ~(g <= idle)
    BY <2>1, <2>3, SMTT(30)
  <2>8. idle < MAX_IDLE /\ idle < w => ~(idle = MAX_IDLE \/ idle >= w)
    BY <2>1, <2>3, SMTT(30)
  <2> QED
    BY <2>4, <2>5, <2>6, <2>7, <2>8
<1> DEFINE k == sleep_minute_counter
           s == one_second_counter
           t == G_EE_SLEEP_TIME
           c == k * MINUTE + s
<1>1. /\ k \in Nat /\ s \in 0 .. (MINUTE - 1) /\ t \in Nat /\ idle \in Nat /\ half_ms_counter \in Nat
      /\ MINUTE \in Nat /\ SlowSecond \in Nat /\ half_ms_counter < SlowSecond
  <2>1. half_ms_counter \in Nat /\ since \in 0..REFRESH_GAP
    BY SleepConstants DEF SleepTypeOK
  <2>2. half_ms_counter < SlowSecond
    BY <2>1, SleepConstants DEF LateInv, HalfBound, SlowSecond
  <2> QED
    BY <2>1, <2>2, SlowConstants, SleepConstants, SMTT(30) DEF SleepTypeOK
<1>2. k + 1 <= t
  BY <1>1 DEF LateInv, Awake
<1>3. idle <= c * SlowSecond + half_ms_counter
  BY DEF LateInv, NotBehind, AtMost
<1>4. c \in Int /\ c + 1 <= t * MINUTE /\ t * MINUTE \in Int
  <2>1. /\ (k + 1) * MINUTE <= t * MINUTE /\ (k + 1) * MINUTE = k * MINUTE + MINUTE
        /\ k * MINUTE \in Int /\ t * MINUTE \in Int
    BY <1>1, <1>2, Multiples, SMTT(30)
  <2> QED
    BY <1>1, <2>1
<1>5. /\ c * SlowSecond \in Int /\ (c + 1) * SlowSecond = c * SlowSecond + SlowSecond
      /\ (c + 1) * SlowSecond <= (t * MINUTE) * SlowSecond
  <2> HIDE DEF c
  <2> QED
    BY <1>1, <1>4, Multiples, SMTT(30)
<1>6. (t * MINUTE) * SlowSecond = t * (MINUTE * SlowSecond) /\ t * (MINUTE * SlowSecond) \in Int
  BY <1>1
<1> DEFINE x == c * SlowSecond
           y == t * (MINUTE * SlowSecond)
<1>7. x \in Int /\ y \in Int /\ x + SlowSecond <= y /\ idle <= x + half_ms_counter
  BY <1>3, <1>5, <1>6
<1> HIDE DEF x, y
<1>8. idle < y
  BY <1>1, <1>7, SMTT(30)
<1> QED
  BY <1>8 DEF y

\* For every length of a second and a minute, every setting and every gap between
\* refreshes: a device left alone for G_EE_SLEEP_TIME slow minutes shows the demo.
THEOREM SleepsNoLaterAlways == SleepSpec => []SleepsNoLater
<1>1. TimerInv /\ LateInv /\ [SleepNext]_sleepVars => TimerInv' /\ LateInv'
  BY TimerStep, LateStep
<1>2. TimerInv /\ LateInv => SleepsNoLater
  BY LateImplies DEF TimerInv
<1> QED
  BY <1>1, <1>2, TimerStart, LateStart, PTL DEF SleepSpec

----------------------------------------------------------------------------
(* The animations.                                                         *)

\* A bounded set of naturals has a greatest element.
LEMMA Greatest ==
  ASSUME NEW n \in Nat, NEW T, T \subseteq 0..n, T # {}
  PROVE  Max(T) \in T /\ \A y \in T : y <= Max(T)
<1> DEFINE Below == {n - t : t \in T}
<1>1. Below \subseteq Nat /\ Below # {}
  <2>1. \A t \in T : n - t \in Nat
    OBVIOUS
  <2> QED
    BY <2>1
<1>2. PICK x \in Below : \A y \in Below : ~(<<y, x>> \in OpToRel(<, Nat))
  BY <1>1, NatLessThanWellFounded, WFMin
<1>3. ASSUME NEW y \in Below PROVE y >= x
  <2>1. y \in Nat /\ x \in Nat
    BY <1>1
  <2>2. y < x => <<y, x>> \in OpToRel(<, Nat)
    BY <2>1 DEF OpToRel
  <2>3. ~(y < x)
    BY <1>2, <2>2
  <2> QED
    BY <2>1, <2>3
<1>4. PICK t \in T : x = n - t
  OBVIOUS
<1>5. ASSUME NEW y \in T PROVE t >= y
  <2>1. n - y \in Below
    OBVIOUS
  <2>2. n - y >= n - t
    BY <1>3, <1>4, <2>1
  <2>3. n \in Int /\ y \in Int /\ t \in Int
    BY SMTT(30)
  <2> QED
    BY <2>2, <2>3, SMTT(30)
<1>6. Max(T) \in T /\ \A y \in T : Max(T) >= y
  BY <1>5 DEF Max
<1> QED
  BY <1>6

\* Remainders by the number of slots.
LEMMA Remainders ==
  ASSUME NEW n \in Nat \ {0}, NEW a \in Nat, NEW b \in Nat
  PROVE  /\ a % n \in 0 .. (n - 1)
         /\ ((a % n) + b) % n = (a + b) % n
         /\ (a + n) % n = a % n
         /\ a % n = b % n /\ a > b => a >= b + n
<1> DEFINE q == a \div n
           r == a % n
           p == b \div n
           s == b % n
           c == (r + b) \div n
           t == (r + b) % n
<1>1. q \in Nat /\ r \in 0 .. (n - 1) /\ a = n * q + r /\ n * q \in Nat
  OBVIOUS
<1>2. p \in Nat /\ s \in 0 .. (n - 1) /\ b = n * p + s /\ n * p \in Nat
  OBVIOUS
<1>3. r + b \in Nat
  BY <1>1
<1> HIDE DEF q, r, p, s
<1>4. c \in Nat /\ t \in 0 .. (n - 1) /\ r + b = n * c + t /\ n * c \in Nat
  BY <1>3
<1> HIDE DEF c, t
<1>5. (a + b) % n = t
  <2>1. n * (q + c) = n * q + n * c /\ q + c \in Nat
    BY <1>1, <1>4, SMTT(30)
  <2>2. a + b = n * (q + c) + t
    BY <1>1, <1>4, <2>1, SMTT(30)
  <2>3. a + b \in Nat /\ n \in Nat \ {0}
    OBVIOUS
  <2> HIDE DEF t
  <2> QED
    BY <1>4, <2>1, <2>2, <2>3, Division
<1>6. (a + n) % n = r
  <2>1. n * (q + 1) = n * q + n /\ q + 1 \in Nat
    BY <1>1
  <2>2. a + n = n * (q + 1) + r
    BY <1>1, <2>1
  <2> QED
    BY <1>1, <2>1, <2>2, Division, SMTT(30)
<1>7. ASSUME r = s, a > b PROVE a >= b + n
  <2>1. ~(q <= p)
    <3>1. ASSUME q < p PROVE FALSE
      BY <1>1, <1>2, <1>7, <3>1, Monotonic, SMTT(30)
    <3>2. q # p
      BY <1>1, <1>2, <1>7
    <3> QED
      BY <1>1, <1>2, <3>1, <3>2
  <2>2. n * p + n <= n * q
    BY <1>1, <1>2, <2>1, Monotonic, SMTT(30)
  <2> QED
    BY <1>1, <1>2, <1>7, <2>2
<1> QED
  BY <1>1, <1>5, <1>6, <1>7 DEF q, r, p, s, c, t

\* The places of the notes count them off from 1.
LEMMA NotesAreFinite ==
  IsFiniteSet(Notes) /\ Cardinality(Notes) \in Nat
<1>1. KEYS \in Nat /\ 2 * KEYS - 1 \in Int
  BY AnimAssumption DEF AnimAssumption
<1>2. IsFiniteSet(AnimId)
  BY <1>1, FS_Interval DEF AnimId
<1>3. Notes \in SUBSET AnimId
  BY DEF Notes
<1> QED
  BY <1>2, <1>3, FS_Subset, FS_CardinalityType

LEMMA AskedAreNotes ==
  \A n \in 1..Cardinality(Notes) : Asked[n] \in Notes
<1> DEFINE Upto(id) == {other \in Notes : other <= id}
           f == [id \in Notes |-> Place(id)]
           m == Cardinality(Notes)
<1>0. m \in Nat /\ IsFiniteSet(Notes)
  BY NotesAreFinite
<1>1. \A id \in Notes : id \in Int
  BY AnimAssumption DEF Notes, AnimId, AnimAssumption
<1>2. ASSUME NEW id \in Notes PROVE IsFiniteSet(Upto(id)) /\ Place(id) \in 1..m
  <2>1. Upto(id) \in SUBSET Notes /\ id \in Upto(id)
    BY <1>1
  <2>2. IsFiniteSet(Upto(id)) /\ Cardinality(Upto(id)) <= m
    BY <1>0, <2>1, FS_Subset
  <2>3. Cardinality(Upto(id)) \in Nat /\ Cardinality(Upto(id)) # 0
    BY <2>1, <2>2, FS_CardinalityType, FS_EmptySet
  <2>4. Cardinality(Upto(id)) \in 1..m
    BY <1>0, <2>2, <2>3
  <2> QED
    BY <2>2, <2>4 DEF Place
<1>3. ASSUME NEW x \in Notes, NEW y \in Notes, x < y PROVE Place(x) # Place(y)
  <2>1. Upto(x) \in SUBSET Upto(y) /\ y \in Upto(y) /\ y \notin Upto(x)
    BY <1>1, <1>3
  <2>2. Cardinality(Upto(x)) # Cardinality(Upto(y))
    BY <1>2, <2>1, FS_Subset
  <2> QED
    BY <2>2 DEF Place
<1>4. f \in Injection(Notes, 1..m)
  <2>1. f \in [Notes -> 1..m]
    BY <1>2
  <2>2. \A x, y \in Notes : f[x] = f[y] => x = y
    BY <1>1, <1>3, SMTT(30)
  <2> QED
    BY <2>1, <2>2 DEF Injection, IsInjective
<1>5. IsFiniteSet(1..m) /\ Cardinality(1..m) = m
  BY <1>0, FS_Interval, SMTT(30)
<1>6. f \in Surjection(Notes, 1..m)
  BY <1>4, <1>5, FS_Injection
<1>7. ASSUME NEW n \in 1..m PROVE Asked[n] \in Notes
  <2>1. \E id \in Notes : Place(id) = n
    BY <1>6 DEF Surjection
  <2>2. (CHOOSE id \in Notes : Place(id) = n) \in Notes
    BY <2>1
  <2>3. Asked[n] = CHOOSE id \in Notes : Place(id) = n
    BY DEF Asked
  <2> QED
    BY <2>2, <2>3
<1> QED
  BY <1>7

\* After n starts: the next slot is the one after the last start's, each slot in use
\* holds a start of its own turn that SLOTS later ones have not followed, and every
\* such start has its slot.
NextInTurn(n) == assign_id = n % SLOTS
OnlyLatest(n) ==
  \A s \in AnimSlot : /\ born[s] \in 0..n
                      /\ born[s] # 0 => born[s] > n - SLOTS /\ (born[s] - 1) % SLOTS = s
EveryLatest(n) == \A k \in 1..n : k > n - SLOTS => born[(k - 1) % SLOTS] = k
SlotInv(n) == NextInTurn(n) /\ OnlyLatest(n) /\ EveryLatest(n)

\* Then n is the latest start, and the latest are shown.
LEMMA NewestIsShown ==
  ASSUME born \in [AnimSlot -> Nat], NEW n \in Nat, SlotInv(n)
  PROVE  Max(Range(born)) = n /\ LatestAreShown
<1>1. SLOTS \in Nat \ {0}
  BY AnimAssumption DEF AnimAssumption
<1>2. \A x : x \in Range(born) <=> \E s \in AnimSlot : x = born[s]
  BY DEF Range
<1>3. 0 \in AnimSlot /\ Range(born) \subseteq 0..n /\ Range(born) # {}
  <2>1. 0 \in AnimSlot
    BY <1>1, SMTT(30) DEF AnimSlot
  <2>2. \A s \in AnimSlot : born[s] \in 0..n
    BY DEF SlotInv, OnlyLatest
  <2> QED
    BY <1>2, <2>1, <2>2
<1>4. \A k \in 1..n : k > n - SLOTS => k \in Range(born)
  <2>1. \A k \in 1..n : (k - 1) % SLOTS \in AnimSlot
    BY <1>1, SMTT(30) DEF AnimSlot
  <2> QED
    BY <1>2, <2>1 DEF SlotInv, EveryLatest
<1>5. n \in Range(born)
  <2>1. CASE n = 0
    BY <1>3, <2>1, SMTT(30)
  <2>2. CASE n # 0
    BY <1>1, <1>4, <2>2, SMTT(30)
  <2> QED
    BY <2>1, <2>2
<1>6. Max(Range(born)) = n
  <2>1. Max(Range(born)) \in Range(born) /\ \A y \in Range(born) : y <= Max(Range(born))
    BY <1>3, Greatest
  <2> QED
    BY <1>3, <1>5, <2>1
<1>7. \A k \in 0..n : k \in Range(born) /\ k # 0 => k \in 1..n /\ k > n - SLOTS
  BY <1>2, SMTT(30) DEF SlotInv, OnlyLatest
<1>8. Range(born) \ {0} = {k \in 1..n : k > n - SLOTS}
  BY <1>3, <1>4, <1>7
<1> QED
  BY <1>6, <1>8 DEF LatestAreShown

\* m starts more, in the slots whose turn it is, the last in a slot to keep it.
TakenInTurn(n, m) ==
  /\ assign_id' = NextSlot(m)
  /\ \A s \in AnimSlot : (\A r \in 1..m : NextSlot(r - 1) # s) => born'[s] = born[s]
  /\ \A s \in AnimSlot : \A r \in 1..m :
       /\ NextSlot(r - 1) = s
       /\ \A q \in 1..m : NextSlot(q - 1) = s => q <= r
       => born'[s] = n + r

LEMMA SlotsTakenInTurn ==
  ASSUME NEW n \in Nat, SlotInv(n), NEW m \in Nat, TakenInTurn(n, m),
         NEW total \in Nat, total = n + m
  PROVE  SlotInv(total)'
<1>1. SLOTS \in Nat \ {0} /\ assign_id = n % SLOTS /\ n + m = total
  BY AnimAssumption DEF AnimAssumption, SlotInv, NextInTurn
<1>2. \A r \in Nat : NextSlot(r) = (n + r) % SLOTS
  BY <1>1, Remainders DEF NextSlot
<1>3. ASSUME NEW r \in 1..m PROVE NextSlot(r - 1) = (n + r - 1) % SLOTS
  <2>1. r - 1 \in Nat /\ n + (r - 1) = n + r - 1
    OBVIOUS
  <2> QED
    BY <1>2, <2>1
<1>4. ASSUME NEW s \in AnimSlot
      PROVE  /\ born'[s] \in 0..total
             /\ born'[s] # 0 => born'[s] > total - SLOTS /\ (born'[s] - 1) % SLOTS = s
  <2> DEFINE Turns == {r \in 1..m : NextSlot(r - 1) = s}
  <2>1. CASE Turns = {}
    <3>1. born'[s] = born[s]
      BY <2>1 DEF TakenInTurn
    <3>2. PICK k \in 0..n : k = born[s]
      BY DEF SlotInv, OnlyLatest
    <3>3. k # 0 => k > n - SLOTS /\ (k - 1) % SLOTS = s
      BY <3>2 DEF SlotInv, OnlyLatest
    <3>4. ASSUME k # 0, k <= total - SLOTS PROVE FALSE
      <4>1. PICK r \in 1..m : r = k + SLOTS - n
        BY <1>1, <3>3, <3>4, SMTT(30)
      <4>2. k - 1 \in Nat /\ n + r - 1 = (k - 1) + SLOTS
        BY <1>1, <3>4, <4>1, SMTT(30)
      <4>3. (n + r - 1) % SLOTS = s
        BY <1>1, <3>3, <3>4, <4>2, Remainders, ZenonT(60)
      <4> QED
        BY <1>3, <2>1, <4>3
    <3> QED
      BY <1>1, <3>1, <3>2, <3>3, <3>4, SMTT(30)
  <2>2. CASE Turns # {}
    <3>1. Turns \subseteq 0..m
      OBVIOUS
    <3>2. PICK r \in Turns : \A q \in Turns : q <= r
      BY <2>2, <3>1, Greatest
    <3>3. r \in 1..m /\ NextSlot(r - 1) = s /\ born'[s] = n + r
      BY <3>2 DEF TakenInTurn
    <3>4. (n + r - 1) % SLOTS = s
      BY <1>3, <3>3
    <3>5. ASSUME r + SLOTS <= m PROVE FALSE
      <4>1. PICK q \in 1..m : q = r + SLOTS
        BY <1>1, <3>3, <3>5, SMTT(30)
      <4>2. n + r - 1 \in Nat /\ n + q - 1 = (n + r - 1) + SLOTS
        BY <1>1, <3>3, <4>1, SMTT(30)
      <4>3. (n + q - 1) % SLOTS = s
        BY <1>1, <3>4, <4>2, Remainders
      <4>4. q \in Turns
        BY <1>3, <4>3
      <4> QED
        BY <1>1, <3>2, <3>3, <4>1, <4>4, SMTT(30)
    <3> QED
      BY <1>1, <3>3, <3>4, <3>5
  <2> QED
    BY <2>1, <2>2
<1>5. ASSUME NEW k \in 1..total, k > total - SLOTS PROVE born'[(k - 1) % SLOTS] = k
  <2>1. k - 1 \in Nat /\ (k - 1) % SLOTS \in AnimSlot
    BY <1>1, Remainders, SMTT(30) DEF AnimSlot
  <2>2. PICK s \in AnimSlot : s = (k - 1) % SLOTS
    BY <2>1
  <2>3. CASE k > n
    <3>1. PICK r \in 1..m : k = n + r
      <4>1. k - n \in 1..m /\ k = n + (k - n)
        BY <2>3
      <4> QED
        BY <4>1
    <3>2. NextSlot(r - 1) = s
      BY <1>3, <2>2, <3>1
    <3>3. ASSUME NEW q \in 1..m, NextSlot(q - 1) = s PROVE q <= r
      <4>1. n + q - 1 \in Nat /\ (n + q - 1) % SLOTS = (k - 1) % SLOTS
        BY <1>3, <2>2, <3>3
      <4>2. n + q - 1 > k - 1 => n + q - 1 >= (k - 1) + SLOTS
        BY <1>1, <2>1, <4>1, Remainders
      <4> QED
        BY <1>1, <1>5, <3>1, <4>2, SMTT(30)
    <3> QED
      BY <2>2, <3>1, <3>2, <3>3 DEF TakenInTurn
  <2>4. CASE k <= n
    <3>1. k \in 1..n /\ k > n - SLOTS
      BY <1>1, <1>5, <2>4, SMTT(30)
    <3>2. born[s] = k
      BY <2>2, <3>1 DEF SlotInv, EveryLatest
    <3>3. ASSUME NEW r \in 1..m, NextSlot(r - 1) = s PROVE FALSE
      <4>1. n + r - 1 \in Nat /\ (n + r - 1) % SLOTS = (k - 1) % SLOTS
        BY <1>3, <2>2, <3>3, SMTT(30)
      <4>2. n + r - 1 > k - 1 => n + r - 1 >= (k - 1) + SLOTS
        BY <1>1, <2>1, <4>1, Remainders
      <4> QED
        BY <1>1, <1>5, <2>4, <4>2, SMTT(30)
    <3> QED
      BY <2>2, <3>2, <3>3 DEF TakenInTurn
  <2> QED
    BY <2>3, <2>4, SMTT(30)
<1>6. NextInTurn(total)'
  BY <1>1, <1>2 DEF TakenInTurn, NextInTurn
<1>7. OnlyLatest(total)'
  BY <1>4 DEF OnlyLatest
<1>8. EveryLatest(total)'
  BY <1>5 DEF EveryLatest
<1> QED
  BY <1>6, <1>7, <1>8 DEF SlotInv

Position == [type : AnimType, pos : Nat]
ShowInv ==
  /\ AnimTypeOK /\ slot \in [AnimSlot -> Position]
  /\ \E n \in Nat : SlotInv(n)

LEMMA AnimConstants ==
  /\ KEYS \in Nat \ {0} /\ SLOTS \in Nat \ {0} /\ STEP_TICKS \in Nat \ {0} /\ MAX_TRIGGERS \in Nat
  /\ TypeSteps \in [AnimType -> Nat \ {0}] /\ 1 \in AnimType /\ 0 \notin AnimType
<1>1. KEYS \in Nat \ {0} /\ SLOTS \in Nat \ {0} /\ STEP_TICKS \in Nat \ {0} /\ MAX_TRIGGERS \in Nat
  BY AnimAssumption DEF AnimAssumption
<1>2. TypeSteps \in Seq(Nat \ {0}) /\ TypeSteps # <<>>
  BY AnimAssumption DEF AnimAssumption
<1>3. TypeSteps \in [AnimType -> Nat \ {0}] /\ AnimType = 1..Len(TypeSteps) /\ Len(TypeSteps) \in Nat \ {0}
  BY <1>2 DEF AnimType
<1> QED
  BY <1>1, <1>3, SMTT(30)

\* What becomes of a slot: a start takes it, or its animation goes one step on.
Legal(p) == p \in Position /\ p.pos \in 0..TypeSteps[p.type]

LEMMA StartIsLegal ==
  ASSUME NEW type \in AnimType
  PROVE  Legal([type |-> type, pos |-> 0])
<1>1. TypeSteps[type] \in Nat
  BY AnimConstants
<1> QED
  BY <1>1 DEF Legal, Position

LEMMA StepIsLegal ==
  ASSUME NEW p, Legal(p)
  PROVE  Legal(IF p.pos < TypeSteps[p.type] THEN [p EXCEPT !.pos = @ + 1] ELSE p)
<1>1. TypeSteps[p.type] \in Nat /\ p.pos \in Nat /\ p.type \in AnimType
  BY AnimConstants DEF Legal, Position
<1>2. CASE p.pos < TypeSteps[p.type]
  <2>1. PICK q : q = [p EXCEPT !.pos = @ + 1]
    OBVIOUS
  <2>2. q \in Position /\ q.pos = p.pos + 1 /\ q.type = p.type
    BY <1>1, <2>1, SMTT(30) DEF Legal, Position
  <2>3. Legal(q)
    BY <1>1, <1>2, <2>2 DEF Legal
  <2> QED
    BY <1>2, <2>1, <2>3
<1> QED
  BY <1>2

\* The starts of a refresh: a note of the bank, in the slot whose turn it is.
LEMMA StartedIsLegal ==
  ASSUME ShowInv, NEW s \in AnimSlot
  PROVE  Legal(Started[s])
<1>1. CASE Starts(s) = {}
  <2>1. Started[s] = slot[s]
    BY <1>1 DEF Started
  <2> QED
    BY <2>1 DEF ShowInv, AnimTypeOK, Legal
<1>2. CASE Starts(s) # {}
  <2>1. PICK m \in Nat : m = Cardinality(Notes)
    BY NotesAreFinite
  <2>2. Starts(s) \subseteq 1..m
    BY <2>1 DEF Starts, Asked
  <2>3. Starts(s) \subseteq 0..m
    BY <2>2
  <2>4. PICK n \in 1..m : n = Max(Starts(s))
    BY <1>2, <2>2, <2>3, Greatest
  <2>5. Asked[n] \in Notes
    BY <2>1, AskedAreNotes
  <2>6. pending[Asked[n]] \in AnimType
    BY <2>5 DEF Notes, ShowInv, AnimTypeOK
  <2>7. Started[s] = [type |-> pending[Asked[n]], pos |-> 0]
    BY <1>2, <2>4 DEF Started
  <2> QED
    BY <2>6, <2>7, StartIsLegal
<1> QED
  BY <1>1, <1>2

\* One refresh with m notes is m starts in turn.
LEMMA RefreshStarts ==
  ASSUME ShowInv, DisplayRun, NEW n \in Nat, SlotInv(n), NEW m \in Nat, m = Cardinality(Notes)
  PROVE  TakenInTurn(n, m) /\ born' \in [AnimSlot -> Nat]
<1>1. DOMAIN Asked = 1..m /\ Len(Asked) = m
  BY DEF Asked
<1>2. born \in [AnimSlot -> Nat]
  BY DEF ShowInv, AnimTypeOK
<1>3. Max(Range(born)) = n
  BY <1>2, NewestIsShown
<1>4. /\ assign_id' = NextSlot(m)
      /\ born' = [s \in AnimSlot |-> IF Starts(s) = {} THEN born[s] ELSE n + Max(Starts(s))]
  BY <1>1, <1>3 DEF DisplayRun
<1>5. \A s \in AnimSlot : Starts(s) = {r \in 1..m : NextSlot(r - 1) = s}
  BY <1>1 DEF Starts
<1>6. ASSUME NEW s \in AnimSlot, Starts(s) # {}
      PROVE  Max(Starts(s)) \in Starts(s) /\ \A q \in Starts(s) : q <= Max(Starts(s))
  <2>1. Starts(s) \subseteq 0..m
    BY <1>5, SMTT(30)
  <2> QED
    BY <1>6, <2>1, Greatest
<1>7. \A s \in AnimSlot : (\A r \in 1..m : NextSlot(r - 1) # s) => born'[s] = born[s]
  BY <1>4, <1>5
<1>8. ASSUME NEW s \in AnimSlot, NEW r \in 1..m, NextSlot(r - 1) = s,
             \A q \in 1..m : NextSlot(q - 1) = s => q <= r
      PROVE  born'[s] = n + r
  <2>1. r \in Starts(s) /\ \A q \in Starts(s) : q \in 1..m /\ q <= r
    BY <1>5, <1>8
  <2>2. PICK top \in Starts(s) : top = Max(Starts(s)) /\ r <= top
    BY <1>6, <2>1
  <2>3. top \in 1..m /\ top <= r
    BY <2>1
  <2>4. top = r
    BY <2>2, <2>3
  <2> QED
    BY <1>4, <2>1, <2>2, <2>4
<1>9. born' \in [AnimSlot -> Nat]
  <2>1. \A s \in AnimSlot : Starts(s) # {} => Max(Starts(s)) \in Nat
    BY <1>5, <1>6, SMTT(30)
  <2> QED
    BY <1>2, <1>4, <2>1, SMTT(30)
<1> QED
  BY <1>4, <1>7, <1>8, <1>9 DEF TakenInTurn

\* A start outside a refresh is one start in turn.
LEMMA SingleStart ==
  ASSUME ShowInv, NEW bank \in 0..1, NEW type \in AnimType, StartAtOnce(bank, type),
         NEW n \in Nat, SlotInv(n)
  PROVE  TakenInTurn(n, 1) /\ born' \in [AnimSlot -> Nat]
<1>1. born \in [AnimSlot -> Nat] /\ assign_id \in AnimSlot /\ SLOTS \in Nat \ {0}
  BY AnimConstants DEF ShowInv, AnimTypeOK
<1>2. Max(Range(born)) = n
  BY <1>1, NewestIsShown
<1>3. assign_id' = NextSlot(1) /\ born' = [born EXCEPT ![assign_id] = n + 1]
  BY <1>2 DEF StartAtOnce
<1>4. NextSlot(1 - 1) = assign_id
  <2>1. assign_id \in Nat /\ assign_id = SLOTS * 0 + assign_id /\ assign_id \in 0 .. (SLOTS - 1)
    BY <1>1, SMTT(30) DEF AnimSlot
  <2>2. assign_id % SLOTS = assign_id
    BY <1>1, <2>1, Division
  <2>3. assign_id + (1 - 1) = assign_id
    BY <2>1
  <2> QED
    BY <2>2, <2>3 DEF NextSlot
<1>5. \A r \in 1..1 : r = 1
  OBVIOUS
<1>6. 1 \in 1..1
  OBVIOUS
<1>7. \A s \in AnimSlot : (\A r \in 1..1 : NextSlot(r - 1) # s) => born'[s] = born[s]
  BY <1>1, <1>3, <1>4, <1>6
<1>8. \A s \in AnimSlot : \A r \in 1..1 : NextSlot(r - 1) = s => born'[s] = n + r
  BY <1>1, <1>3, <1>4, <1>5
<1>9. born' \in [AnimSlot -> Nat]
  BY <1>1, <1>3, SMTT(30)
<1> QED
  BY <1>3, <1>7, <1>8, <1>9 DEF TakenInTurn

\* The latest starts stay in their slots through every step.
LEMMA ShowSlots ==
  ASSUME ShowInv, AnimNext
  PROVE  born' \in [AnimSlot -> Nat] /\ assign_id' \in AnimSlot /\ \E n \in Nat : SlotInv(n)'
<1>1. PICK n \in Nat : SlotInv(n)
  BY DEF ShowInv
<1>2. born \in [AnimSlot -> Nat] /\ assign_id \in AnimSlot /\ SLOTS \in Nat \ {0}
  BY AnimConstants DEF ShowInv, AnimTypeOK
<1>3. \A m \in Nat : NextSlot(m) \in AnimSlot
  BY <1>2, Remainders, SMTT(30) DEF NextSlot, AnimSlot
<1>4. ASSUME NEW m \in Nat, TakenInTurn(n, m)
      PROVE  assign_id' \in AnimSlot /\ \E k \in Nat : SlotInv(k)'
  <2>1. PICK total \in Nat : total = n + m
    OBVIOUS
  <2>2. SlotInv(total)'
    BY <1>1, <1>4, <2>1, SlotsTakenInTurn
  <2>3. assign_id' \in AnimSlot
    BY <1>3, <1>4 DEF TakenInTurn
  <2> QED
    BY <2>2, <2>3
<1>5. CASE UNCHANGED <<born, assign_id>>
  BY <1>1, <1>2, <1>5 DEF SlotInv, NextInTurn, OnlyLatest, EveryLatest
<1>6. CASE DisplayRun
  <2>1. PICK m \in Nat : m = Cardinality(Notes)
    BY NotesAreFinite
  <2> QED
    BY <1>1, <1>4, <1>6, <2>1, RefreshStarts
<1>7. ASSUME NEW bank \in 0..1, NEW type \in AnimType, StartAtOnce(bank, type)
      PROVE  born' \in [AnimSlot -> Nat] /\ assign_id' \in AnimSlot /\ \E k \in Nat : SlotInv(k)'
  BY <1>1, <1>4, <1>7, SingleStart
<1>8. CASE CountDown \/ \E id \in AnimId, type \in AnimType \cup {0} : AnimationNote(id, type)
  BY <1>5, <1>8 DEF CountDown, AnimationNote
<1> QED
  BY <1>6, <1>7, <1>8 DEF AnimNext

LEMMA ShowStep == ShowInv /\ [AnimNext]_animVars => ShowInv'
<1> SUFFICES ASSUME ShowInv, [AnimNext]_animVars PROVE ShowInv'
  OBVIOUS
<1>1. CASE UNCHANGED animVars
  <2>1. PICK n \in Nat : SlotInv(n)
    BY DEF ShowInv
  <2>2. SlotInv(n)'
    BY <1>1, <2>1 DEF animVars, SlotInv, NextInTurn, OnlyLatest, EveryLatest
  <2>3. AnimTypeOK' /\ (slot \in [AnimSlot -> Position])'
    BY <1>1 DEF animVars, ShowInv, AnimTypeOK
  <2> QED
    BY <2>2, <2>3 DEF ShowInv
<1>2. CASE AnimNext
  <2>1. /\ pending \in [AnimId -> AnimType \cup {0}] /\ anim_bank \in 0..1
        /\ slot \in [AnimSlot -> Position] /\ \A s \in AnimSlot : Legal(slot[s])
        /\ assign_id \in AnimSlot /\ led_counter1 \in 0..STEP_TICKS /\ triggers \in 0..MAX_TRIGGERS
    BY DEF ShowInv, AnimTypeOK, Legal
  <2>2. /\ born' \in [AnimSlot -> Nat] /\ assign_id' \in AnimSlot
        /\ \E n \in Nat : SlotInv(n)'
    BY <1>2, ShowSlots
  <2> DEFINE Typed ==
        /\ pending' \in [AnimId -> AnimType \cup {0}] /\ anim_bank' \in 0..1
        /\ led_counter1' \in 0..STEP_TICKS /\ triggers' \in 0..MAX_TRIGGERS
        /\ slot' \in [AnimSlot -> Position] /\ \A s \in AnimSlot : Legal(slot'[s])
  <2>3. Typed
    <3>1. CASE CountDown
      BY <2>1, <3>1, AnimConstants, SMTT(30) DEF CountDown
    <3>2. CASE DisplayRun
      <4>1. Taken \in [AnimId -> AnimType \cup {0}]
        BY <2>1 DEF Taken
      <4>2. /\ Stepped(slot) \in [AnimSlot -> Position]
            /\ \A s \in AnimSlot : Legal(Stepped(slot)[s])
        <5>1. ASSUME NEW s \in AnimSlot PROVE Legal(Stepped(slot)[s])
          <6>1. Stepped(slot)[s] = IF slot[s].pos < TypeSteps[slot[s].type]
                                   THEN [slot[s] EXCEPT !.pos = @ + 1] ELSE slot[s]
            BY DEF Stepped
          <6> QED
            BY <2>1, <6>1, StepIsLegal
        <5>2. Stepped(slot) = [s \in AnimSlot |-> Stepped(slot)[s]]
          BY DEF Stepped
        <5>3. \A s \in AnimSlot : Stepped(slot)[s] \in Position
          BY <5>1 DEF Legal
        <5> QED
          BY <5>1, <5>2, <5>3
      <4>3. /\ Started \in [AnimSlot -> Position] /\ \A s \in AnimSlot : Legal(Started[s])
        <5>1. Started = [s \in AnimSlot |-> Started[s]]
          BY DEF Started
        <5>2. \A s \in AnimSlot : Started[s] \in Position
          BY StartedIsLegal DEF Legal
        <5> QED
          BY <5>1, <5>2, StartedIsLegal
      <4>4. slot' = Stepped(slot) \/ slot' = Started
        BY <3>2 DEF DisplayRun
      <4>5. led_counter1' \in 0..STEP_TICKS
        BY <2>1, <3>2, AnimConstants, SMTT(30) DEF DisplayRun
      <4> QED
        BY <2>1, <3>2, <4>1, <4>2, <4>3, <4>4, <4>5 DEF DisplayRun
    <3>3. ASSUME NEW bank \in 0..1, NEW type \in AnimType, StartAtOnce(bank, type)
          PROVE  Typed
      <4>1. PICK start : start = [type |-> type, pos |-> 0] /\ Legal(start)
        BY StartIsLegal
      <4>2. slot' = [slot EXCEPT ![assign_id] = start]
        BY <3>3, <4>1 DEF StartAtOnce
      <4>3. slot' \in [AnimSlot -> Position] /\ \A s \in AnimSlot : Legal(slot'[s])
        <5>1. start \in Position
          BY <4>1 DEF Legal
        <5> QED
          BY <2>1, <4>1, <4>2, <5>1
      <4>4. led_counter1' \in 0..STEP_TICKS /\ triggers' \in 0..MAX_TRIGGERS
        BY <2>1, <3>3, AnimConstants, SMTT(30) DEF StartAtOnce
      <4> QED
        BY <2>1, <3>3, <4>2, <4>3, <4>4 DEF StartAtOnce
    <3>4. ASSUME NEW id \in AnimId, NEW type \in AnimType \cup {0}, AnimationNote(id, type)
          PROVE  Typed
      <4>1. pending' = [pending EXCEPT ![id] = type] /\ triggers' \in 0..MAX_TRIGGERS
        BY <2>1, <3>4, AnimConstants, SMTT(30) DEF AnimationNote
      <4>2. pending' \in [AnimId -> AnimType \cup {0}]
        BY <2>1, <4>1
      <4> QED
        BY <2>1, <3>4, <4>1, <4>2 DEF AnimationNote
    <3> HIDE DEF Typed
    <3> QED
      BY <1>2, <3>1, <3>2, <3>3, <3>4 DEF AnimNext
  <2>4. AnimTypeOK'
    BY <2>2, <2>3 DEF AnimTypeOK, Legal, Position
  <2> QED
    BY <2>2, <2>3, <2>4 DEF ShowInv
<1> QED
  BY <1>1, <1>2

LEMMA ShowStart == AnimInit => ShowInv
<1> SUFFICES ASSUME AnimInit PROVE ShowInv
  OBVIOUS
<1>1. TypeSteps[1] \in Nat /\ SLOTS \in Nat \ {0}
  BY AnimConstants
<1>2. SlotInv(0)
  <2>1. 0 % SLOTS = 0
    <3>1. 0 = SLOTS * 0 + 0 /\ 0 \in 0 .. (SLOTS - 1)
      BY <1>1, SMTT(30)
    <3> QED
      BY <1>1, <3>1, Division, SMTT(30)
  <2> QED
    BY <1>1, <2>1 DEF AnimInit, SlotInv, NextInTurn, OnlyLatest, EveryLatest
<1>3. AnimTypeOK /\ slot \in [AnimSlot -> Position]
  BY <1>1, AnimConstants, SMTT(30) DEF AnimInit, AnimTypeOK, Position, AnimSlot
<1> QED
  BY <1>2, <1>3 DEF ShowInv

\* For every number of slots, keys and types of animation, and however many start in
\* one refresh: the slots hold the latest animations.
THEOREM LatestAreShownAlways == AnimSpec => []LatestAreShown
<1>1. ShowInv => LatestAreShown
  BY NewestIsShown DEF ShowInv, AnimTypeOK
<1> QED
  BY <1>1, ShowStart, ShowStep, PTL DEF AnimSpec

=============================================================================

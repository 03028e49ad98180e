---------------------------- MODULE DeviceProofs ---------------------------
(***************************************************************************)
(* What KeyScan, FlashClock, UsbMidi and Watchdog keep for every value of  *)
(* their constants; and the unprotected scan of key.c implements the       *)
(* atomic poll of KeyDebounce.                                             *)
(***************************************************************************)
EXTENDS KeyScan, FlashClock, UsbMidi, Watchdog, TLAPS

\* A step that names no prover is given to Zenon, then to the SMT solver.
USE ZenonT(20), SMTT(30)

----------------------------------------------------------------------------
(* The scan of the keys.                                                   *)

\* The write index of the interrupt (buffer_pos in key.c) steps through the ring
\* and starts again at 0.
LEMMA NextSample ==
  ASSUME NEW p \in Index
  PROVE  (p + 1) % N = IF p + 1 = N THEN 0 ELSE p + 1
BY KeyScanAssumption DEF Index

\* system_time_ms stays inside its width.
LEMMA TimeWraps ==
  ASSUME NEW t \in 0 .. (TIME_MOD - 1)
  PROVE  (t + 1) % TIME_MOD \in 0 .. (TIME_MOD - 1)
BY KeyScanAssumption

\* Every step of the interrupt, key_read and key_calc keeps the state well typed.
LEMMA ScanTypeStep == ScanTypeOK /\ [ScanNext]_scanVars => ScanTypeOK'
<1> SUFFICES ASSUME ScanTypeOK, [ScanNext]_scanVars PROVE ScanTypeOK'
  OBVIOUS
<1> USE KeyScanAssumption DEF ScanTypeOK, Index
<1>1. ASSUME NEW contacts \in SUBSET Key, TIMER0_OVF_vect(contacts)
      PROVE  ScanTypeOK'
  <2>1. buffer_pos' \in Index
    BY <1>1, NextSample, SMTT(30) DEF TIMER0_OVF_vect
  <2>2. system_time_ms' \in 0 .. (TIME_MOD - 1)
    BY <1>1, TimeWraps DEF TIMER0_OVF_vect
  <2>3. QED
    BY <1>1, <2>1, <2>2, SMTT(30) DEF TIMER0_OVF_vect
<1>2. CASE key_read_begin
  BY <1>2, SMTT(30) DEF key_read_begin
<1>3. CASE key_read_entry
  BY <1>3, SMTT(30) DEF key_read_entry
<1>4. CASE key_calc
  BY <1>4 DEF key_calc, Xor
<1>5. CASE UNCHANGED scanVars
  BY <1>5 DEF scanVars
<1>6. QED
  BY <1>1, <1>2, <1>3, <1>4, <1>5 DEF ScanNext, Interrupt, MainLoop

\* After an interrupt the newest sample sits in the slot it has just written.
LEMMA NewestSlot ==
  ASSUME ScanTypeOK, NEW contacts, TIMER0_OVF_vect(contacts)
  PROVE  Slot(N)' = buffer_pos
BY NextSample, KeyScanAssumption, SMTT(30) DEF ScanTypeOK, TIMER0_OVF_vect, Slot, Index

\* ScanInv is inductive.
LEMMA ScanStep == ScanInv /\ [ScanNext]_scanVars => ScanInv'
<1> SUFFICES ASSUME ScanInv, [ScanNext]_scanVars PROVE ScanInv'
  OBVIOUS
<1>0. ScanTypeOK /\ ScanTypeOK'
  BY ScanTypeStep DEF ScanInv
<1>1. ASSUME NEW contacts \in SUBSET Key, TIMER0_OVF_vect(contacts)
      PROVE  ScanInv'
  <2>1. CASE ~polling
    BY <1>0, <1>1, <2>1 DEF ScanInv, TIMER0_OVF_vect
  <2>2. CASE polling
    <3>1. interrupts = 0 /\ interrupts' = 1 /\ ISR_PER_POLL = 1
      BY <1>0, <1>1, <2>2, KeyScanAssumption, SMTT(30) DEF TIMER0_OVF_vect, ScanTypeOK
    <3>2. g_key_state' = Common(g_key_debounce_buffer, i)
      BY <1>1, <2>2, <3>1 DEF ScanInv, TIMER0_OVF_vect
    <3>3. Slot(N)' = buffer_pos
      BY <1>0, <1>1, NewestSlot
    <3>4. CASE buffer_pos < i
      <4>1. BeforeInterrupt' = g_key_debounce_buffer
        BY <1>0, <1>1, <3>3 DEF TIMER0_OVF_vect, BeforeInterrupt, ScanTypeOK
      <4>2. g_key_state' = Common(BeforeInterrupt, i)'
        BY <1>1, <3>2, <4>1 DEF TIMER0_OVF_vect, Common
      <4>3. QED
        BY <1>0, <1>1, <2>2, <3>1, <3>3, <3>4, <4>2 DEF ScanInv, TIMER0_OVF_vect
    <3>5. CASE ~(buffer_pos < i)
      <4>1. \A j \in 0 .. (i - 1) : g_key_debounce_buffer'[j] = g_key_debounce_buffer[j]
        BY <1>0, <1>1, <3>5, SMTT(30) DEF TIMER0_OVF_vect, ScanTypeOK, Index
      <4>2. g_key_state' = Common(g_key_debounce_buffer, i)'
        BY <1>1, <3>2, <4>1 DEF TIMER0_OVF_vect, Common
      <4>3. QED
        BY <1>0, <1>1, <2>2, <3>1, <4>2 DEF ScanInv
    <3>6. QED
      BY <3>4, <3>5
  <2>3. QED
    BY <2>1, <2>2
<1>2. CASE key_read_begin
  <2>1. g_key_state' = Common(g_key_debounce_buffer, i)'
    BY <1>2 DEF key_read_begin, Common
  <2>2. QED
    BY <1>0, <1>2, <2>1 DEF ScanInv, key_read_begin
<1>3. CASE key_read_entry
  <2>0. /\ i \in Index /\ i' = i + 1 /\ g_key_state' = g_key_state \cap g_key_debounce_buffer[i]
        /\ UNCHANGED <<g_key_debounce_buffer, overwritten, interrupts, polling>>
        /\ Slot(N)' = Slot(N)
    BY <1>0, <1>3, KeyScanAssumption, SMTT(30) DEF key_read_entry, ScanTypeOK, Index, Slot
  <2>1. CASE g_key_state = Common(g_key_debounce_buffer, i)
    <3>1. g_key_state' = Common(g_key_debounce_buffer, i)'
      BY <2>0, <2>1, SMTT(30) DEF Common, Index
    <3>2. QED
      BY <1>0, <2>0, <3>1, <1>3 DEF ScanInv, key_read_entry
  <2>2. CASE interrupts = 1 /\ Slot(N) < i /\ g_key_state = Common(BeforeInterrupt, i)
    <3>1. BeforeInterrupt[i] = g_key_debounce_buffer[i]
      BY <1>0, <2>0, <2>2 DEF BeforeInterrupt, ScanTypeOK, Index
    <3>2. g_key_state' = Common(BeforeInterrupt, i + 1)
      BY <2>0, <2>2, <3>1, SMTT(30) DEF Common, Index
    <3>3. BeforeInterrupt' = BeforeInterrupt
      BY <2>0 DEF BeforeInterrupt
    <3>4. g_key_state' = Common(BeforeInterrupt, i)'
      BY <2>0, <3>2, <3>3 DEF Common
    <3>5. (Slot(N) < i)'
      <4>1. Slot(N) \in Index
        BY <1>0, KeyScanAssumption, SMTT(30) DEF Slot, ScanTypeOK, Index
      <4>2. QED
        BY <2>0, <2>2, <4>1 DEF Index
    <3>6. interrupts' = 1
      BY <2>0, <2>2
    <3>7. QED
      BY <1>0, <3>4, <3>5, <3>6 DEF ScanInv
  <2>3. QED
    BY <1>3, <2>1, <2>2 DEF ScanInv, key_read_entry
<1>4. CASE key_calc
  BY <1>0, <1>4 DEF ScanInv, key_calc
<1>5. CASE UNCHANGED scanVars
  BY <1>5 DEF scanVars, ScanInv, ScanTypeOK, Common, BeforeInterrupt, Slot
<1>6. QED
  BY <1>1, <1>2, <1>3, <1>4, <1>5 DEF ScanNext, Interrupt, MainLoop

LEMMA ScanStart == ScanInit => ScanInv
<1> SUFFICES ASSUME ScanInit PROVE ScanInv
  OBVIOUS
<1>1. polling \in BOOLEAN /\ ~polling
  BY DEF ScanInit
<1>2. /\ g_key_debounce_buffer \in [Index -> SUBSET Key]
      /\ buffer_pos \in Index
      /\ system_time_ms \in 0 .. (TIME_MOD - 1)
      /\ i \in 0..N /\ interrupts \in Nat
  BY KeyScanAssumption DEF ScanInit, Index
<1>3. ScanTypeOK
  BY <1>1, <1>2 DEF ScanInit, ScanTypeOK
<1> QED
  BY <1>1, <1>3 DEF ScanInv

\* Everything that happens to the ring, the scan and the key globals keeps the
\* scan invariant: type correctness and the all-before-or-all-after fact.
THEOREM ScanInvariance == ScanSpec => []ScanInv
BY ScanStart, ScanStep, PTL DEF ScanSpec

----------------------------------------------------------------------------
\* All N entries of the ring together are the N newest samples.
LEMMA WholeRing ==
  ASSUME ScanTypeOK
  PROVE  Common(g_key_debounce_buffer, N) = Debounce!InAll(1)
<1> USE KeyScanAssumption DEF ScanTypeOK, Index
<1>1. \A a \in 1..N : Slot(a) \in Index /\ History[a] = g_key_debounce_buffer[Slot(a)]
  BY SMTT(30) DEF Slot, History
<1>2. \A j \in Index : \E a \in 1..N : Slot(a) = j
  <2> TAKE j \in Index
  <2>1. CASE j >= buffer_pos
    <3>1. j - buffer_pos + 1 \in 1..N /\ Slot(j - buffer_pos + 1) = j
      BY <2>1, SMTT(30) DEF Slot
    <3>2. QED
      BY <3>1
  <2>2. CASE j < buffer_pos
    <3>1. j - buffer_pos + 1 + N \in 1..N /\ Slot(j - buffer_pos + 1 + N) = j
      BY <2>2, SMTT(30) DEF Slot
    <3>2. QED
      BY <3>1
  <2>3. QED
    BY <2>1, <2>2, SMTT(30)
<1>3. \A k \in Key : (\A j \in Index : k \in g_key_debounce_buffer[j])
                     <=> (\A a \in 1..N : k \in History[a])
  BY <1>1, <1>2
<1>4. QED
  BY <1>3, SMTT(30) DEF Common, Debounce!InAll

\* The ring with its newest entry put back to what it replaced holds the N
\* samples before the newest.
LEMMA RingBeforeInterrupt ==
  ASSUME ScanTypeOK
  PROVE  Common(BeforeInterrupt, N) = Debounce!InAll(0)
<1> USE KeyScanAssumption DEF ScanTypeOK, Index
<1>1. \A a \in 1 .. (N - 1) : /\ Slot(a) \in Index /\ Slot(a) # Slot(N)
                              /\ History[a] = g_key_debounce_buffer[Slot(a)]
  BY SMTT(30) DEF Slot, History
<1>2. Slot(N) \in Index /\ History[0] = overwritten
  BY SMTT(30) DEF Slot, History
<1>3. BeforeInterrupt[Slot(N)] = History[0]
  BY <1>2 DEF BeforeInterrupt
<1>4. \A a \in 1 .. (N - 1) : BeforeInterrupt[Slot(a)] = History[a]
  BY <1>1 DEF BeforeInterrupt
<1>5. \A j \in Index : j = Slot(N) \/ \E a \in 1 .. (N - 1) : Slot(a) = j
  <2> TAKE j \in Index
  <2>1. CASE j >= buffer_pos /\ j # Slot(N)
    <3>1. j - buffer_pos + 1 \in 1 .. (N - 1) /\ Slot(j - buffer_pos + 1) = j
      BY <2>1, SMTT(30) DEF Slot
    <3>2. QED
      BY <3>1
  <2>2. CASE j < buffer_pos /\ j # Slot(N)
    <3>1. j - buffer_pos + 1 + N \in 1 .. (N - 1) /\ Slot(j - buffer_pos + 1 + N) = j
      BY <2>2, SMTT(30) DEF Slot
    <3>2. QED
      BY <3>1
  <2>3. QED
    BY <2>1, <2>2, SMTT(30)
<1>6. \A k \in Key : (\A j \in Index : k \in BeforeInterrupt[j])
                     <=> (\A a \in 0 .. (N - 1) : k \in History[a])
  <2> SUFFICES ASSUME NEW k \in Key
               PROVE  (\A j \in Index : k \in BeforeInterrupt[j])
                      <=> (\A a \in 0 .. (N - 1) : k \in History[a])
    OBVIOUS
  <2>1. ASSUME \A j \in Index : k \in BeforeInterrupt[j], NEW a \in 0 .. (N - 1)
        PROVE  k \in History[a]
    <3>1. CASE a = 0
      BY <1>2, <1>3, <2>1, <3>1
    <3>2. CASE a \in 1 .. (N - 1)
      BY <1>1, <1>4, <2>1, <3>2
    <3>3. QED
      BY <3>1, <3>2, SMTT(30)
  <2>2. ASSUME \A a \in 0 .. (N - 1) : k \in History[a], NEW j \in Index
        PROVE  k \in BeforeInterrupt[j]
    <3>1. CASE j = Slot(N)
      BY <1>3, <2>2, <3>1, SMTT(30)
    <3>2. CASE \E a \in 1 .. (N - 1) : Slot(a) = j
      BY <1>4, <2>2, <3>2, SMTT(30)
    <3>3. QED
      BY <1>5, <3>1, <3>2
  <2>3. QED
    BY <2>1, <2>2
<1>7. QED
  BY <1>6, SMTT(30) DEF Common, Debounce!InAll

\* Every step of key.c is a step of the atomic debouncer, or changes nothing it
\* shows.
LEMMA RefineStep == ScanInv /\ [ScanNext]_scanVars => [Debounce!Next]_(Debounce!vars)
<1> SUFFICES ASSUME ScanInv, [ScanNext]_scanVars PROVE [Debounce!Next]_(Debounce!vars)
  OBVIOUS
<1>0. ScanTypeOK
  BY DEF ScanInv
<1>1. ASSUME NEW contacts \in SUBSET Key, TIMER0_OVF_vect(contacts)
      PROVE  Debounce!Sample(contacts)
  <2>1. History' = [a \in 0..N |-> IF a = N THEN contacts ELSE History[a + 1]]
    <3> USE <1>0, <1>1, KeyScanAssumption DEF ScanTypeOK, Index
    <3>1. buffer_pos' = IF buffer_pos + 1 = N THEN 0 ELSE buffer_pos + 1
      BY NextSample DEF TIMER0_OVF_vect
    <3>2. Slot(N)' = buffer_pos
      BY NewestSlot
    <3>3. \A a \in 1 .. (N - 1) : /\ Slot(a)' = Slot(a + 1) /\ Slot(a + 1) \in Index
                                  /\ Slot(a + 1) # buffer_pos
      BY <3>1, SMTT(30) DEF Slot
    <3>4. Slot(1) = buffer_pos
      BY SMTT(30) DEF Slot
    <3>5. \A a \in 0..N : History'[a] = IF a = N THEN contacts ELSE History[a + 1]
      BY <3>2, <3>3, <3>4, SMTT(30) DEF TIMER0_OVF_vect, History
    <3>6. QED
      BY <3>5 DEF History
  <2>2. QED
    BY <1>1, <2>1 DEF TIMER0_OVF_vect, Debounce!Sample
<1>2. CASE key_read_begin
  BY <1>2 DEF key_read_begin, Debounce!vars, History, Slot
<1>3. CASE key_read_entry
  BY <1>3 DEF key_read_entry, Debounce!vars, History, Slot
<1>4. CASE key_calc
  <2>1. g_key_state \in {Debounce!InAll(0), Debounce!InAll(1)}
    BY <1>0, <1>4, WholeRing, RingBeforeInterrupt DEF ScanInv, key_calc
  <2>2. History' = History
    BY <1>4 DEF key_calc, History, Slot
  <2>3. QED
    BY <1>0, <1>4, <2>1, <2>2 DEF key_calc, Debounce!Next, Debounce!Poll, Xor, ScanTypeOK
<1>5. CASE UNCHANGED scanVars
  BY <1>5 DEF scanVars, Debounce!vars, History, Slot
<1>6. QED
  BY <1>1, <1>2, <1>3, <1>4, <1>5 DEF ScanNext, Interrupt, MainLoop, Debounce!Next

\* key_read and key_calc, run with interrupts enabled, report what an atomic
\* poll of N consecutive samples would, for every ring size and set of keys.
THEOREM ScanRefinesDebounce == ScanSpec => ScanIsAtomic
<1>1. ScanInit => Debounce!Init
  BY KeyScanAssumption, SMTT(30) DEF ScanInit, Debounce!Init, History, Slot, Index
<1>2. QED
  BY <1>1, RefineStep, ScanInvariance, PTL DEF ScanSpec, ScanIsAtomic, Debounce!Spec

----------------------------------------------------------------------------
(* The flash counter.                                                      *)

\* The main loop adds only while the timer does not: the clock is enabled before an
\* increment starts and not disabled in the middle of one.
FlashInv ==
  /\ FlashTypeOK /\ NoBeatLost
  /\ adding # 0 => midi_clock_enabled
  /\ adding = 2 => read = display_flash_counter

LEMMA FlashStep == FlashInv /\ [FlashNext]_flashVars => FlashInv'
<1> SUFFICES ASSUME FlashInv, [FlashNext]_flashVars PROVE FlashInv'
  OBVIOUS
<1>0. WIDTH \in Nat \ {0} /\ BEAT \in Nat \ {0}
  BY FlashAssumption
<1>1. ASSUME NEW n \in 0 .. (WIDTH - 1) PROVE (n + 1) % WIDTH \in 0 .. (WIDTH - 1)
  BY <1>0
<1> USE DEF FlashInv, FlashTypeOK, NoBeatLost
<1>2. CASE TimerBeat
  BY <1>0, <1>1, <1>2, SMTT(30) DEF TimerBeat
<1>3. CASE midi_clock
  BY <1>0, <1>3, SMTT(30) DEF midi_clock
<1>4. CASE ReadCounter
  BY <1>0, <1>4, SMTT(30) DEF ReadCounter
<1>5. CASE WriteCounter
  BY <1>0, <1>1, <1>5, SMTT(30) DEF WriteCounter
<1>6. ASSUME NEW state \in BOOLEAN, midi_clock_enable(state) PROVE FlashInv'
  BY <1>0, <1>6 DEF midi_clock_enable
<1>7. CASE UNCHANGED flashVars
  BY <1>7 DEF flashVars
<1> QED
  BY <1>2, <1>3, <1>4, <1>5, <1>6, <1>7 DEF FlashNext

LEMMA FlashStart == FlashInit => FlashInv
<1> SUFFICES ASSUME FlashInit PROVE FlashInv
  OBVIOUS
<1>1. WIDTH \in Nat \ {0} /\ BEAT \in Nat \ {0} /\ 0 \in 0 .. (WIDTH - 1) /\ 0 \in 0..BEAT
  BY FlashAssumption
<1>2. midi_clock_enabled \in BOOLEAN /\ running \in BOOLEAN
  BY DEF FlashInit
<1> QED
  BY <1>1, <1>2 DEF FlashInit, FlashInv, FlashTypeOK, NoBeatLost

\* For every width of the counter and every beat: no count of the timer or of the
\* main loop is lost.
THEOREM NoBeatLostAlways == FlashSpec => []NoBeatLost
<1>1. FlashInv => NoBeatLost
  BY DEF FlashInv
<1> QED
  BY <1>1, FlashStart, FlashStep, PTL DEF FlashSpec

----------------------------------------------------------------------------
(* Packets the device sends.                                               *)

\* The frames a send still waits and those for which the host has had the bank add
\* up to the timeout, the one that is noted but not counted included.
Sending == at \in {"sending", "replying", "notifying"}
WaitInv ==
  Sending /\ inHost =>
    unread + rest >= (IF frame THEN TIMEOUT + 1 ELSE TIMEOUT)
UsbInv == rest \in Nat /\ unread \in Nat /\ WaitInv /\ LostOnlyIfLate

LEMMA Overdue ==
  ASSUME NEW u \in Nat, NEW r \in Nat, NEW t \in Nat, u + r >= t + 1, r = 0
  PROVE  u > t
OBVIOUS

LEMMA UsbStep == UsbInv /\ [UsbNext]_usbVars => UsbInv'
<1> SUFFICES ASSUME UsbInv, [UsbNext]_usbVars PROVE UsbInv'
  OBVIOUS
<1>0. TIMEOUT \in Nat
  BY UsbMidiAssumption
<1> USE DEF UsbInv, WaitInv, Sending, LostOnlyIfLate, Waiting, Sends, Flushing
<1>1. CASE HostReads
  BY <1>0, <1>1 DEF HostReads, waitVars, lossVars
<1>2. CASE HostWrites \/ WakeUp \/ USB_USBTask
  <2>1. UNCHANGED <<at, rest, frame, inHost, unread, excused>>
    BY <1>2 DEF HostWrites, WakeUp, USB_USBTask, waitVars, lossVars, inVars
  <2> QED
    BY <2>1
<1>3. CASE Frame
  <2>1. ~frame /\ UNCHANGED <<at, rest, inHost, excused>>
    BY <1>3 DEF Frame, waitVars, lossVars
  <2>2. unread' = IF inHost /\ unread <= TIMEOUT THEN unread + 1 ELSE unread
    BY <1>3 DEF Frame
  <2>3. inHost => unread' + rest' >= TIMEOUT + 1 \/ ~Sending'
    BY <1>0, <2>1, <2>2
  <2>4. inHost => unread' + rest' >= TIMEOUT \/ ~Sending'
    BY <1>0, <2>1, <2>2
  <2> QED
    BY <1>0, <2>1, <2>2, <2>3, <2>4
<1>4. CASE BusEvent
  BY <1>0, <1>4 DEF BusEvent, waitVars, lossVars, inVars
<1>5. CASE BeginPass \/ Receive \/ Handled \/ EndPass
  BY <1>5 DEF BeginPass, Receive, Handled, EndPass, waitVars, lossVars, inVars
<1>6. CASE SendEventPacket
  <2>1. UNCHANGED <<inHost, unread, excused>>
    BY <1>6 DEF SendEventPacket, inVars, lossVars
  <2>2. CASE Configured
    <3>1. rest' = TIMEOUT /\ ~frame'
      BY <1>6, <2>2 DEF SendEventPacket
    <3> QED
      BY <1>0, <2>1, <3>1
  <2>3. CASE ~Configured
    <3>1. ~Sending' /\ rest' = rest
      BY <1>6, <2>3 DEF SendEventPacket, waitVars
    <3> QED
      BY <2>1, <3>1
  <2> QED
    BY <2>2, <2>3
<1>7. CASE Ready
  BY <1>7 DEF Ready, Return, lossVars, inVars
<1>8. CASE WaitUntilReady
  <2>0. UNCHANGED <<inHost, unread>> /\ ~frame'
    BY <1>8 DEF WaitUntilReady, inVars
  <2>1. CASE USB_DeviceState = "suspended" \/ rest = 0
    <3>1. ~Sending' /\ rest' = 0
      BY <1>8, <2>1 DEF WaitUntilReady, Return
    <3>2. USB_DeviceState = "configured" => inHost /\ frame /\ rest = 0
      BY <1>8, <2>1 DEF WaitUntilReady
    <3>3. ~Configured \/ at \in Flushing \/ unread > TIMEOUT
      <4> SUFFICES ASSUME Configured, at \notin Flushing PROVE unread > TIMEOUT
        OBVIOUS
      <4>1. Sending
        BY <1>8 DEF WaitUntilReady
      <4>2. inHost /\ frame /\ rest = 0
        BY <3>2 DEF Configured
      <4>3. (IF frame THEN TIMEOUT + 1 ELSE TIMEOUT) = TIMEOUT + 1
        BY <4>2
      <4>4. unread + rest >= TIMEOUT + 1
        BY <4>1, <4>2, <4>3
      <4>5. rest = 0 /\ unread \in Nat /\ rest \in Nat
        BY <4>2
      <4> HIDE DEF UsbInv
      <4> QED
        BY <1>0, <4>4, <4>5, Overdue
    <3>4. excused'
      BY <1>8, <2>1, <3>3 DEF WaitUntilReady
    <3> QED
      BY <1>0, <2>0, <3>1, <3>4
  <2>2. CASE ~(USB_DeviceState = "suspended" \/ rest = 0)
    <3>1. frame /\ rest' = rest - 1 /\ rest # 0 /\ UNCHANGED <<at, excused>>
      BY <1>8, <2>2 DEF WaitUntilReady, lossVars
    <3> QED
      BY <1>0, <2>0, <3>1
  <2> QED
    BY <2>1, <2>2
<1>9. CASE Flush
  BY <1>0, <1>9 DEF Flush, lossVars
<1>10. CASE UNCHANGED usbVars
  BY <1>10 DEF usbVars
<1> QED
  BY <1>1, <1>2, <1>3, <1>4, <1>5, <1>6, <1>7, <1>8, <1>9, <1>10 DEF UsbNext, Loop

\* For every timeout, bank size and number of packets: a packet is dropped only if
\* the bus went down or the host left the bank unread for longer than the timeout.
THEOREM LostOnlyIfLateAlways == UsbSpec => []LostOnlyIfLate
<1>1. UsbInit => UsbInv
  BY UsbMidiAssumption DEF UsbInit, UsbInv, WaitInv, Sending, LostOnlyIfLate
<1>2. UsbInv => LostOnlyIfLate
  BY DEF UsbInv
<1> QED
  BY <1>1, <1>2, UsbStep, PTL DEF UsbSpec

\* A packet under way has its number, a bank the device may write to has room for
\* it, the receive loop is over when it has failed often enough, and a packet that
\* came in starts that count again.
BankInv ==
  /\ UsbTypeOK
  /\ Sending => packet # 0
  /\ ~inHost => Len(in) < CAPACITY
  /\ at = "receive" => usb_rx_fail_count < RX_FAIL_LIMIT
  /\ at \in {"handle", "part", "replying", "part_flushing"} => usb_rx_fail_count = 0

LEMMA UsbConstants ==
  /\ CAPACITY \in Nat \ {0} /\ RX_PACKET_LIMIT \in Nat \ {0} /\ RX_FAIL_LIMIT \in Nat \ {0}
  /\ TIMEOUT \in Nat /\ MAX_SENDS \in Nat /\ MAX_BUS \in Nat
BY UsbMidiAssumption

\* The flags of the endpoints.
UsbBits == frame \in BOOLEAN /\ inHost \in BOOLEAN /\ excused \in BOOLEAN

LEMMA BitsStep == UsbBits /\ UsbNext => UsbBits'
<1> SUFFICES ASSUME UsbBits, UsbNext PROVE UsbBits'
  OBVIOUS
<1> USE DEF UsbBits, waitVars, inVars, loopVars, lossVars
<1>1. CASE HostReads
  BY <1>1 DEF HostReads
<1>2. CASE HostWrites
  BY <1>2 DEF HostWrites
<1>3. CASE Frame
  BY <1>3 DEF Frame
<1>4. CASE BusEvent
  BY <1>4 DEF BusEvent
<1>5. CASE WakeUp
  BY <1>5 DEF WakeUp
<1>6. CASE USB_USBTask
  BY <1>6 DEF USB_USBTask
<1>7. CASE BeginPass
  BY <1>7 DEF BeginPass
<1>8. CASE Receive
  BY <1>8 DEF Receive
<1>9. CASE Handled
  BY <1>9 DEF Handled
<1>10. CASE SendEventPacket
  BY <1>10 DEF SendEventPacket
<1>11. CASE Ready
  BY <1>11 DEF Ready
<1>12. CASE WaitUntilReady
  BY <1>12 DEF WaitUntilReady
<1>13. CASE Flush
  BY <1>13 DEF Flush
<1>14. CASE EndPass
  BY <1>14 DEF EndPass
<1> QED
  BY <1>1, <1>2, <1>3, <1>4, <1>5, <1>6, <1>7, <1>8, <1>9, <1>10, <1>11, <1>12, <1>13, <1>14
     DEF UsbNext, Loop

\* Where the main loop is, and what it has received.
LoopOK ==
  /\ at \in {"loop", "receive", "handle", "part", "keys", "refresh"} \cup Waiting
  /\ out \in 0..CAPACITY
  /\ usb_rx_packets \in 0..RX_PACKET_LIMIT /\ usb_rx_fail_count \in 0..RX_FAIL_LIMIT
  /\ at = "receive" => usb_rx_fail_count < RX_FAIL_LIMIT
  /\ at \in {"handle", "part", "replying", "part_flushing"} => usb_rx_fail_count = 0

LEMMA LoopStep == LoopOK /\ UsbNext => LoopOK'
<1> SUFFICES ASSUME LoopOK, UsbNext PROVE LoopOK'
  OBVIOUS
<1>0. /\ CAPACITY \in Nat /\ RX_PACKET_LIMIT \in Nat \ {0} /\ RX_FAIL_LIMIT \in Nat \ {0}
      /\ out \in Nat /\ usb_rx_packets \in Nat /\ usb_rx_fail_count \in Nat
  BY UsbConstants DEF LoopOK
<1> USE DEF LoopOK, Waiting, Sends, Flushing
<1>1. CASE UNCHANGED <<at, usb_rx_packets, usb_rx_fail_count>> /\ out' \in 0..CAPACITY
  BY <1>1
<1>2. CASE HostReads \/ Frame \/ WakeUp \/ USB_USBTask
  <2>1. UNCHANGED <<at, usb_rx_packets, usb_rx_fail_count, out>>
    BY <1>2 DEF HostReads, Frame, WakeUp, USB_USBTask, loopVars
  <2> QED
    BY <1>1, <2>1
<1>3. CASE HostWrites \/ BusEvent
  <2>1. UNCHANGED <<at, usb_rx_packets, usb_rx_fail_count>> /\ out' \in (1..CAPACITY) \cup {0, out}
    BY <1>3 DEF HostWrites, BusEvent, loopVars
  <2>2. out' \in 0..CAPACITY
    BY <1>0, <2>1, SMTT(30)
  <2> QED
    BY <1>1, <2>1, <2>2
<1>4. CASE BeginPass
  <2>1. at' = "receive" /\ usb_rx_packets' = 0 /\ usb_rx_fail_count' = 0 /\ out' = out
    BY <1>4 DEF BeginPass
  <2> QED
    BY <1>0, <2>1, SMTT(30)
<1>5. CASE Receive
  <2>1. CASE at' = "keys" /\ UNCHANGED <<out, usb_rx_packets, usb_rx_fail_count>>
    BY <2>1
  <2>2. CASE /\ ~(usb_rx_packets >= RX_PACKET_LIMIT) /\ out > 0 /\ out' = out - 1
             /\ usb_rx_packets' = usb_rx_packets + 1 /\ usb_rx_fail_count' = 0 /\ at' = "handle"
    BY <1>0, <2>2, SMTT(30)
  <2>3. CASE /\ usb_rx_fail_count' = usb_rx_fail_count + 1
             /\ at' = (IF usb_rx_fail_count' >= RX_FAIL_LIMIT THEN "keys" ELSE "receive")
             /\ UNCHANGED <<out, usb_rx_packets>>
    <3>1. at = "receive"
      BY <1>5 DEF Receive
    <3>2. usb_rx_fail_count' \in 0..RX_FAIL_LIMIT
      BY <1>0, <2>3, <3>1, SMTT(30)
    <3>3. at' = "receive" => usb_rx_fail_count' < RX_FAIL_LIMIT
      BY <1>0, <2>3, <3>2
    <3> QED
      BY <2>3, <3>2, <3>3
  <2> QED
    BY <1>5, <2>1, <2>2, <2>3 DEF Receive, loopVars
<1>6. CASE Handled
  <2>1. /\ at \in {"handle", "part"} /\ at' = "receive"
        /\ UNCHANGED <<out, usb_rx_packets, usb_rx_fail_count>>
    BY <1>6 DEF Handled, loopVars
  <2> QED
    BY <1>0, <2>1, SMTT(30)
<1>7. CASE SendEventPacket \/ Flush \/ EndPass
  <2>1. /\ \/ at = "keys" /\ at' \in {"sending", "keys", "flushing", "refresh"}
           \/ at = "refresh" /\ at' \in {"notifying", "loop"}
           \/ at \in {"handle", "part"} /\ at' \in {"replying", "part", "part_flushing", "handle"}
        /\ UNCHANGED <<out, usb_rx_packets, usb_rx_fail_count>>
    BY <1>7 DEF SendEventPacket, Flush, EndPass, loopVars
  <2> QED
    BY <1>0, <2>1
<1>8. CASE Ready \/ WaitUntilReady
  <2>1. /\ at \in Waiting /\ at' \in {at, Return}
        /\ UNCHANGED <<out, usb_rx_packets, usb_rx_fail_count>>
    BY <1>8 DEF Ready, WaitUntilReady, loopVars
  <2>2. \/ at' = at
        \/ at' \in {"keys", "loop", "refresh"}
        \/ at' \in {"part", "handle"} /\ at \in {"replying", "part_flushing"}
    BY <2>1 DEF Return
  <2> QED
    BY <1>0, <2>1, <2>2
<1> QED
  BY <1>2, <1>3, <1>4, <1>5, <1>6, <1>7, <1>8 DEF UsbNext, Loop

\* The packets it sends: their numbers, their waits and their losses.
SendOK ==
  /\ packet \in 0..MAX_SENDS /\ rest \in 0..TIMEOUT
  /\ sent \in 0..MAX_SENDS /\ lost \subseteq 1..MAX_SENDS
  /\ unread \in 0..(TIMEOUT + 1)
  /\ Sending => packet # 0

LEMMA SendStep == LoopOK /\ SendOK /\ UsbNext => SendOK'
<1> SUFFICES ASSUME LoopOK, SendOK, UsbNext PROVE SendOK'
  OBVIOUS
<1>0. /\ TIMEOUT \in Nat /\ MAX_SENDS \in Nat /\ 0 \in 0 .. (TIMEOUT + 1)
  BY UsbConstants
<1> USE DEF SendOK, Sending
<1>1. CASE HostReads \/ HostWrites \/ Frame \/ BusEvent \/ WakeUp \/ USB_USBTask
  <2>1. UNCHANGED <<at, packet, rest, sent, lost>>
    BY <1>1 DEF HostReads, HostWrites, Frame, BusEvent, WakeUp, USB_USBTask, waitVars, lossVars
  <2>2. unread' \in {0, unread, IF inHost /\ unread <= TIMEOUT THEN unread + 1 ELSE unread}
    BY <1>1 DEF HostReads, HostWrites, Frame, BusEvent, WakeUp, USB_USBTask, inVars
  <2>3. unread' \in 0..(TIMEOUT + 1)
    BY <1>0, <2>2
  <2> QED
    BY <2>1, <2>3
<1>2. CASE BeginPass \/ Receive \/ Handled \/ EndPass
  <2>1. UNCHANGED <<packet, rest, sent, lost, unread>>
    BY <1>2 DEF BeginPass, Receive, Handled, EndPass, waitVars, lossVars, inVars
  <2>2. ~Sending'
    BY <1>2 DEF BeginPass, Receive, Handled, EndPass
  <2> QED
    BY <2>1, <2>2
<1>3. CASE SendEventPacket
  <2>1. sent < MAX_SENDS /\ sent' = sent + 1 /\ unread' = unread
    BY <1>3 DEF SendEventPacket, inVars
  <2>2. sent' \in 1..MAX_SENDS
    BY <1>0, <2>1
  <2>3. CASE packet' = sent' /\ rest' = TIMEOUT /\ lost' = lost
    BY <1>0, <2>1, <2>2, <2>3
  <2>4. CASE lost' = lost \cup {sent'} /\ UNCHANGED <<packet, rest>>
             /\ at' \in {"keys", "part", "loop"}
    BY <1>0, <2>1, <2>2, <2>4
  <2> QED
    BY <1>3, <2>3, <2>4 DEF SendEventPacket, waitVars, lossVars
<1>4. CASE Ready \/ WaitUntilReady
  <2>1. at \in Waiting /\ UNCHANGED <<sent, unread>>
    BY <1>4 DEF Ready, WaitUntilReady, inVars
  <2>2. CASE rest # 0 /\ rest' = rest - 1 /\ UNCHANGED <<at, packet, lost>>
    BY <1>0, <2>1, <2>2
  <2>3. CASE /\ at' = Return /\ packet' = 0 /\ rest' = 0
             /\ lost' = lost \/ (at \notin Flushing /\ lost' = lost \cup {packet})
    <3>1. ~Sending'
      BY <2>1, <2>3 DEF Return, Waiting, Sends, Flushing
    <3>2. at \notin Flushing => packet \in 1..MAX_SENDS
      BY <1>0, <2>1, SMTT(30) DEF Waiting, Sends
    <3>3. lost' \subseteq 1..MAX_SENDS
      <4>1. lost \subseteq 1..MAX_SENDS
        OBVIOUS
      <4> QED
        <5>1. CASE lost' = lost
          BY <4>1, <5>1
        <5>2. CASE at \notin Flushing /\ lost' = lost \cup {packet}
          BY <3>2, <4>1, <5>2
        <5> QED
          BY <2>3, <5>1, <5>2
    <3>4. packet' \in 0..MAX_SENDS /\ rest' \in 0..TIMEOUT /\ unread' = unread /\ sent' = sent
      BY <1>0, <2>1, <2>3, SMTT(30)
    <3> QED
      BY <3>1, <3>3, <3>4
  <2> QED
    BY <1>4, <2>2, <2>3 DEF Ready, WaitUntilReady, lossVars
<1>5. CASE Flush
  <2>1. UNCHANGED <<packet, sent, lost, unread>> /\ rest' \in {rest, TIMEOUT}
    BY <1>5 DEF Flush, lossVars
  <2>2. ~Sending'
    BY <1>5 DEF Flush
  <2> QED
    BY <1>0, <2>1, <2>2, SMTT(30)
<1> QED
  BY <1>1, <1>2, <1>3, <1>4, <1>5 DEF UsbNext, Loop

\* The IN bank.
FillOK ==
  /\ in \in Seq(1..MAX_SENDS) /\ Len(in) <= CAPACITY
  /\ ~inHost => Len(in) < CAPACITY

LEMMA FillStep == LoopOK /\ SendOK /\ FillOK /\ UsbNext => FillOK'
<1> SUFFICES ASSUME LoopOK, SendOK, FillOK, UsbNext PROVE FillOK'
  OBVIOUS
<1>0. CAPACITY \in Nat \ {0} /\ MAX_SENDS \in Nat
  BY UsbConstants
<1>1. CASE UNCHANGED in /\ (inHost' \/ inHost' = inHost)
  BY <1>1 DEF FillOK
<1>2. CASE in' = <<>>
  BY <1>0, <1>2 DEF FillOK
<1>3. CASE HostReads \/ BusEvent
  BY <1>1, <1>2, <1>3 DEF HostReads, BusEvent, inVars
<1>4. CASE HostWrites \/ Frame \/ WakeUp \/ USB_USBTask \/ BeginPass \/ Receive \/ Handled
           \/ SendEventPacket \/ WaitUntilReady \/ EndPass
  <2>1. UNCHANGED <<in, inHost>>
    BY <1>4 DEF HostWrites, Frame, WakeUp, USB_USBTask, BeginPass, Receive, Handled,
                       SendEventPacket, WaitUntilReady, EndPass, inVars
  <2> QED
    BY <1>1, <2>1
<1>5. CASE Flush
  BY <1>1, <1>5 DEF Flush
<1>6. CASE Ready
  <2>1. at \in Waiting /\ ~inHost
    BY <1>6 DEF Ready
  <2>2. CASE at \in Flushing
    BY <1>1, <1>6, <2>2 DEF Ready, inVars
  <2>3. CASE at \notin Flushing
    <3>1. in' = Append(in, packet) /\ (~inHost' => Len(in') # CAPACITY)
      BY <1>6, <2>3 DEF Ready
    <3>2. packet \in 1..MAX_SENDS
      BY <1>0, <2>1, <2>3, SMTT(30) DEF SendOK, Sending, Waiting, Sends
    <3>3. Len(in) < CAPACITY /\ in \in Seq(1..MAX_SENDS) /\ Len(in) \in Nat
      BY <2>1 DEF FillOK
    <3>4. in' \in Seq(1..MAX_SENDS) /\ Len(in') = Len(in) + 1
      BY <3>1, <3>2, <3>3
    <3>5. Len(in') <= CAPACITY /\ (Len(in') # CAPACITY => Len(in') < CAPACITY)
      BY <1>0, <3>3, <3>4
    <3> QED
      BY <3>1, <3>4, <3>5 DEF FillOK
  <2> QED
    BY <2>2, <2>3
<1> QED
  BY <1>3, <1>4, <1>5, <1>6 DEF UsbNext, Loop

\* The state of the bus.
LineOK == USB_DeviceState \in {"configured", "suspended", "default"} /\ bus \in 0..MAX_BUS

LEMMA LineStep == LineOK /\ UsbNext => LineOK'
<1> SUFFICES ASSUME LineOK, UsbNext PROVE LineOK'
  OBVIOUS
<1>1. CASE BusEvent
  <2>1. /\ bus < MAX_BUS /\ bus' = bus + 1 /\ USB_DeviceState' \in {"default", "suspended"}
    BY <1>1 DEF BusEvent
  <2> QED
    BY <2>1, UsbConstants, SMTT(30) DEF LineOK
<1>2. CASE WakeUp \/ USB_USBTask
  BY <1>2 DEF WakeUp, USB_USBTask, LineOK
<1>3. CASE UNCHANGED <<USB_DeviceState, bus>>
  BY <1>3 DEF LineOK
<1> QED
  BY <1>1, <1>2, <1>3 DEF UsbNext, Loop, HostReads, HostWrites, Frame, BeginPass, Receive,
     Handled, SendEventPacket, Ready, WaitUntilReady, Flush, EndPass

LEMMA BankStep == BankInv /\ [UsbNext]_usbVars => BankInv'
<1> SUFFICES ASSUME BankInv, [UsbNext]_usbVars PROVE BankInv'
  OBVIOUS
<1>1. UsbBits /\ LoopOK /\ SendOK /\ FillOK /\ LineOK
  BY DEF BankInv, UsbTypeOK, UsbBits, LoopOK, SendOK, FillOK, LineOK
<1>2. (UsbBits /\ LoopOK /\ SendOK /\ FillOK /\ LineOK)'
  <2>1. CASE UNCHANGED usbVars
    BY <1>1, <2>1, SMTT(30) DEF usbVars, UsbBits, LoopOK, SendOK, FillOK, LineOK, Sending
  <2> QED
    BY <1>1, <2>1, BitsStep, LoopStep, SendStep, FillStep, LineStep
<1> QED
  BY <1>2 DEF BankInv, UsbTypeOK, UsbBits, LoopOK, SendOK, FillOK, LineOK

LEMMA BankStart == UsbInit => BankInv
<1> SUFFICES ASSUME UsbInit PROVE BankInv
  OBVIOUS
<1>1. frame \in BOOLEAN /\ inHost \in BOOLEAN /\ excused \in BOOLEAN
  BY DEF UsbInit
<1> QED
  BY <1>1, UsbConstants DEF UsbInit, BankInv, UsbTypeOK, Sending

\* What SentInOrder rests on: its first four conjuncts, and the last two with why a
\* flush gives the bank away: the device is configured unless the bus went down.
QueueOK ==
  /\ \A k, j \in 1..Len(in) : k < j => in[k] < in[j]
  /\ \A k \in 1..Len(in) : in[k] <= sent /\ in[k] \notin lost /\ (Sending => in[k] < packet)
  /\ Sending => packet = sent /\ packet \notin lost
  /\ \A p \in lost : p <= sent
GivenOK ==
  /\ Configured \/ bus > 0
  /\ at \in {"flushing", "refresh", "notifying"} /\ in # <<>> => inHost \/ bus > 0
  /\ at = "loop" /\ in # <<>> => inHost \/ bus > 0 \/ in = <<sent>>
OrderInv == QueueOK /\ GivenOK

LEMMA QueueStep == BankInv /\ QueueOK /\ UsbNext => QueueOK'
<1> SUFFICES ASSUME BankInv, QueueOK, UsbNext PROVE QueueOK'
  OBVIOUS
<1>0. /\ in \in Seq(1..MAX_SENDS) /\ sent \in 0..MAX_SENDS /\ packet \in 0..MAX_SENDS
      /\ lost \subseteq 1..MAX_SENDS /\ MAX_SENDS \in Nat /\ Len(in) \in Nat
      /\ \A k \in 1..Len(in) : in[k] \in 1..MAX_SENDS
  BY UsbConstants, SMTT(30) DEF BankInv, UsbTypeOK
<1>1. CASE UNCHANGED <<in, packet, sent, lost>> /\ (Sending' => Sending)
  BY <1>1 DEF QueueOK
<1>2. CASE in' = <<>> /\ UNCHANGED <<at, packet, sent, lost>>
  BY <1>2 DEF QueueOK, Sending
<1>3. CASE HostReads \/ HostWrites \/ Frame \/ BusEvent \/ WakeUp \/ USB_USBTask
  <2>1. UNCHANGED <<at, packet, sent, lost>> /\ (in' = in \/ in' = <<>>)
    BY <1>3 DEF HostReads, HostWrites, Frame, BusEvent, WakeUp, USB_USBTask, waitVars,
       lossVars, inVars
  <2> QED
    BY <1>1, <1>2, <2>1 DEF Sending
<1>4. CASE BeginPass \/ Receive \/ Handled \/ Flush \/ EndPass
  <2>1. UNCHANGED <<in, packet, sent, lost>>
    BY <1>4 DEF BeginPass, Receive, Handled, Flush, EndPass, waitVars, lossVars, inVars
  <2>2. ~Sending'
    BY <1>4 DEF BeginPass, Receive, Handled, Flush, EndPass, Sending
  <2> QED
    BY <1>1, <2>1, <2>2
<1>5. CASE SendEventPacket
  <2>1. sent' = sent + 1 /\ in' = in /\ ~Sending
    BY <1>5 DEF SendEventPacket, inVars, Sending
  <2>2. \/ packet' = sent' /\ lost' = lost
        \/ lost' = lost \cup {sent'} /\ ~Sending'
    BY <1>5 DEF SendEventPacket, lossVars, Sending
  <2>3. \A k \in 1..Len(in) : in[k] < sent'
    BY <1>0, <2>1 DEF QueueOK
  <2>4. \A p \in lost : p < sent'
    BY <1>0, <2>1 DEF QueueOK
  <2>5. \A k \in 1..Len(in) : in[k] \notin lost'
    BY <1>0, <2>1, <2>2, <2>3 DEF QueueOK
  <2>6. ASSUME NEW p \in lost' PROVE p <= sent'
    <3>1. p \in lost \/ p = sent'
      BY <2>2
    <3>2. sent' \in Nat /\ lost \subseteq Nat
      BY <1>0, <2>1
    <3>3. CASE p \in lost
      <4>1. p < sent' /\ p \in Nat
        BY <2>4, <3>2, <3>3
      <4> QED
        BY <3>2, <4>1
    <3>4. CASE p = sent'
      BY <3>2, <3>4
    <3> QED
      BY <3>1, <3>3, <3>4
  <2>7. Sending' => packet' = sent' /\ packet' \notin lost'
    BY <1>0, <2>1, <2>2, <2>4
  <2>8. \A k \in 1..Len(in) : in[k] <= sent' /\ (Sending' => in[k] < packet')
    BY <1>0, <2>1, <2>3, <2>7
  <2> QED
    BY <2>1, <2>5, <2>6, <2>7, <2>8 DEF QueueOK
<1>6. CASE Ready
  <2>1. at \in Waiting /\ UNCHANGED <<sent, lost>> /\ at' = Return
    BY <1>6 DEF Ready, lossVars
  <2>2. ~Sending'
    BY <2>1 DEF Return, Waiting, Sends, Flushing, Sending
  <2>3. CASE at \in Flushing
    <3>1. in' = in
      BY <1>6, <2>3 DEF Ready, inVars
    <3> QED
      BY <2>1, <2>2, <3>1 DEF QueueOK
  <2>4. CASE at \notin Flushing
    <3>1. Sending /\ in' = Append(in, packet)
      BY <1>6, <2>1, <2>4 DEF Ready, Sending, Waiting, Sends
    <3>2. packet = sent /\ packet \notin lost /\ \A k \in 1..Len(in) : in[k] < packet
      BY <3>1 DEF QueueOK
    <3>3. /\ Len(in') = Len(in) + 1 /\ in'[Len(in) + 1] = packet
          /\ \A k \in 1..Len(in) : in'[k] = in[k]
      BY <1>0, <3>1
    <3>4. \A k \in 1..Len(in') : k \in 1..Len(in) \/ k = Len(in) + 1
      BY <1>0, <3>3
    <3>5. \A k \in 1..Len(in') : in'[k] <= sent /\ in'[k] \notin lost
      <4>1. \A k \in 1..Len(in) : in'[k] <= sent /\ in'[k] \notin lost
        BY <3>3 DEF QueueOK
      <4>2. in'[Len(in) + 1] <= sent /\ in'[Len(in) + 1] \notin lost
        BY <1>0, <3>2, <3>3, SMTT(30)
      <4> QED
        BY <3>4, <4>1, <4>2
    <3>6. ASSUME NEW k \in 1..Len(in'), NEW j \in 1..Len(in'), k < j PROVE in'[k] < in'[j]
      <4>1. k \in 1..Len(in)
        BY <1>0, <3>3, <3>6
      <4>2. CASE j \in 1..Len(in)
        BY <3>3, <3>6, <4>1, <4>2 DEF QueueOK
      <4>3. CASE j = Len(in) + 1
        BY <3>2, <3>3, <4>1, <4>3
      <4> QED
        BY <3>4, <4>2, <4>3
    <3> QED
      BY <2>1, <2>2, <3>5, <3>6 DEF QueueOK
  <2> QED
    BY <2>3, <2>4
<1>7. CASE WaitUntilReady
  <2>1. at \in Waiting /\ UNCHANGED <<in, sent>>
    BY <1>7 DEF WaitUntilReady, inVars
  <2>2. CASE UNCHANGED <<at, packet, lost>>
    BY <1>1, <2>1, <2>2 DEF Sending
  <2>3. CASE at' = Return /\ lost' = IF at \in Flushing THEN lost ELSE lost \cup {packet}
    <3>1. ~Sending' /\ (at \notin Flushing => Sending)
      BY <2>1, <2>3 DEF Return, Waiting, Sends, Flushing, Sending
    <3>2. lost' = lost \/ (lost' = lost \cup {packet} /\ Sending)
      BY <2>3, <3>1
    <3>3. Sending => packet = sent /\ \A k \in 1..Len(in) : in[k] < packet
      BY DEF QueueOK
    <3>4. \A k \in 1..Len(in) : in[k] \notin lost'
      BY <1>0, <3>2, <3>3 DEF QueueOK
    <3>5. \A p \in lost' : p <= sent
      <4>1. sent <= sent
        BY <1>0
      <4>2. \A p \in lost : p <= sent
        BY DEF QueueOK
      <4> QED
        BY <3>2, <3>3, <4>1, <4>2
    <3> QED
      BY <2>1, <3>1, <3>4, <3>5 DEF QueueOK
  <2> QED
    BY <1>7, <2>2, <2>3 DEF WaitUntilReady, lossVars
<1> QED
  BY <1>3, <1>4, <1>5, <1>6, <1>7 DEF UsbNext, Loop

LEMMA GivenStep == BankInv /\ QueueOK /\ GivenOK /\ UsbNext => GivenOK'
<1> SUFFICES ASSUME BankInv, QueueOK, GivenOK, UsbNext PROVE GivenOK'
  OBVIOUS
<1>0. bus \in Nat
  BY UsbConstants, SMTT(30) DEF BankInv, UsbTypeOK
<1>1. CASE BusEvent
  <2>1. bus' > 0
    BY <1>0, <1>1 DEF BusEvent
  <2> QED
    BY <2>1 DEF GivenOK
<1>2. CASE HostReads
  BY <1>2 DEF HostReads, GivenOK, Configured
<1>3. CASE HostWrites \/ Frame \/ WakeUp \/ USB_USBTask
  <2>1. UNCHANGED <<at, in, inHost, sent, bus>> /\ (Configured => Configured')
    BY <1>3 DEF HostWrites, Frame, WakeUp, USB_USBTask, inVars, Configured
  <2> QED
    BY <2>1 DEF GivenOK
<1>4. CASE BeginPass \/ Receive \/ Handled
  <2>1. UNCHANGED <<USB_DeviceState, bus>>
    BY <1>4 DEF BeginPass, Receive, Handled
  <2>2. at' \in {"receive", "handle", "keys"}
    BY <1>4 DEF BeginPass, Receive, Handled
  <2> QED
    BY <2>1, <2>2 DEF GivenOK, Configured
<1>5. CASE SendEventPacket \/ EndPass
  <2>1. UNCHANGED <<USB_DeviceState, bus, in, inHost>>
    BY <1>5 DEF SendEventPacket, EndPass, inVars
  <2>2. \/ at = "refresh" /\ at' \in {"notifying", "loop"}
        \/ at' \in {"sending", "replying", "keys", "part"}
    BY <1>5 DEF SendEventPacket, EndPass
  <2> QED
    BY <2>1, <2>2 DEF GivenOK, Configured
<1>6. CASE Flush
  <2>1. UNCHANGED <<USB_DeviceState, bus, in>>
    BY <1>6 DEF Flush
  <2>2. Configured /\ in # <<>> => inHost'
    BY <1>6 DEF Flush
  <2>3. at' # "loop"
    BY <1>6 DEF Flush
  <2> QED
    BY <2>1, <2>2, <2>3 DEF GivenOK, Configured
<1>7. CASE Ready \/ WaitUntilReady
  <2>1. UNCHANGED <<USB_DeviceState, bus, sent>> /\ at \in Waiting /\ at' \in {at, Return}
    BY <1>7 DEF Ready, WaitUntilReady
  <2>2. /\ at' \in {"flushing", "refresh"} => at = "flushing"
        /\ at' \in {"notifying", "loop"} => at = "notifying"
    BY <2>1 DEF Return, Waiting, Sends, Flushing
  <2>3. at = "flushing" \/ WaitUntilReady => UNCHANGED <<in, inHost>>
    BY <1>7 DEF Ready, WaitUntilReady, inVars, Flushing
  <2>4. CASE at # "notifying" \/ WaitUntilReady
    BY <2>1, <2>2, <2>3, <2>4 DEF GivenOK, Configured
  <2>5. CASE at = "notifying" /\ Ready
    <3>1. ~inHost /\ in' = Append(in, packet) /\ at' = "loop"
      BY <2>5 DEF Ready, Return, Flushing
    <3>2. in = <<>> \/ bus > 0
      BY <2>5, <3>1 DEF GivenOK
    <3>3. packet = sent
      BY <2>5 DEF QueueOK, Sending
    <3>4. in = <<>> => in' = <<sent'>>
      BY <2>1, <3>1, <3>3, SMTT(30)
    <3> QED
      BY <2>1, <3>1, <3>2, <3>4 DEF GivenOK, Configured
  <2> QED
    BY <1>7, <2>4, <2>5
<1> QED
  BY <1>1, <1>2, <1>3, <1>4, <1>5, <1>6, <1>7 DEF UsbNext, Loop

LEMMA OrderStep == BankInv /\ OrderInv /\ [UsbNext]_usbVars => OrderInv'
<1>1. OrderInv /\ UNCHANGED usbVars => OrderInv'
  <2> SUFFICES ASSUME OrderInv, UNCHANGED usbVars PROVE OrderInv'
    OBVIOUS
  <2>1. UNCHANGED <<at, packet, in, inHost, sent, lost, bus, USB_DeviceState>>
    BY DEF usbVars
  <2>2. QueueOK'
    BY <2>1 DEF OrderInv, QueueOK, Sending
  <2>3. GivenOK'
    BY <2>1 DEF OrderInv, GivenOK, Configured
  <2> QED
    BY <2>2, <2>3 DEF OrderInv
<1> QED
  BY <1>1, QueueStep, GivenStep DEF OrderInv

LEMMA OrderStart == UsbInit => OrderInv
BY DEF UsbInit, OrderInv, QueueOK, GivenOK, Sending, Configured

LEMMA OrderImplies == OrderInv => SentInOrder
BY DEF OrderInv, QueueOK, GivenOK, SentInOrder, Sending, Sends

\* For every size of the bank, every timeout and every number of packets: the host
\* gets the packets in the order in which they were sent, none twice and none whose
\* send failed, and a pass leaves behind at most the notification of a bank change.
THEOREM SentInOrderAlways == UsbSpec => []SentInOrder
<1>1. UsbInit => BankInv /\ OrderInv
  BY BankStart, OrderStart
<1>2. BankInv /\ OrderInv /\ [UsbNext]_usbVars => (BankInv /\ OrderInv)'
  BY BankStep, OrderStep
<1> QED
  BY <1>1, <1>2, OrderImplies, PTL DEF UsbSpec

----------------------------------------------------------------------------
(* How long a pass lasts.                                                  *)

LEMMA OneLess ==
  ASSUME NEW n \in Nat, NEW m \in Nat, m < n, NEW c \in Nat
  PROVE  /\ (n - m) * c \in Nat
         /\ (n - (m + 1)) * c = (n - m) * c - c
         /\ (n - (m + 1)) * c \in Nat
<1>1. PICK k \in Nat : n - m = k + 1
  <2>1. n - m - 1 \in Nat /\ n - m = (n - m - 1) + 1
    OBVIOUS
  <2> QED
    BY <2>1
<1>2. n - (m + 1) = k
  BY <1>1
<1>3. (k + 1) * c = k * c + c /\ k * c \in Nat
  OBVIOUS
<1> QED
  BY <1>1, <1>2, <1>3

LEMMA NoLess ==
  ASSUME NEW n \in Nat, NEW m \in 0..n, NEW c \in Nat
  PROVE  (n - m) * c \in Nat
<1>1. n - m \in Nat
  OBVIOUS
<1>2. \A k \in Nat : k * c \in Nat
  OBVIOUS
<1> QED
  BY <1>1, <1>2

LEMMA StepsFromPlace ==
  ASSUME NEW r \in Nat
  PROVE  /\ StepsFrom("loop", r) = 0
         /\ StepsFrom("notifying", r) = r + 1
         /\ StepsFrom("refresh", r) = TIMEOUT + 2
         /\ StepsFrom("flushing", r) = r + TIMEOUT + 3
         /\ StepsFrom("keys", r) = 2 * TIMEOUT + 4
         /\ StepsFrom("sending", r) = r + 2 * TIMEOUT + 5
         /\ StepsFrom("receive", r) = 2 * TIMEOUT + 5
         /\ StepsFrom("handle", r) = 2 * TIMEOUT + 6
         /\ StepsFrom("part_flushing", r) = r + 2 * TIMEOUT + 7
         /\ StepsFrom("part", r) = 3 * TIMEOUT + 8
         /\ StepsFrom("replying", r) = r + 3 * TIMEOUT + 9
BY UsbConstants DEF StepsFrom

Places == {"loop", "receive", "handle", "part", "keys", "refresh"} \cup Waiting
LEMMA StepsFromNat ==
  ASSUME NEW a \in Places, NEW r \in Nat
  PROVE  StepsFrom(a, r) \in Nat
BY StepsFromPlace, UsbConstants, SMTT(30) DEF Places, Waiting, Sends, Flushing

\* The four parts of StepsOfPass.
ForSends == (MAX_SENDS - sent) * SendSteps
ForPackets == (RX_PACKET_LIMIT - usb_rx_packets) * PacketSteps
ForFails == RX_FAIL_LIMIT - usb_rx_fail_count
Here == StepsFrom(at, rest)

LEMMA PartsAreNat ==
  BankInv => ForSends \in Nat /\ ForPackets \in Nat /\ ForFails \in Nat /\ Here \in Nat
<1> SUFFICES ASSUME BankInv PROVE ForSends \in Nat /\ ForPackets \in Nat /\ ForFails \in Nat /\ Here \in Nat
  OBVIOUS
<1>1. /\ sent \in 0..MAX_SENDS /\ usb_rx_packets \in 0..RX_PACKET_LIMIT
      /\ usb_rx_fail_count \in 0..RX_FAIL_LIMIT /\ rest \in 0..TIMEOUT /\ at \in Places
  BY DEF BankInv, UsbTypeOK, Places
<1>2. SendSteps \in Nat /\ PacketSteps \in Nat /\ rest \in Nat /\ ForFails \in Nat
  BY <1>1, UsbConstants, SMTT(30) DEF SendSteps, PacketSteps, ForFails
<1>3. ForSends \in Nat
  BY <1>1, <1>2, NoLess, UsbConstants DEF ForSends
<1>4. ForPackets \in Nat
  <2>1. RX_PACKET_LIMIT \in Nat
    BY UsbConstants
  <2> QED
    BY <1>1, <1>2, <2>1, NoLess DEF ForPackets
<1> QED
  BY <1>1, <1>2, <1>3, <1>4, StepsFromNat DEF Here

LEMMA AsManySteps ==
  ASSUME NEW a \in Nat, NEW b \in Nat, NEW f \in Nat, NEW h \in Nat
  PROVE  a + b + f + h <= a + b + f + h /\ a + b + f + h >= 0
OBVIOUS

LEMMA PassStep ==
  ASSUME BankInv, BankInv', at # "loop", UsbNext
  PROVE  /\ StepsOfPass' <= StepsOfPass /\ StepsOfPass' >= 0
         /\ TaskStep => StepsOfPass' < StepsOfPass
<1>1. /\ ForSends \in Nat /\ ForPackets \in Nat /\ ForFails \in Nat /\ Here \in Nat
  BY PartsAreNat
<1>2. /\ ForSends' \in Nat /\ ForPackets' \in Nat /\ ForFails' \in Nat /\ Here' \in Nat
  <2>1. /\ sent' \in 0..MAX_SENDS /\ usb_rx_packets' \in 0..RX_PACKET_LIMIT
        /\ usb_rx_fail_count' \in 0..RX_FAIL_LIMIT /\ rest' \in 0..TIMEOUT /\ at' \in Places
    BY DEF BankInv, UsbTypeOK, Places
  <2>2. SendSteps \in Nat /\ PacketSteps \in Nat /\ RX_PACKET_LIMIT \in Nat
    BY UsbConstants DEF SendSteps, PacketSteps
  <2>5. /\ \A k \in 0..RX_FAIL_LIMIT : RX_FAIL_LIMIT - k \in Nat
        /\ \A k \in 0..TIMEOUT : k \in Nat
    BY UsbConstants
  <2>6. ForFails' \in Nat /\ rest' \in Nat
    BY <2>1, <2>5 DEF ForFails
  <2>3. ForSends' \in Nat
    BY <2>1, <2>2, NoLess, UsbConstants DEF ForSends, SendSteps
  <2>4. ForPackets' \in Nat
    BY <2>1, <2>2, NoLess DEF ForPackets, PacketSteps
  <2> QED
    BY <2>1, <2>3, <2>4, <2>6, StepsFromNat DEF Here
<1>3. /\ StepsOfPass = ForSends + ForPackets + ForFails + Here
      /\ StepsOfPass' = ForSends' + ForPackets' + ForFails' + Here'
  BY DEF StepsOfPass, ForSends, ForPackets, ForFails, Here
<1>4. /\ TIMEOUT \in Nat /\ RX_FAIL_LIMIT \in Nat /\ rest \in 0..TIMEOUT /\ rest' \in 0..TIMEOUT
      /\ rest \in Nat /\ rest' \in Nat
  BY UsbConstants, SMTT(30) DEF BankInv, UsbTypeOK
<1>s. SendSteps \in Nat /\ PacketSteps = RX_FAIL_LIMIT + 2
  BY <1>4 DEF SendSteps, PacketSteps
<1>5. CASE \/ UNCHANGED <<ForSends, ForPackets, ForFails>> /\ Here' < Here
           \/ UNCHANGED <<ForSends, ForPackets>> /\ ForFails' = ForFails - 1 /\ Here' <= Here
           \/ /\ ForSends' = ForSends /\ ForPackets' = ForPackets - (RX_FAIL_LIMIT + 2)
              /\ ForFails' <= RX_FAIL_LIMIT /\ Here' = Here + 1
           \/ /\ ForSends' = ForSends - SendSteps /\ UNCHANGED <<ForPackets, ForFails>>
              /\ Here' < Here + SendSteps
  <2>1. PICK a2 \in Nat : a2 = ForSends'
    BY <1>2
  <2>2. PICK b2 \in Nat : b2 = ForPackets'
    BY <1>2
  <2>3. PICK f2 \in Nat : f2 = ForFails'
    BY <1>2
  <2>4. PICK h2 \in Nat : h2 = Here'
    BY <1>2
  <2>5. \/ a2 = ForSends /\ b2 = ForPackets /\ f2 = ForFails /\ h2 < Here
        \/ a2 = ForSends /\ b2 = ForPackets /\ f2 = ForFails - 1 /\ h2 <= Here
        \/ a2 = ForSends /\ b2 = ForPackets - (RX_FAIL_LIMIT + 2) /\ f2 <= RX_FAIL_LIMIT /\ h2 = Here + 1
        \/ a2 = ForSends - SendSteps /\ b2 = ForPackets /\ f2 = ForFails /\ h2 < Here + SendSteps
    BY <1>5, <2>1, <2>2, <2>3, <2>4
  <2>6. /\ a2 + b2 + f2 + h2 < ForSends + ForPackets + ForFails + Here
        /\ a2 + b2 + f2 + h2 <= ForSends + ForPackets + ForFails + Here
        /\ a2 + b2 + f2 + h2 >= 0
    BY <1>1, <1>4, <1>s, <2>5
  <2> QED
    BY <1>3, <2>1, <2>2, <2>3, <2>4, <2>6
<1>6. CASE Receive
  <2>1. UNCHANGED <<sent, rest>> /\ at = "receive"
    BY <1>6 DEF Receive, waitVars
  <2>2. ForSends' = ForSends /\ Here = 2 * TIMEOUT + 5
    BY <2>1, <1>4, StepsFromPlace DEF ForSends, SendSteps, Here
  <2>3. CASE at' = "keys" /\ UNCHANGED <<usb_rx_packets, usb_rx_fail_count>>
    <3>1. Here' = 2 * TIMEOUT + 4
      BY <1>4, <2>1, <2>3, StepsFromPlace DEF Here
    <3>2. ForPackets' = ForPackets /\ ForFails' = ForFails
      BY <2>3 DEF ForPackets, ForFails, PacketSteps
    <3> QED
      BY <1>4, <1>5, <2>2, <3>1, <3>2
  <2>4. CASE /\ usb_rx_packets < RX_PACKET_LIMIT /\ usb_rx_packets' = usb_rx_packets + 1
             /\ at' = "handle"
    <3>1. Here' = 2 * TIMEOUT + 6
      BY <1>4, <2>1, <2>4, StepsFromPlace DEF Here
    <3>2. ForPackets' = ForPackets - PacketSteps
      <4>1. PacketSteps \in Nat /\ RX_PACKET_LIMIT \in Nat /\ usb_rx_packets \in Nat
        BY UsbConstants, SMTT(30) DEF PacketSteps, BankInv, UsbTypeOK
      <4> QED
        BY <2>4, <4>1, OneLess DEF ForPackets, PacketSteps
    <3>3. ForFails' <= RX_FAIL_LIMIT
      <4>1. \A k \in 0..RX_FAIL_LIMIT : RX_FAIL_LIMIT - k <= RX_FAIL_LIMIT
        BY <1>4
      <4> QED
        BY <4>1 DEF ForFails, BankInv, UsbTypeOK
    <3>4. (2 * TIMEOUT + 5) + 1 = 2 * TIMEOUT + 6
      BY <1>4
    <3> QED
      BY <1>5, <1>s, <2>2, <3>1, <3>2, <3>3, <3>4
  <2>5. CASE /\ usb_rx_packets' = usb_rx_packets /\ at' \in {"keys", "receive"}
             /\ usb_rx_fail_count' = usb_rx_fail_count + 1
    <3>1. Here' = 2 * TIMEOUT + 4 \/ Here' = 2 * TIMEOUT + 5
      BY <1>4, <2>1, <2>5, StepsFromPlace DEF Here
    <3>2. ForPackets' = ForPackets
      BY <2>5 DEF ForPackets, PacketSteps
    <3>3. ForFails' = ForFails - 1
      BY <1>4, <2>5 DEF ForFails, BankInv, UsbTypeOK
    <3>4. /\ 2 * TIMEOUT + 4 <= 2 * TIMEOUT + 5
          /\ 2 * TIMEOUT + 5 <= 2 * TIMEOUT + 5
      BY <1>4
    <3> QED
      BY <1>5, <2>2, <3>1, <3>2, <3>3, <3>4
  <2>6. \/ usb_rx_packets >= RX_PACKET_LIMIT
        \/ usb_rx_packets < RX_PACKET_LIMIT
    BY UsbConstants DEF BankInv, UsbTypeOK
  <2>7. ~(usb_rx_packets >= RX_PACKET_LIMIT) => usb_rx_packets < RX_PACKET_LIMIT
    BY <2>6
  <2> QED
    BY <1>6, <2>3, <2>4, <2>5, <2>7 DEF Receive, loopVars
<1>7. CASE Handled \/ Ready \/ WaitUntilReady \/ Flush \/ EndPass
  <2>1. UNCHANGED <<ForSends, ForPackets, ForFails>>
    <3>1. UNCHANGED <<sent, usb_rx_packets, usb_rx_fail_count>>
      BY <1>7 DEF Handled, Ready, WaitUntilReady, Flush, EndPass, loopVars
    <3> QED
      BY <3>1 DEF ForSends, ForPackets, ForFails, SendSteps, PacketSteps
  <2>2. CASE Handled \/ Flush \/ EndPass
    <3>1. \/ at \in {"handle", "part"} /\ at' = "receive"
          \/ at = "keys" /\ at' \in {"flushing", "refresh"}
          \/ at = "refresh" /\ at' = "loop"
          \/ at = "part" /\ at' \in {"part_flushing", "handle"}
      BY <2>2 DEF Handled, Flush, EndPass
    <3>2. Here' < Here
      BY <1>4, <3>1, StepsFromPlace, SMTT(30) DEF Here
    <3> QED
      BY <1>5, <2>1, <3>2
  <2>3. CASE Ready \/ WaitUntilReady
    <3>1. /\ at \in Waiting
          /\ at' = Return \/ (at' = at /\ rest' = rest - 1)
      BY <2>3 DEF Ready, WaitUntilReady
    <3>2. \/ at' = at /\ rest' = rest - 1 /\ at \in {"sending", "replying", "notifying", "flushing", "part_flushing"}
          \/ at = "sending" /\ at' = "keys"
          \/ at = "replying" /\ at' = "part"
          \/ at = "notifying" /\ at' = "loop"
          \/ at = "flushing" /\ at' = "refresh"
          \/ at = "part_flushing" /\ at' = "handle"
      BY <3>1 DEF Return, Waiting, Sends, Flushing
    <3>3. Here' < Here
      BY <1>4, <3>2, StepsFromPlace DEF Here
    <3> QED
      BY <1>5, <2>1, <3>3
  <2> QED
    BY <1>7, <2>2, <2>3
<1>8. CASE SendEventPacket
  <2>1. /\ sent < MAX_SENDS /\ sent' = sent + 1 /\ UNCHANGED <<usb_rx_packets, usb_rx_fail_count>>
    BY <1>8 DEF SendEventPacket, loopVars
  <2>2. ForPackets' = ForPackets /\ ForFails' = ForFails
    BY <2>1 DEF ForPackets, ForFails, PacketSteps
  <2>3. ForSends' = ForSends - SendSteps
    <3>1. SendSteps \in Nat /\ MAX_SENDS \in Nat /\ sent \in Nat
      BY UsbConstants, SMTT(30) DEF SendSteps, BankInv, UsbTypeOK
    <3> QED
      BY <2>1, <3>1, OneLess DEF ForSends, SendSteps
  <2>4. \/ at = "keys" /\ at' \in {"sending", "keys"}
        \/ at = "refresh" /\ at' \in {"notifying", "loop"}
        \/ at \in {"handle", "part"} /\ at' \in {"replying", "part"}
    BY <1>8 DEF SendEventPacket
  <2>5. Here' < Here + SendSteps
    BY <1>4, <2>4, StepsFromPlace DEF Here, SendSteps
  <2> QED
    BY <1>5, <2>2, <2>3, <2>5
<1>9. CASE ~TaskStep
  <2>1. HostReads \/ HostWrites \/ Frame \/ BusEvent \/ WakeUp \/ USB_USBTask \/ BeginPass
    BY <1>9 DEF UsbNext, Loop, TaskStep
  <2>2. HostReads \/ HostWrites \/ Frame \/ BusEvent \/ WakeUp
    BY <2>1 DEF USB_USBTask, BeginPass
  <2>3. UNCHANGED <<at, rest, sent, usb_rx_packets, usb_rx_fail_count>>
    BY <2>2 DEF HostReads, HostWrites, Frame, BusEvent, WakeUp, waitVars, loopVars
  <2>4. UNCHANGED <<ForSends, ForPackets, ForFails, Here>>
    BY <2>3 DEF ForSends, ForPackets, ForFails, Here, SendSteps, PacketSteps, StepsFrom
  <2> QED
    BY <1>1, <1>3, <1>9, <2>4, AsManySteps
<1> QED
  BY <1>6, <1>7, <1>8, <1>9 DEF TaskStep

\* For every size of the bank, every timeout and every limit of the receive loop:
\* each step of the task is one of the steps its pass has left, of which host, bus and
\* frames can add none.  TaskGoesOn follows by fairness.
THEOREM PassAdvancesAlways == UsbSpec => PassAdvances
<1>1. BankInv /\ BankInv' /\ [UsbNext]_usbVars =>
        [at # "loop" => /\ StepsOfPass' <= StepsOfPass /\ StepsOfPass' >= 0
                        /\ TaskStep => StepsOfPass' < StepsOfPass]_usbVars
  BY PassStep
<1> QED
  BY <1>1, BankStart, BankStep, PTL DEF UsbSpec, PassAdvances

----------------------------------------------------------------------------
(* The bootloader.                                                         *)

\* A key in RAM and a jump under way stand for one request each that is not met.
BootInv ==
  /\ requests \in Nat /\ entries \in Nat /\ entries <= requests
  /\ Boot_Key => entries < requests
  /\ mode = "jump" => entries < requests
  /\ Boot_Key /\ mode = "jump" => entries + 1 < requests

LEMMA BootStep == BootInv /\ [WatchdogNext]_watchdogVars => BootInv'
<1> SUFFICES ASSUME BootInv, [WatchdogNext]_watchdogVars PROVE BootInv'
  OBVIOUS
<1> USE DEF BootInv
<1>1. CASE /\ UNCHANGED <<Boot_Key, requests, entries>>
           /\ mode' = mode \/ mode' # "jump"
  BY <1>1
<1>2. CASE mode = "reset" /\ Bootloader_Jump_Check
  BY <1>2 DEF Bootloader_Jump_Check
<1>3. ASSUME mode = "reset", NEW held \in BOOLEAN, StartMain(held) PROVE BootInv'
  <2>1. UNCHANGED <<Boot_Key, entries>>
    BY <1>3 DEF StartMain
  <2>2. CASE mode' = "jump" /\ requests' = requests + 1
    BY <2>1, <2>2
  <2>3. CASE mode' = "loop" /\ UNCHANGED requests
    BY <2>1, <2>3
  <2> QED
    BY <1>3, <2>2, <2>3 DEF StartMain
<1>4. CASE sysExCmdSystem_bootloader
  <2>1. UNCHANGED <<Boot_Key, entries>> /\ requests' = requests + 1
    BY <1>4 DEF sysExCmdSystem_bootloader
  <2> QED
    BY <2>1
<1>5. CASE Jump_To_Bootloader
  <2>1. mode = "jump" /\ mode' = "spin" /\ UNCHANGED <<requests, entries>>
    BY <1>5 DEF Jump_To_Bootloader
  <2> QED
    BY <2>1
<1>6. CASE PowerOff
  <2>1. UNCHANGED <<requests, entries>> /\ (Boot_Key' => Boot_Key) /\ mode' = "off"
    BY <1>6 DEF PowerOff
  <2> QED
    BY <2>1
<1>7. CASE \/ ClockTick \/ WatchdogReset \/ (\E fed \in BOOLEAN : BeginTask(fed))
           \/ HostStalls \/ BeginSave \/ EndSave \/ EndTask \/ SetConfiguration \/ EndLoop
           \/ USB_GEN_vect \/ PowerOn \/ BootloaderExit \/ UNCHANGED watchdogVars
  <2>1. UNCHANGED <<Boot_Key, requests, entries>> /\ (mode' = mode \/ mode' # "jump")
    BY <1>7 DEF ClockTick, WatchdogReset, BeginTask, HostStalls, BeginSave, EndSave, EndTask,
       SetConfiguration, EndLoop, USB_GEN_vect, PowerOn, BootloaderExit, watchdogVars, bootVars
  <2> HIDE DEF BootInv
  <2> QED
    BY <1>1, <2>1
<1> QED
  BY <1>2, <1>3, <1>4, <1>5, <1>6, <1>7 DEF WatchdogNext, Reset

\* For every number of requests and every timing: the bootloader is entered at most
\* once for each.
THEOREM EntryPerRequestAlways == WatchdogSpec => []EntryPerRequest
<1>1. WatchdogInit => BootInv
  BY DEF WatchdogInit, BootInv
<1>2. BootInv => EntryPerRequest
  BY DEF BootInv, EntryPerRequest
<1> QED
  BY <1>1, <1>2, BootStep, PTL DEF WatchdogSpec

----------------------------------------------------------------------------
(* The watchdog.                                                           *)

\* In a pass that is not stalled the watchdog was fed no longer ago than the pass
\* lasts, once the flag is set; a command that takes long runs without it.
Looping == {"loop", "task", "usb"}
FeedInv ==
  /\ age \in Nat /\ spent \in Nat
  /\ mode \in {"save", "jump"} => wdt = 0
  /\ served => watchdog_flag
  /\ mode \in Looping => wdt \in {0, WDTO_2S} /\ spent <= PASS
  /\ mode \in Looping /\ served /\ ~stalled /\ wdt # 0 => age <= spent

LEMMA FeedStep == FeedInv /\ [WatchdogNext]_watchdogVars => FeedInv'
<1> SUFFICES ASSUME FeedInv, [WatchdogNext]_watchdogVars PROVE FeedInv'
  OBVIOUS
<1>0. PASS \in Nat /\ WDTO_2S \in Nat /\ WDTO_2S > PASS
  BY WatchdogAssumption
<1> USE DEF FeedInv, Looping
<1>1. CASE ClockTick
  <2>1. UNCHANGED <<mode, wdt, watchdog_flag, stalled, served>>
    BY <1>1 DEF ClockTick
  <2>2. spent' = (IF spent < Longest THEN spent + 1 ELSE spent)
        /\ age' = (IF wdt = 0 THEN age ELSE age + 1)
    BY <1>1 DEF ClockTick
  <2>3. spent < Longest \/ stalled
    BY <1>1 DEF ClockTick
  <2>4. mode \in Looping => Longest = PASS
    BY DEF Longest
  <2> QED
    BY <1>0, <2>1, <2>2, <2>3, <2>4, SMTT(30)
<1>2. CASE WatchdogReset \/ PowerOff \/ PowerOn \/ BootloaderExit
           \/ (mode = "reset" /\ Bootloader_Jump_Check)
  <2>1. mode' \in {"reset", "off", "bootloader"}
        /\ UNCHANGED <<age, spent, served, watchdog_flag>>
    BY <1>2 DEF WatchdogReset, PowerOff, PowerOn, BootloaderExit, Bootloader_Jump_Check
  <2> QED
    BY <2>1
<1>3. ASSUME NEW held \in BOOLEAN, StartMain(held) PROVE FeedInv'
  <2>1. age' = 0 /\ spent' = 0 /\ wdt' = 0 /\ ~served'
    BY <1>3 DEF StartMain
  <2> QED
    BY <1>0, <2>1
<1>4. ASSUME NEW fed \in BOOLEAN, BeginTask(fed) PROVE FeedInv'
  <2>1. mode = "loop" /\ mode' \in Looping
        /\ UNCHANGED <<wdt, watchdog_flag, spent, stalled, served>>
    BY <1>4 DEF BeginTask
  <2>2. age' = 0 \/ age' = age
    BY <1>4 DEF BeginTask
  <2> QED
    BY <2>1, <2>2
<1>5. CASE HostStalls
  <2>1. stalled' /\ UNCHANGED <<mode, wdt, age, watchdog_flag, spent, served>>
    BY <1>5 DEF HostStalls
  <2> QED
    BY <2>1
<1>6. CASE BeginSave \/ sysExCmdSystem_bootloader
  <2>1. wdt' = 0 /\ mode' \in {"save", "jump"} /\ spent' = 0
        /\ UNCHANGED <<age, watchdog_flag, served>>
    BY <1>6 DEF BeginSave, sysExCmdSystem_bootloader
  <2> QED
    BY <2>1
<1>7. CASE EndSave
  <2>1. mode' = "task" /\ spent' = 0 /\ age' = 0 /\ wdt' = WDTO_2S
        /\ UNCHANGED <<watchdog_flag, served>>
    BY <1>7 DEF EndSave
  <2> QED
    BY <1>0, <2>1
<1>8. CASE Jump_To_Bootloader
  <2>1. mode' = "spin" /\ spent' = 0 /\ age' = 0 /\ UNCHANGED <<watchdog_flag, served>>
    BY <1>8 DEF Jump_To_Bootloader
  <2> QED
    BY <2>1
<1>9. CASE EndTask
  <2>1. mode = "task" /\ mode' = "usb" /\ watchdog_flag'
        /\ UNCHANGED <<wdt, age, spent, stalled, served>>
    BY <1>9 DEF EndTask
  <2> QED
    BY <2>1
<1>10. CASE SetConfiguration
  <2>1. mode = "usb" /\ age' = 0 /\ wdt' = WDTO_2S
        /\ UNCHANGED <<mode, watchdog_flag, spent, stalled, served>>
    BY <1>10 DEF SetConfiguration
  <2> QED
    BY <2>1
<1>11. CASE EndLoop
  <2>1. mode = "usb" /\ mode' = "loop" /\ spent' = 0 /\ UNCHANGED <<wdt, watchdog_flag>>
    BY <1>11 DEF EndLoop, Feed
  <2>2. served' => watchdog_flag
    BY <1>11 DEF EndLoop
  <2>3. age' = (IF watchdog_flag THEN 0 ELSE age)
    BY <1>11 DEF EndLoop, Feed
  <2> QED
    BY <1>0, <2>1, <2>2, <2>3, SMTT(30)
<1>12. CASE USB_GEN_vect \/ UNCHANGED watchdogVars
  <2>1. UNCHANGED <<mode, wdt, age, watchdog_flag, spent, stalled, served>>
    BY <1>12 DEF USB_GEN_vect, watchdogVars
  <2> QED
    BY <2>1
<1> QED
  BY <1>1, <1>2, <1>3, <1>4, <1>5, <1>6, <1>7, <1>8, <1>9, <1>10, <1>11, <1>12
     DEF WatchdogNext, Reset

\* A fed watchdog has not expired.
LEMMA FedInTime ==
  FeedInv => (WatchdogReset => stalled \/ mode = "spin" \/ ~served)
<1> SUFFICES ASSUME FeedInv, WatchdogReset, ~stalled, mode # "spin", served PROVE FALSE
  OBVIOUS
<1>0. PASS \in Nat /\ WDTO_2S \in Nat /\ WDTO_2S > PASS
  BY WatchdogAssumption
<1>1. mode \in Running /\ wdt # 0 /\ age >= wdt
  BY DEF WatchdogReset, Expired
<1>2. mode \in Looping
  BY <1>1 DEF Running, Looping, FeedInv
<1>3. wdt = WDTO_2S /\ age <= spent /\ spent <= PASS
  BY <1>1, <1>2 DEF FeedInv
<1> QED
  BY <1>0, <1>1, <1>3, SMTT(30) DEF FeedInv

\* For every time a pass, a save and the jump may take, as long as a pass that is not
\* stalled is shorter than the watchdog: it resets no working device.
THEOREM NoSpuriousResetAlways == WatchdogSpec => NoSpuriousReset
<1>1. WatchdogInit => FeedInv
  BY DEF WatchdogInit, FeedInv, Looping
<1>2. FeedInv /\ [WatchdogNext]_watchdogVars
        => [WatchdogReset => stalled \/ mode = "spin" \/ ~served]_watchdogVars
  BY FedInTime
<1> QED
  BY <1>1, <1>2, FeedStep, PTL DEF WatchdogSpec, NoSpuriousReset


----------------------------------------------------------------------------
(* The types of the watchdog's state.                                      *)

LEMMA WatchdogConstants ==
  /\ WDTO_2S \in Nat \ {0} /\ WDTO_250MS \in 1..WDTO_2S
  /\ MAX_REQUESTS \in Nat
BY WatchdogAssumption

WatchdogBits ==
  /\ Boot_Key \in BOOLEAN /\ WDRF \in BOOLEAN /\ watchdog_flag \in BOOLEAN
  /\ configured \in BOOLEAN /\ suspended \in BOOLEAN
  /\ stalled \in BOOLEAN /\ served \in BOOLEAN /\ owed \in BOOLEAN
  /\ mode \in Mode

WatchdogNumbers ==
  /\ wdt \in {0, WDTO_2S, WDTO_250MS} /\ age \in 0..WDTO_2S
  /\ spent \in Nat /\ requests \in 0..MAX_REQUESTS /\ entries \in Nat

LEMMA WatchdogBitsStep == WatchdogBits /\ WatchdogNext => WatchdogBits'
<1> SUFFICES ASSUME WatchdogBits, WatchdogNext PROVE WatchdogBits'
  OBVIOUS
<1>0. /\ \A b, c \in BOOLEAN : (b /\ c) \in BOOLEAN /\ (b \/ c) \in BOOLEAN
      /\ TRUE \in BOOLEAN /\ FALSE \in BOOLEAN
  OBVIOUS
<1>1. {"off", "reset", "bootloader", "loop", "task", "usb", "save", "jump", "spin"} \subseteq Mode
  BY DEF Mode, Running
<1> USE DEF WatchdogBits, busVars, bootVars
<1>2. CASE ClockTick \/ WatchdogReset \/ Bootloader_Jump_Check
  BY <1>0, <1>1, <1>2 DEF ClockTick, WatchdogReset, Bootloader_Jump_Check
<1>3. CASE \E held \in BOOLEAN : StartMain(held)
  BY <1>0, <1>1, <1>3 DEF StartMain
<1>4. CASE \E fed \in BOOLEAN : BeginTask(fed)
  BY <1>1, <1>4 DEF BeginTask
<1>5. CASE HostStalls \/ BeginSave \/ EndSave
  BY <1>0, <1>1, <1>5, ZenonT(60) DEF HostStalls, BeginSave, EndSave
<1>6. CASE sysExCmdSystem_bootloader \/ Jump_To_Bootloader \/ EndTask
  BY <1>0, <1>1, <1>6, ZenonT(60) DEF sysExCmdSystem_bootloader, Jump_To_Bootloader, EndTask
<1>7. CASE SetConfiguration
  BY <1>0, <1>7 DEF SetConfiguration
<1>8. CASE EndLoop
  BY <1>0, <1>1, <1>8 DEF EndLoop, Feed
<1>9. CASE USB_GEN_vect
  BY <1>0, <1>9 DEF USB_GEN_vect
<1>10. CASE PowerOff
  BY <1>0, <1>1, <1>10 DEF PowerOff
<1>11. CASE PowerOn \/ BootloaderExit
  BY <1>0, <1>1, <1>11, ZenonT(60) DEF PowerOn, BootloaderExit
<1> QED
  BY <1>2, <1>3, <1>4, <1>5, <1>6, <1>7, <1>8, <1>9, <1>10, <1>11 DEF WatchdogNext, Reset

LEMMA WatchdogNumbersStep == WatchdogNumbers /\ WatchdogNext => WatchdogNumbers'
<1> SUFFICES ASSUME WatchdogNumbers, WatchdogNext PROVE WatchdogNumbers'
  OBVIOUS
<1>0. /\ WDTO_2S \in Nat \ {0} /\ WDTO_250MS \in 1..WDTO_2S /\ MAX_REQUESTS \in Nat
      /\ 0 \in 0..WDTO_2S
  BY WatchdogConstants
<1> USE DEF WatchdogNumbers
<1>1. CASE ClockTick
  <2>1. /\ ~Expired /\ spent' \in {spent, spent + 1} /\ age' = IF wdt = 0 THEN age ELSE age + 1
        /\ UNCHANGED <<wdt, requests, entries>>
    BY <1>1 DEF ClockTick, Alive, bootVars
  <2> QED
    BY <1>0, <2>1, SMTT(30) DEF Expired
<1>2. CASE /\ wdt' \in {wdt, 0, WDTO_2S, WDTO_250MS} /\ age' \in {age, 0}
           /\ spent' \in {spent, 0} /\ UNCHANGED <<requests, entries>>
  BY <1>0, <1>2, SMTT(30)
<1>3. CASE Bootloader_Jump_Check
  BY <1>0, <1>3, SMTT(30) DEF Bootloader_Jump_Check
<1>4. CASE \E held \in BOOLEAN : StartMain(held)
  <2>1. /\ wdt' = 0 /\ age' = 0 /\ spent' = 0 /\ entries' = entries
        /\ requests' = requests \/ (requests < MAX_REQUESTS /\ requests' = requests + 1)
    BY <1>4 DEF StartMain
  <2> QED
    BY <1>0, <2>1
<1>5. CASE sysExCmdSystem_bootloader
  BY <1>0, <1>5 DEF sysExCmdSystem_bootloader
<1>6. CASE (\E fed \in BOOLEAN : BeginTask(fed)) \/ HostStalls \/ BeginSave \/ EndSave
  BY <1>2, <1>6 DEF BeginTask, HostStalls, BeginSave, EndSave, bootVars
<1>7. CASE Jump_To_Bootloader \/ EndTask \/ SetConfiguration \/ EndLoop
  BY <1>2, <1>7 DEF Jump_To_Bootloader, EndTask, SetConfiguration, EndLoop, Feed, bootVars
<1>8. CASE WatchdogReset \/ USB_GEN_vect \/ PowerOff \/ PowerOn \/ BootloaderExit
  BY <1>2, <1>8 DEF WatchdogReset, USB_GEN_vect, PowerOff, PowerOn, BootloaderExit, bootVars
<1> QED
  BY <1>1, <1>3, <1>4, <1>5, <1>6, <1>7, <1>8 DEF WatchdogNext, Reset

LEMMA WatchdogTypeStep == WatchdogTypeOK /\ [WatchdogNext]_watchdogVars => WatchdogTypeOK'
<1> SUFFICES ASSUME WatchdogTypeOK, [WatchdogNext]_watchdogVars PROVE WatchdogTypeOK'
  OBVIOUS
<1>1. WatchdogBits /\ WatchdogNumbers
  BY DEF WatchdogTypeOK, WatchdogBits, WatchdogNumbers
<1>2. CASE WatchdogNext
  <2>1. (WatchdogBits /\ WatchdogNumbers)'
    BY <1>1, <1>2, WatchdogBitsStep, WatchdogNumbersStep
  <2> QED
    BY <2>1 DEF WatchdogTypeOK, WatchdogBits, WatchdogNumbers
<1>3. CASE UNCHANGED watchdogVars
  BY <1>3, ZenonT(60) DEF watchdogVars, WatchdogTypeOK
<1> QED
  BY <1>2, <1>3

LEMMA WatchdogTypeStart == WatchdogInit => WatchdogTypeOK
<1> SUFFICES ASSUME WatchdogInit PROVE WatchdogTypeOK
  OBVIOUS
<1>1. /\ mode = "off" /\ wdt = 0 /\ age = 0 /\ spent = 0 /\ requests = 0 /\ entries = 0
      /\ WatchdogBits \/ mode \notin Mode
  BY DEF WatchdogInit, WatchdogBits
<1>2. mode \in Mode /\ WatchdogNumbers
  BY <1>1, WatchdogConstants DEF WatchdogNumbers, Mode
<1> QED
  BY <1>1, <1>2 DEF WatchdogTypeOK, WatchdogBits, WatchdogNumbers

----------------------------------------------------------------------------
(* The watchdog guards every pass, and a request is on its way.            *)

\* The watchdog is on while the device is configured, except for the commands that
\* switch it off.
GuardInv ==
  /\ PassIsGuarded /\ RequestKept
  /\ configured /\ mode \in Looping => wdt = WDTO_2S

\* A step other than those of Jump_To_Bootloader leaves no request or changes nothing
\* that it depends on.
LEMMA GuardStep == WatchdogTypeOK /\ GuardInv /\ [WatchdogNext]_watchdogVars => GuardInv'
<1> SUFFICES ASSUME WatchdogTypeOK, GuardInv, [WatchdogNext]_watchdogVars PROVE GuardInv'
  OBVIOUS
<1>0. /\ WDTO_2S \in Nat \ {0} /\ WDTO_250MS \in 1..WDTO_2S /\ JUMP \in Nat
      /\ age \in Nat /\ spent \in Nat
  BY WatchdogAssumption, SMTT(30) DEF WatchdogTypeOK
<1>i. \/ ~owed
      \/ mode = "jump" /\ wdt = 0 /\ spent <= JUMP
      \/ mode = "spin" /\ wdt = WDTO_250MS /\ age <= wdt /\ Boot_Key
      \/ mode = "reset" /\ WDRF /\ Boot_Key
  BY DEF GuardInv, RequestKept
<1>g. /\ mode = "task" => wdt = WDTO_2S
      /\ configured /\ mode \in Looping => wdt = WDTO_2S
  BY DEF GuardInv, PassIsGuarded
<1> USE DEF GuardInv, PassIsGuarded, RequestKept, Looping, Running
<1>1. CASE ClockTick
  <2>1. UNCHANGED <<mode, wdt, configured, Boot_Key, WDRF, owed>>
    BY <1>1 DEF ClockTick, busVars, bootVars
  <2>2. spent' = (IF spent < Longest THEN spent + 1 ELSE spent)
        /\ age' = (IF wdt = 0 THEN age ELSE age + 1)
    BY <1>1 DEF ClockTick
  <2>3. mode \in Running /\ (wdt = 0 \/ age < wdt)
    BY <1>0, <1>1 DEF ClockTick, Alive, Expired, WatchdogTypeOK
  <2>4. mode = "jump" => Longest = JUMP
    BY DEF Longest
  <2>5. /\ mode = "jump" /\ spent <= JUMP => spent' <= JUMP
        /\ mode = "spin" /\ wdt = WDTO_250MS => age' <= wdt
    BY <1>0, <2>2, <2>3, <2>4
  <2> QED
    BY <1>i, <1>g, <2>1, <2>3, <2>5
<1>2. CASE WatchdogReset
  <2>1. /\ mode \in Running /\ mode' = "reset" /\ WDRF' = TRUE /\ UNCHANGED <<Boot_Key, owed>>
        /\ wdt # 0
    BY <1>2 DEF WatchdogReset, Expired
  <2> QED
    BY <1>i, <2>1
<1>3. CASE PowerOff \/ (mode = "reset" /\ Bootloader_Jump_Check)
  <2>1. mode' \in {"off", "bootloader"} /\ ~owed'
    BY <1>3 DEF PowerOff, Bootloader_Jump_Check
  <2> QED
    BY <2>1
<1>4. CASE PowerOn \/ BootloaderExit
  <2>1. mode \in {"off", "bootloader"} /\ mode' = "reset" /\ owed' = owed
    BY <1>4 DEF PowerOn, BootloaderExit, bootVars
  <2> QED
    BY <1>i, <2>1
<1>5. ASSUME mode = "reset", NEW held \in BOOLEAN, StartMain(held) PROVE GuardInv'
  <2>1. ~owed
    BY <1>i, <1>5 DEF StartMain
  <2>2. wdt' = 0 /\ spent' = 0 /\ configured' = FALSE
    BY <1>5 DEF StartMain
  <2>3. mode' = "jump" \/ (mode' = "loop" /\ owed' = owed)
    BY <1>5 DEF StartMain
  <2> QED
    BY <1>0, <2>1, <2>2, <2>3
<1>6. ASSUME NEW fed \in BOOLEAN, BeginTask(fed) PROVE GuardInv'
  <2>1. mode = "loop" /\ UNCHANGED <<wdt, configured, owed>>
    BY <1>6 DEF BeginTask, busVars, bootVars
  <2>2. (mode' = "task" /\ configured) \/ mode' = "usb"
    BY <1>6 DEF BeginTask
  <2> QED
    BY <1>i, <1>g, <2>1, <2>2
<1>7. CASE BeginSave
  <2>1. mode = "task" /\ mode' = "save" /\ owed' = owed
    BY <1>7 DEF BeginSave, bootVars
  <2> QED
    BY <1>i, <2>1
<1>8. CASE EndSave
  <2>1. mode = "save" /\ mode' = "task" /\ wdt' = WDTO_2S /\ owed' = owed
    BY <1>8 DEF EndSave, bootVars
  <2> QED
    BY <1>i, <2>1
<1>9. CASE sysExCmdSystem_bootloader
  <2>1. mode' = "jump" /\ wdt' = 0 /\ spent' = 0
    BY <1>9 DEF sysExCmdSystem_bootloader
  <2> QED
    BY <1>0, <2>1
<1>10. CASE Jump_To_Bootloader
  <2>1. mode' = "spin" /\ wdt' = WDTO_250MS /\ age' = 0 /\ Boot_Key' = TRUE
    BY <1>10 DEF Jump_To_Bootloader
  <2> QED
    BY <1>0, <2>1
<1>11. CASE EndTask \/ EndLoop
  <2>1. mode \in {"task", "usb"} /\ mode' \in {"usb", "loop"}
    BY <1>11 DEF EndTask, EndLoop
  <2>2. UNCHANGED <<wdt, configured, owed>>
    BY <1>11 DEF EndTask, EndLoop, busVars, bootVars
  <2> QED
    BY <1>i, <1>g, <2>1, <2>2
<1>12. CASE SetConfiguration
  <2>1. mode = "usb" /\ wdt' = WDTO_2S /\ UNCHANGED <<mode, owed>>
    BY <1>12 DEF SetConfiguration, bootVars
  <2> QED
    BY <1>i, <2>1
<1>13. CASE HostStalls \/ USB_GEN_vect \/ UNCHANGED watchdogVars
  <2>1. UNCHANGED <<mode, wdt, age, spent, Boot_Key, WDRF, owed>>
    BY <1>13 DEF HostStalls, USB_GEN_vect, busVars, bootVars, watchdogVars
  <2>2. configured' = configured \/ configured' = FALSE
    BY <1>13 DEF HostStalls, USB_GEN_vect, busVars, watchdogVars
  <2> QED
    BY <1>i, <1>g, <2>1, <2>2, SMTT(30)
<1> QED
  BY <1>1, <1>2, <1>3, <1>4, <1>5, <1>6, <1>7, <1>8, <1>9, <1>10, <1>11, <1>12, <1>13
     DEF WatchdogNext, Reset

LEMMA GuardStart == WatchdogInit => GuardInv
BY DEF WatchdogInit, GuardInv, PassIsGuarded, RequestKept, Looping

\* Midifighter_Task never runs without the watchdog, and a request for the bootloader
\* is never lost on its way there, for every length of passes, saves and waits.
THEOREM PassIsGuardedAlways == WatchdogSpec => [](PassIsGuarded /\ RequestKept)
<1>1. GuardInv => PassIsGuarded /\ RequestKept
  BY DEF GuardInv
<1> QED
  BY <1>1, WatchdogTypeStart, WatchdogTypeStep, GuardStart, GuardStep, PTL DEF WatchdogSpec

\* A step while a request is on its way is one of the steps that are left of it.
LEMMA RequestStep ==
  WatchdogTypeOK /\ GuardInv /\ WatchdogNext /\ owed /\ owed'
    => StepsLeft' < StepsLeft /\ StepsLeft' >= 0
<1> SUFFICES ASSUME WatchdogTypeOK, GuardInv, WatchdogNext, owed, owed'
             PROVE  StepsLeft' < StepsLeft /\ StepsLeft' >= 0
  OBVIOUS
<1>0. /\ WDTO_2S \in Nat \ {0} /\ WDTO_250MS \in Nat \ {0} /\ JUMP \in Nat
      /\ age \in Nat /\ spent \in Nat
  BY WatchdogAssumption, SMTT(30) DEF WatchdogTypeOK
<1>i. \/ mode = "jump" /\ wdt = 0 /\ spent <= JUMP
      \/ mode = "spin" /\ wdt = WDTO_250MS /\ age <= wdt /\ Boot_Key
      \/ mode = "reset" /\ WDRF /\ Boot_Key
  BY DEF GuardInv, RequestKept
<1>1. /\ mode = "jump" => StepsLeft = (JUMP - spent) + WDTO_250MS + 2
      /\ mode = "spin" => StepsLeft = (WDTO_250MS - age) + 1
      /\ mode = "reset" => StepsLeft = 0
  BY DEF StepsLeft
<1>2. /\ mode' = "jump" => StepsLeft' = (JUMP - spent') + WDTO_250MS + 2
      /\ mode' = "spin" => StepsLeft' = (WDTO_250MS - age') + 1
      /\ mode' = "reset" => StepsLeft' = 0
  BY DEF StepsLeft
<1>3. CASE ClockTick
  <2>1. /\ mode' = mode /\ mode \in Running
        /\ spent' = (IF spent < Longest THEN spent + 1 ELSE spent)
        /\ age' = (IF wdt = 0 THEN age ELSE age + 1)
    BY <1>3 DEF ClockTick, Alive
  <2>2. mode = "jump" \/ mode = "spin"
    BY <1>i, <2>1 DEF Running
  <2>3. CASE mode = "jump"
    <3>1. spent < JUMP /\ Longest = JUMP
      BY <1>3, <2>3 DEF ClockTick, Longest
    <3> QED
      BY <1>0, <1>1, <1>2, <2>1, <2>3, <3>1
  <2>4. CASE mode = "spin"
    <3>1. wdt = WDTO_250MS /\ age < wdt
      BY <1>0, <1>i, <1>3, <2>4, SMTT(30) DEF ClockTick, Alive, Expired
    <3> QED
      BY <1>0, <1>1, <1>2, <2>1, <2>4, <3>1
  <2> QED
    BY <2>2, <2>3, <2>4
<1>4. CASE WatchdogReset
  <2>1. mode \in Running /\ mode' = "reset" /\ wdt # 0
    BY <1>4 DEF WatchdogReset, Expired
  <2>2. mode = "spin" /\ wdt = WDTO_250MS /\ age <= wdt
    BY <1>i, <2>1 DEF Running
  <2> QED
    BY <1>0, <1>1, <1>2, <2>1, <2>2, SMTT(30)
<1>5. CASE Jump_To_Bootloader
  <2>1. mode = "jump" /\ mode' = "spin" /\ age' = 0
    BY <1>5 DEF Jump_To_Bootloader
  <2> QED
    BY <1>0, <1>i, <1>1, <1>2, <2>1, SMTT(30)
<1>6. CASE Reset \/ PowerOff
  <2>1. ~\E held \in BOOLEAN : mode = "reset" /\ StartMain(held)
    BY <1>i DEF StartMain
  <2> QED
    BY <1>6, <2>1 DEF Reset, Bootloader_Jump_Check, PowerOff
<1>7. ~(\E fed \in BOOLEAN : BeginTask(fed)) /\ ~HostStalls /\ ~BeginSave /\ ~EndSave
      /\ ~sysExCmdSystem_bootloader /\ ~EndTask /\ ~SetConfiguration /\ ~EndLoop
  BY <1>i DEF BeginTask, HostStalls, BeginSave, EndSave, sysExCmdSystem_bootloader, EndTask,
     SetConfiguration, EndLoop
<1>8. ~USB_GEN_vect /\ ~PowerOn /\ ~BootloaderExit
  BY <1>i DEF USB_GEN_vect, PowerOn, BootloaderExit, Alive, Running
<1> QED
  BY <1>3, <1>4, <1>5, <1>6, <1>7, <1>8 DEF WatchdogNext

\* From a request on, every step of the device brings the bootloader nearer: it is
\* entered after JUMP + WDTO_250MS ticks, whatever the bus and the host do.
THEOREM RequestAdvancesAlways == WatchdogSpec => RequestAdvances
<1>1. WatchdogTypeOK /\ GuardInv /\ [WatchdogNext]_watchdogVars
        => [owed /\ owed' => StepsLeft' < StepsLeft /\ StepsLeft' >= 0]_watchdogVars
  BY RequestStep
<1> QED
  BY <1>1, WatchdogTypeStart, WatchdogTypeStep, GuardStart, GuardStep, PTL
     DEF WatchdogSpec, RequestAdvances
=============================================================================

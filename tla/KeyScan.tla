------------------------------ MODULE KeyScan ------------------------------
(***************************************************************************)
(* key.c: the ring of raw key samples, written by the TIMER0 interrupt and *)
(* read by the main loop, one entry at a time, with interrupts enabled.    *)
(*                                                                         *)
(* A 64-bit sample is the set of keys whose bit is 1.  The interrupt may   *)
(* fall between the reads of any two entries; inside the read of one entry *)
(* it makes each key's bit old or new, and as the bits of different keys   *)
(* never meet in key_read, an interrupt inside an entry is for every key   *)
(* an interrupt before or after it: Key stands for the keys of one byte.   *)
(***************************************************************************)
EXTENDS Integers

CONSTANTS Key,             \* the keys read together in one byte
          N,               \* DEBOUNCE_BUFFER_SIZE: 10 in the firmware
          TIME_MOD,        \* system_time_ms wraps here: 2^16 in the firmware
          ISR_PER_POLL     \* TIMER0 interrupts that fit in one poll: the
                           \* timer fires every millisecond, a poll takes
                           \* microseconds, so 1

ASSUME KeyScanAssumption ==
  /\ N \in Nat \ {0}
  /\ TIME_MOD \in Nat \ {0}
  /\ ISR_PER_POLL \in 0..1

VARIABLES
  g_key_debounce_buffer,
  buffer_pos,              \* the interrupt's static write index
  system_time_ms,
  g_key_state, g_key_prev_state, g_key_down, g_key_up,
  i,                       \* key_read's loop index; N once the loop is done
  polling,                 \* the main loop is between key_read and key_calc
  interrupts,              \* history: interrupts taken during this poll
  overwritten              \* history: the sample the last interrupt replaced

scanVars == <<g_key_debounce_buffer, buffer_pos, system_time_ms, g_key_state,
              g_key_prev_state, g_key_down, g_key_up, i, polling, interrupts,
              overwritten>>

Index == 0 .. (N - 1)

ScanInit ==
  /\ g_key_debounce_buffer = [j \in Index |-> {}]
  /\ buffer_pos = 0
  /\ system_time_ms = 0
  /\ g_key_state = {} /\ g_key_prev_state = {}
  /\ g_key_down = {} /\ g_key_up = {}
  /\ i = N /\ polling = FALSE /\ interrupts = 0
  /\ overwritten = {}

\* Mutant: a poll slow enough for a second interrupt to fall into it.
TIMER0_OVF_vect_twice(contacts) ==
  /\ polling => interrupts <= ISR_PER_POLL
  /\ interrupts' = IF polling THEN interrupts + 1 ELSE 0
  /\ g_key_debounce_buffer' = [g_key_debounce_buffer EXCEPT ![buffer_pos] = contacts]
  /\ overwritten' = g_key_debounce_buffer[buffer_pos]
  /\ buffer_pos' = (buffer_pos + 1) % N
  /\ system_time_ms' = (system_time_ms + 1) % TIME_MOD
  /\ UNCHANGED <<g_key_state, g_key_prev_state, g_key_down, g_key_up, i, polling>>

\* ISR(TIMER0_OVF_vect): shift in the contacts, store them, advance.
TIMER0_OVF_vect(contacts) ==
  /\ polling => interrupts < ISR_PER_POLL
  /\ interrupts' = IF polling THEN interrupts + 1 ELSE 0
  /\ g_key_debounce_buffer' = [g_key_debounce_buffer EXCEPT ![buffer_pos] = contacts]
  /\ overwritten' = g_key_debounce_buffer[buffer_pos]
  /\ buffer_pos' = (buffer_pos + 1) % N
  /\ system_time_ms' = (system_time_ms + 1) % TIME_MOD
  /\ UNCHANGED <<g_key_state, g_key_prev_state, g_key_down, g_key_up, i, polling>>

\* key_read, before its loop: every bit set.
key_read_begin ==
  /\ ~polling
  /\ polling' = TRUE /\ i' = 0 /\ interrupts' = 0
  /\ g_key_state' = Key
  /\ UNCHANGED <<g_key_debounce_buffer, buffer_pos, system_time_ms, overwritten,
                 g_key_prev_state, g_key_down, g_key_up>>

\* One turn of key_read's loop.
key_read_entry ==
  /\ polling /\ i < N
  /\ g_key_state' = g_key_state \cap g_key_debounce_buffer[i]
  /\ i' = i + 1
  /\ UNCHANGED <<g_key_debounce_buffer, buffer_pos, system_time_ms, overwritten,
                 g_key_prev_state, g_key_down, g_key_up, polling, interrupts>>

\* The exclusive or of two bit sets.
Xor(a, b) == (a \ b) \cup (b \ a)

\* Mutant: the current state is not demoted to history.
key_calc_no_demotion ==
  /\ polling /\ i = N
  /\ g_key_down' = Xor(g_key_prev_state, g_key_state) \cap g_key_state
  /\ g_key_up' = Xor(g_key_prev_state, g_key_state) \cap g_key_prev_state
  /\ polling' = FALSE /\ interrupts' = 0
  /\ UNCHANGED <<g_key_debounce_buffer, buffer_pos, system_time_ms, overwritten,
                 g_key_prev_state, g_key_state, i>>

key_calc ==
  /\ polling /\ i = N
  /\ g_key_down' = Xor(g_key_prev_state, g_key_state) \cap g_key_state
  /\ g_key_up' = Xor(g_key_prev_state, g_key_state) \cap g_key_prev_state
  /\ g_key_prev_state' = g_key_state
  /\ polling' = FALSE /\ interrupts' = 0
  /\ UNCHANGED <<g_key_debounce_buffer, buffer_pos, system_time_ms, overwritten,
                 g_key_state, i>>

Interrupt == \E contacts \in SUBSET Key : TIMER0_OVF_vect(contacts)
MainLoop == key_read_begin \/ key_read_entry \/ key_calc
ScanNext == Interrupt \/ MainLoop

ScanSpec == ScanInit /\ [][ScanNext]_scanVars

\* The timer keeps running and the main loop keeps polling.
ScanFairSpec == ScanSpec /\ WF_scanVars(Interrupt) /\ WF_scanVars(MainLoop)

----------------------------------------------------------------------------
\* Types; the interrupt's index never leaves the ring.
ScanTypeOK ==
  /\ g_key_debounce_buffer \in [Index -> SUBSET Key]
  /\ buffer_pos \in Index
  /\ system_time_ms \in 0 .. (TIME_MOD - 1)
  /\ g_key_state \subseteq Key /\ g_key_prev_state \subseteq Key
  /\ g_key_down \subseteq Key /\ g_key_up \subseteq Key
  /\ i \in 0..N /\ polling \in BOOLEAN
  /\ interrupts \in Nat
  /\ overwritten \subseteq Key

\* The ring entry holding the sample of age rank a: 1 is the oldest still
\* stored (the one the next interrupt replaces), N the newest.
Slot(a) == IF buffer_pos + a - 1 < N THEN buffer_pos + a - 1
                                     ELSE buffer_pos + a - 1 - N

\* The last N+1 samples in the order they were taken.
History == [a \in 0..N |-> IF a = 0 THEN overwritten
                                    ELSE g_key_debounce_buffer[Slot(a)]]

Debounce == INSTANCE KeyDebounce WITH
  hist <- History, pressed <- g_key_prev_state, down <- g_key_down, up <- g_key_up

\* The unprotected scan reports what an atomic poll of N consecutive samples
\* would have reported: with at most one interrupt in a poll, key_read never
\* mixes an old entry with a new one into a state the keys were never in.
ScanIsAtomic == Debounce!Spec

\* A key whose contacts stay closed (or open) is eventually reported pressed (or
\* released) for as long as they do, whatever the phase of interrupt and scan.
LastSample == g_key_debounce_buffer[Slot(N)]
SteadyKeyReported ==
  \A k \in Key : /\ <>[](k \in LastSample) => <>[](k \in g_key_prev_state)
                 /\ <>[](k \notin LastSample) => <>[](k \notin g_key_prev_state)

\* The strengthening that makes the scan argument inductive.  While a poll runs,
\* the entries read so far are all from before, or all from after, the one
\* interrupt that may have fallen into it; the first can only be when the entry
\* that interrupt wrote had been read already.
Common(b, m) == {k \in Key : \A j \in 0 .. (m - 1) : k \in b[j]}
BeforeInterrupt == [g_key_debounce_buffer EXCEPT ![Slot(N)] = overwritten]
ScanInv ==
  /\ ScanTypeOK
  /\ polling => interrupts <= 1
  /\ polling => \/ g_key_state = Common(g_key_debounce_buffer, i)
                \/ /\ interrupts = 1
                   /\ Slot(N) < i
                   /\ g_key_state = Common(BeforeInterrupt, i)
=============================================================================

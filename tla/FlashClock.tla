---------------------------- MODULE FlashClock -----------------------------
(***************************************************************************)
(* The counter that flashes and pulses the lights: counted by the timer    *)
(* interrupt (led.c) while there is no MIDI clock, and by the main loop    *)
(* (midi.c) on every third clock message of the host.  The main loop's     *)
(* increment of a 16-bit counter takes several instructions, and the       *)
(* interrupt may come between them.                                        *)
(***************************************************************************)
EXTENDS Integers

CONSTANTS
  WIDTH,   \* the counter counts modulo WIDTH: 2^16
  BEAT     \* timer interrupts to a count: 75

ASSUME FlashAssumption == WIDTH \in Nat \ {0} /\ BEAT \in Nat \ {0}

VARIABLES
  midi_clock_enabled,
  tick,                    \* led.c
  ticks,                   \* midi.c
  display_flash_counter,
  adding,                  \* the main loop's increment: 0 none, 1 to read, 2 to write
  read,                    \* the value it read
  running,                 \* ghost: the host's last message was not a stop
  beats                    \* ghost: counts made by either

flashVars == <<midi_clock_enabled, tick, ticks, display_flash_counter, adding, read, running, beats>>

FlashInit ==
  /\ midi_clock_enabled = FALSE
  /\ tick = 0 /\ ticks = 0
  /\ display_flash_counter = 0
  /\ adding = 0 /\ read = 0 /\ running = FALSE /\ beats = 0

\* Mutant: the timer counts whether or not there is a clock.
TimerBeat_always ==
  /\ IF tick = BEAT
     THEN /\ tick' = 1
          /\ display_flash_counter' = (display_flash_counter + 1) % WIDTH
          /\ beats' = (beats + 1) % WIDTH
     ELSE /\ tick' = tick + 1
          /\ UNCHANGED <<display_flash_counter, beats>>
  /\ UNCHANGED <<midi_clock_enabled, ticks, adding, read, running>>

\* TIMER1_OVF_vect, its part on the flash counter.
TimerBeat ==
  /\ ~midi_clock_enabled
  /\ IF tick = BEAT
     THEN /\ tick' = 1
          /\ display_flash_counter' = (display_flash_counter + 1) % WIDTH
          /\ beats' = (beats + 1) % WIDTH
     ELSE /\ tick' = tick + 1
          /\ UNCHANGED <<display_flash_counter, beats>>
  /\ UNCHANGED <<midi_clock_enabled, ticks, adding, read, running>>

\* 0xF8: midi_clock_enable(true), then midi_clock; its branch for a clock that is
\* not enabled is never taken.
midi_clock ==
  /\ adding = 0
  /\ midi_clock_enabled' = TRUE
  /\ running' = TRUE
  /\ IF ticks = 3
     THEN ticks' = 1 /\ adding' = 1
     ELSE ticks' = ticks + 1 /\ adding' = 0
  /\ UNCHANGED <<tick, display_flash_counter, read, beats>>

\* display_flash_counter += 1: it is read, and then written.
ReadCounter ==
  /\ adding = 1
  /\ adding' = 2 /\ read' = display_flash_counter
  /\ UNCHANGED <<midi_clock_enabled, tick, ticks, display_flash_counter, running, beats>>

WriteCounter ==
  /\ adding = 2
  /\ display_flash_counter' = (read + 1) % WIDTH
  /\ beats' = (beats + 1) % WIDTH
  /\ adding' = 0 /\ read' = 0
  /\ UNCHANGED <<midi_clock_enabled, tick, ticks, running>>

\* Mutant: a stop is ignored.
midi_clock_enable_only(state) ==
  /\ adding = 0
  /\ midi_clock_enabled' = (midi_clock_enabled \/ state)
  /\ running' = state
  /\ UNCHANGED <<tick, ticks, display_flash_counter, adding, read, beats>>

\* 0xFA and 0xFC: start and stop.
midi_clock_enable(state) ==
  /\ adding = 0
  /\ midi_clock_enabled' = state
  /\ running' = state
  /\ UNCHANGED <<tick, ticks, display_flash_counter, adding, read, beats>>

FlashNext ==
  \/ TimerBeat \/ midi_clock \/ ReadCounter \/ WriteCounter
  \/ \E state \in BOOLEAN : midi_clock_enable(state)

\* Timer and main loop run; the host sends what it likes.
FlashFairness == WF_flashVars(TimerBeat) /\ WF_flashVars(ReadCounter \/ WriteCounter)
FlashSpec == FlashInit /\ [][FlashNext]_flashVars /\ FlashFairness

----------------------------------------------------------------------------
\* Types.
FlashTypeOK ==
  /\ midi_clock_enabled \in BOOLEAN /\ running \in BOOLEAN
  /\ tick \in 0..BEAT /\ ticks \in 0..3
  /\ {display_flash_counter, read, beats} \subseteq 0..(WIDTH - 1) /\ adding \in 0..2

\* No count is lost or made twice between the timer and the main loop, although
\* both increment the counter and neither locks it.
NoBeatLost == display_flash_counter = beats

\* The lights go on flashing as long as the host sends its clock, and once it has
\* stopped it.  (A host that goes silent without a stop freezes them.)
FlashGoesOn ==
  []<><<midi_clock>>_flashVars \/ <>[](~running)
    => []<><<display_flash_counter' # display_flash_counter>>_flashVars
=============================================================================

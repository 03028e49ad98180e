------------------------------- MODULE Pulse -------------------------------
(***************************************************************************)
(* display.c: the lights that flash or pulse at one of eight rates, all    *)
(* taken from the one 16-bit counter of FlashClock.  The counter wraps,    *)
(* and the pulse shifts it left before it shifts it right, so that bits    *)
(* fall off at both ends.                                                  *)
(***************************************************************************)
EXTENDS Integers

CONSTANTS
  COUNT    \* the counter counts modulo COUNT: 2^16

\* The counter makes whole turns of the slowest pulse: 256 steps of 2^7.
ASSUME PulseAssumption == COUNT \in Nat \ {0} /\ COUNT % 2^15 = 0

VARIABLES
  count,      \* display_flash_counter
  clocked     \* midi_clock_enabled

pulseVars == <<count, clocked>>

\* The device has been on for any time.
PulseInit == count \in 0 .. (COUNT - 1) /\ clocked \in BOOLEAN

\* One count, by the timer or by the host's clock.
Beat ==
  /\ count' = (count + 1) % COUNT
  /\ UNCHANGED clocked

\* The host's clock starts or stops.
Clock ==
  /\ clocked' = ~clocked
  /\ UNCHANGED count

PulseNext == Beat \/ Clock

----------------------------------------------------------------------------
\* The velocities on the animation channel that flash, and that pulse.
FlashVelocity == 34 .. 41
PulseVelocity == 42 .. 49

\* Whether a light flashing at this rate is on.
flash_animation(flash_rate) == (count \div 2^(8 - flash_rate)) % 2 = 1

\* Mutant: the shifted counter is kept in a byte.
rgb_step_byte(pulse_rate) ==
  ((count * (IF clocked THEN 32 ELSE 16)) % 256) \div 2^(8 - pulse_rate)

\* Where in its turn of 256 steps a light pulsing at this rate is; pulse_animation
\* takes the brightness from its sine.
rgb_step(pulse_rate) ==
  (((count * (IF clocked THEN 32 ELSE 16)) % COUNT) \div 2^(8 - pulse_rate)) % 256

FlashOn(velocity) == flash_animation(velocity - 33)
PulseStep(velocity) == rgb_step(velocity - 41)

----------------------------------------------------------------------------
\* Types.
PulseTypeOK == count \in 0 .. (COUNT - 1) /\ clocked \in BOOLEAN

\* At every count, also where the counter wraps, flashing lights go together: one
\* changes only as the one of the next higher rate goes off.  And no pulsing light
\* jumps: it moves forward by an eighth of its turn at most, although both shifts of
\* pulse_animation lose bits.
LightsKeepTime ==
  [][Beat =>
       /\ \A v \in FlashVelocity \ {41} :
            FlashOn(v)' # FlashOn(v) => FlashOn(v + 1) /\ ~FlashOn(v + 1)'
       /\ \A v \in PulseVelocity : (PulseStep(v)' - PulseStep(v)) % 256 <= 32]_pulseVars
=============================================================================

---------------------------- MODULE KeyDebounce ----------------------------
(***************************************************************************)
(* What the key debouncer promises the rest of the firmware, with no       *)
(* interrupt, ring buffer or scan loop in sight.  The contacts are sampled *)
(* once a millisecond; a poll reports, atomically, the keys that were      *)
(* pressed in every one of N CONSECUTIVE samples, the newest of which is   *)
(* the newest sample taken or the one before it.  KeyScan implements this. *)
(***************************************************************************)
EXTENDS Integers

CONSTANTS Key,   \* the keys
          N      \* DEBOUNCE_BUFFER_SIZE

VARIABLES hist,     \* the last N+1 samples, hist[0] the oldest
          pressed,  \* the debounced state reported by the last poll
          down,     \* keys the last poll reported as pressed since the one before
          up        \* keys it reported as released

vars == <<hist, pressed, down, up>>

\* The keys set in every sample of the ages 0..N-1 counted from first.
InAll(first) == {k \in Key : \A a \in first .. (first + N - 1) : k \in hist[a]}

Init ==
  /\ hist = [a \in 0..N |-> {}]
  /\ pressed = {} /\ down = {} /\ up = {}

Sample(contacts) ==
  /\ hist' = [a \in 0..N |-> IF a = N THEN contacts ELSE hist[a + 1]]
  /\ UNCHANGED <<pressed, down, up>>

Poll ==
  /\ pressed' \in {InAll(0), InAll(1)}
  /\ down' = pressed' \ pressed
  /\ up' = pressed \ pressed'
  /\ UNCHANGED hist

Next == Poll \/ \E contacts \in SUBSET Key : Sample(contacts)

Spec == Init /\ [][Next]_vars
=============================================================================

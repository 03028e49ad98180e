---------------------------- MODULE BankButtons ----------------------------
(***************************************************************************)
(* What bank selection promises, without the clock: the two bank keys of   *)
(* the last poll, which of them may still change the bank, and the bank.   *)
(***************************************************************************)
EXTENDS Integers

Bank == 0..1

VARIABLES held,     \* banks whose key is down
          armed,    \* banks whose key is down, was pressed last, and has not
                    \* changed the bank yet
          bank

vars == <<held, armed, bank>>

\* A key held since power on is not armed.
Init == held \subseteq Bank /\ armed = {} /\ bank = 0

\* A press disarms the other key.  When both go down in one poll, the key
\* with the higher number is serviced last and stays armed.
Poll(down, up) ==
  /\ held' = (held \cup down) \ up
  /\ armed' = IF down = {} THEN armed \ up ELSE {b \in down : \A c \in down : c <= b}
  /\ UNCHANGED bank

HostSelects(b) == bank' = b /\ armed' = {} /\ UNCHANGED held

ButtonSelects(b) == b \in armed /\ bank' = b /\ armed' = {} /\ UNCHANGED held

Next ==
  \/ \E down \in SUBSET (Bank \ held), up \in SUBSET held : Poll(down, up)
  \/ \E b \in Bank : HostSelects(b) \/ ButtonSelects(b)

Spec == Init /\ [][Next]_vars
=============================================================================

----------------------------- MODULE SysExOut ------------------------------
(***************************************************************************)
(* midi.c, midi_stream_sysex: a message of any length cut into USB-MIDI    *)
(* event packets.  Byte i of the message is the number i.                  *)
(***************************************************************************)
EXTENDS Integers, Sequences

CONSTANT MAX_LENGTH   \* bound: the longest message; the device sends up to 35 bytes

ASSUME SysExOutAssumption == MAX_LENGTH \in Nat

VARIABLES
  length,   \* of the message
  num,      \* bytes left
  first,    \* no packet was sent yet
  heard,    \* history: the bytes a host that goes by the event codes has got
  over      \* history: it saw the message end, with the last packet

outVars == <<length, num, first, heard, over>>

Byte_(i) == length - num + i   \* *data++, i bytes ahead

OutInit ==
  /\ length \in 0..MAX_LENGTH /\ num = length
  /\ first = TRUE /\ heard = <<>> /\ over = FALSE

\* USB-MIDI 1.0: how many of the three bytes an event code makes valid.
Valid(event) == CASE event = 5 -> 1 [] event = 6 -> 2 [] OTHER -> 3

\* External: the host takes the valid bytes of a packet, and sees the end by its code.
HostTakes(event, data) ==
  /\ heard' = heard \o SubSeq(data, 1, Valid(event))
  /\ over' = (event # 4)

\* Mutant: the loop takes the last three bytes too.
Continue_all ==
  /\ num >= 3
  /\ HostTakes(4, <<Byte_(1), Byte_(2), Byte_(3)>>)
  /\ first' = FALSE /\ num' = num - 3
  /\ UNCHANGED length

\* A round of the loop: a packet that starts or continues the message.
Continue ==
  /\ num > 3
  /\ HostTakes(4, <<Byte_(1), Byte_(2), Byte_(3)>>)
  /\ first' = FALSE /\ num' = num - 3
  /\ UNCHANGED length

\* The event code of the packet that ends it.
EndCode == CASE num = 1 -> 5 [] num = 2 -> 6 [] num = 3 /\ first -> 3 [] OTHER -> 7

\* That packet, padded with zeros.
Finish ==
  /\ num \in 1..3
  /\ HostTakes(EndCode, [i \in 1..3 |-> IF i <= num THEN Byte_(i) ELSE 0])
  /\ num' = 0
  /\ UNCHANGED <<length, first>>

OutNext == Continue \/ Finish
OutSpec == OutInit /\ [][OutNext]_outVars

----------------------------------------------------------------------------
\* Types.
OutTypeOK ==
  /\ length \in 0..MAX_LENGTH /\ num \in 0..length /\ first \in BOOLEAN
  /\ heard \in Seq(0..MAX_LENGTH) /\ over \in BOOLEAN

\* A host that goes by the event codes gets the message, byte for byte, for every
\* length, and sees it end with its last packet and not before.
SysExArrives ==
  /\ num = 0 => heard = [i \in 1..length |-> i]
  /\ over <=> (num = 0 /\ length # 0)
=============================================================================

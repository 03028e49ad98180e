------------------------------- MODULE SysEx -------------------------------
(***************************************************************************)
(* sysex.c: system exclusive messages are put together in a buffer from    *)
(* USB-MIDI packets of up to three bytes, and their commands run.          *)
(*                                                                         *)
(* The host sends messages cut into packets as USB-MIDI prescribes (three  *)
(* bytes that start or continue, one to three that end), and may abandon a *)
(* message for a new one.  sysex_ptr is an address: NULL is 0, the buffer  *)
(* starts at BASE.                                                         *)
(***************************************************************************)
EXTENDS Integers, Sequences

CONSTANTS
  Message,          \* the messages of the host: 0xf0, data, 0xf7
  MIDI_MAX_SYSEX,   \* size of sysex_buffer: 64
  BASE              \* the address of sysex_buffer

MFR_ID == <<0, 1, 121>>        \* MIDI_MFR_ID_0, _1, _2
g_midi_sysex_channel == 5
Installed == 1..4              \* commands installed by config_setup

ASSUME SysExAssumption ==
  /\ MIDI_MAX_SYSEX \in Nat /\ MIDI_MAX_SYSEX > 2
  /\ BASE \in Nat
  /\ Message \subseteq Seq(0..255)
  /\ Message # {}
  /\ \A m \in Message : Len(m) > 1 /\ m[1] = 240 /\ m[Len(m)] = 247

VARIABLES
  sysex_is_reading, sysex_state, sysex_ptr,
  sysex_buffer,    \* by offset
  ran,             \* what the message made run: <<0, <<>>>> nothing yet, a command
                   \* and its data, or <<IDENTIFY, <<>>>>
  msg, sent,       \* the host's message and how many bytes of it are sent
  whole,           \* history: the message before was sent to its end
  strayed          \* history: a byte was stored below the buffer

hostVars == <<msg, whole>>
sysexVars == <<sysex_is_reading, sysex_state, sysex_ptr, sysex_buffer, ran, msg, sent,
          whole, strayed>>

Offset == 0 .. (MIDI_MAX_SYSEX - 1)
State == {"Begin", "CheckMID", "Invalid", "NonRealtime", "DJTT"}
IDENTIFY == 255
Nothing == <<0, <<>>>>

SysExInit ==
  /\ sysex_is_reading = FALSE /\ sysex_state = "Begin" /\ sysex_ptr = 0
  /\ sysex_buffer = [o \in Offset |-> 0]
  /\ ran = Nothing
  /\ msg \in Message /\ sent = 0 /\ whole = TRUE /\ strayed = FALSE

Left == Len(msg) - sent
Data(n) == msg[sent + n]    \* Data1, Data2, Data3 of the packet

\* sysex_handle: what a message runs.
sysex_handle(state, buffer, length) ==
  IF state = "DJTT" /\ length > 0 /\ buffer[0] \in Installed
  THEN <<buffer[0], [j \in 1 .. (length - 1) |-> buffer[j]]>>
  ELSE IF state = "NonRealtime" /\ length >= 2 /\ buffer[0] = 6 /\ buffer[1] = 1
  THEN <<IDENTIFY, <<>>>>
  ELSE Nothing

\* The check before n bytes are stored; it leaves the last byte unused.
Room(n) == sysex_ptr + n < BASE + MIDI_MAX_SYSEX

\* *sysex_ptr++ = ... for n bytes of the packet, from Data(first) on.
Store(first, n) ==
  /\ sysex_ptr' = sysex_ptr + n
  /\ sysex_buffer' = [o \in Offset |->
       IF BASE + o \in sysex_ptr .. (sysex_ptr + n - 1)
       THEN Data(first + BASE + o - sysex_ptr) ELSE sysex_buffer[o]]
  /\ strayed' = (strayed \/ sysex_ptr < BASE)

NoStore == UNCHANGED <<sysex_ptr, sysex_buffer, strayed>>

\* A new block: is it for us?
StartBlock ==
  /\ ~sysex_is_reading
  /\ sysex_is_reading' = TRUE
  /\ sysex_ptr' = BASE
  /\ sysex_state' =
       IF Data(1) = 240 /\ Data(2) = 126 /\ Data(3) \in {g_midi_sysex_channel, 127}
       THEN "NonRealtime"
       ELSE IF Data(1) = 240 /\ Data(2) = MFR_ID[1] /\ Data(3) = MFR_ID[2]
       THEN "CheckMID" ELSE "Invalid"
  /\ UNCHANGED <<sysex_buffer, strayed>>

\* The third byte of the manufacturer ID, and two bytes.
IsOurs == Data(1) = MFR_ID[3] /\ Room(2)
CheckID ==
  /\ sysex_is_reading /\ sysex_state = "CheckMID"
  /\ \/ IsOurs /\ sysex_state' = "DJTT" /\ Store(2, 2)
     \/ ~IsOurs /\ sysex_state' = "Invalid" /\ NoStore
  /\ UNCHANGED sysex_is_reading

\* Mutant: a continuation is stored without a check.
ContinueBlock_unchecked ==
  /\ sysex_is_reading /\ sysex_state # "CheckMID"
  /\ \/ sysex_state # "Invalid" /\ Store(1, 3)
     \/ sysex_state = "Invalid" /\ NoStore
  /\ UNCHANGED <<sysex_is_reading, sysex_state>>

ContinueBlock ==
  /\ sysex_is_reading /\ sysex_state # "CheckMID"
  /\ \/ sysex_state # "Invalid" /\ Room(3) /\ Store(1, 3) /\ UNCHANGED sysex_state
     \/ (sysex_state = "Invalid" \/ ~Room(3)) /\ sysex_state' = "Invalid" /\ NoStore
  /\ UNCHANGED sysex_is_reading

sysex_handle_3sc ==
  /\ Left > 3 /\ sent' = sent + 3
  /\ StartBlock \/ CheckID \/ ContinueBlock
  /\ UNCHANGED <<hostVars, ran>>

\* Store the last bytes and run the message.
StoreAndRun(state, first, n) ==
  /\ Store(first, n)
  /\ ran' = sysex_handle(state, sysex_buffer', sysex_ptr' - BASE)
RunNothing == NoStore /\ UNCHANGED ran

\* Mutant: as in the two-byte end, the manufacturer ID is not completed.
sysex_handle_3e_no_id ==
  /\ Left = 3 /\ sent' = sent + 3
  /\ sysex_is_reading' = FALSE /\ sysex_state' = "Begin"
  /\ \/ sysex_state # "Invalid" /\ Room(3) /\ StoreAndRun(sysex_state, 1, 3)
     \/ (sysex_state = "Invalid" \/ ~Room(3)) /\ RunNothing
  /\ UNCHANGED hostVars

\* Unlike the other two it also runs when no block is being read.
sysex_handle_3e ==
  /\ Left = 3 /\ sent' = sent + 3
  /\ sysex_is_reading' = FALSE /\ sysex_state' = "Begin"
  /\ \/ sysex_state = "CheckMID" /\ IsOurs /\ StoreAndRun("DJTT", 2, 2)
     \/ sysex_state = "CheckMID" /\ ~IsOurs /\ RunNothing
     \/ sysex_state \notin {"CheckMID", "Invalid"} /\ Room(3) /\ StoreAndRun(sysex_state, 1, 3)
     \/ sysex_state # "CheckMID" /\ (sysex_state = "Invalid" \/ ~Room(3)) /\ RunNothing
  /\ UNCHANGED hostVars

\* sysex_handle_2e and sysex_handle_1e: n bytes end the block, if one is read.
EndBlock(n) ==
  /\ sysex_is_reading
  /\ sysex_is_reading' = FALSE /\ sysex_state' = "Begin"
  /\ \/ sysex_state # "Invalid" /\ Room(n) /\ StoreAndRun(sysex_state, 1, n)
     \/ (sysex_state = "Invalid" \/ ~Room(n)) /\ RunNothing
NoBlock == ~sysex_is_reading /\ RunNothing /\ UNCHANGED <<sysex_is_reading, sysex_state>>

sysex_handle_2e ==
  /\ Left = 2 /\ sent' = sent + 2
  /\ EndBlock(2) \/ NoBlock
  /\ UNCHANGED hostVars

sysex_handle_1e ==
  /\ Left = 1 /\ sent' = sent + 1
  /\ EndBlock(1)
  /\ UNCHANGED hostVars

\* A one-byte System Common message takes the same way in.
SystemCommon ==
  /\ Left = 0
  /\ NoBlock
  /\ UNCHANGED <<hostVars, sent>>

\* The host begins its next message, at the end of this one or before.
NextMessage(m) ==
  /\ msg' = m /\ sent' = 0 /\ whole' = (Left = 0)
  /\ ran' = Nothing
  /\ UNCHANGED <<sysex_is_reading, sysex_state, sysex_ptr, sysex_buffer, strayed>>

SysExNext ==
  \/ sysex_handle_3sc \/ sysex_handle_3e \/ sysex_handle_2e \/ sysex_handle_1e
  \/ SystemCommon
  \/ \E m \in Message : NextMessage(m)

SysExSpec == SysExInit /\ [][SysExNext]_sysexVars

----------------------------------------------------------------------------
\* Types; only the commands that have a handler run.
SysExTypeOK ==
  /\ sysex_is_reading \in BOOLEAN /\ sysex_state \in State
  /\ sysex_ptr \in Nat
  /\ sysex_buffer \in [Offset -> 0..255]
  /\ msg \in Message /\ sent \in 0 .. Len(msg)
  /\ ran[1] \in Installed \cup {0, IDENTIFY}
  /\ whole \in BOOLEAN /\ strayed \in BOOLEAN

\* What a message should run, from its bytes: a command that fits in the buffer,
\* with its data; the answer to an identify request; or nothing.
IsCommand(m) ==
  /\ Len(m) > 4 /\ \A j \in 1..3 : m[j + 1] = MFR_ID[j]
  /\ Len(m) - 4 < MIDI_MAX_SYSEX /\ m[5] \in Installed
IsIdentify(m) ==
  /\ Len(m) > 4 /\ m[2] = 126 /\ m[3] \in {g_midi_sysex_channel, 127}
  /\ m[4] = 6 /\ m[5] = 1 /\ Len(m) - 3 < MIDI_MAX_SYSEX
Meaning(m) ==
  IF IsCommand(m) THEN <<m[5], [j \in 1 .. (Len(m) - 5) |-> m[j + 5]]>>
  ELSE IF IsIdentify(m) THEN <<IDENTIFY, <<>>>>
  ELSE Nothing

\* However a message is cut into packets, it runs what it means and only at its
\* end, unless the host abandoned the message before it; one abandoned message
\* costs at most the next.
RunsMeaning ==
  /\ Left > 0 => ran = Nothing
  /\ Left = 0 /\ whole => ran = Meaning(msg)
  /\ Left = 0 => ~sysex_is_reading /\ sysex_state = "Begin"

\* No byte is stored past the buffer, and while a block is read none below it:
\* abandoned messages only make a block longer.
NeverPastEnd ==
  /\ sysex_ptr <= BASE + MIDI_MAX_SYSEX
  /\ sysex_is_reading => BASE <= sysex_ptr

\* Where the parser stands inside a message that followed a whole one: the bytes
\* stored are the message's, from the byte after its header on, and a message
\* given up on means nothing.
Stored(m, header) ==
  /\ sysex_ptr = BASE + sent - header
  /\ \A o \in 0 .. (sent - header - 1) : sysex_buffer[o] = m[o + header + 1]
InStep(m) ==
  \/ sysex_state = "CheckMID" /\ sent = 3 /\ m[2] = MFR_ID[1] /\ m[3] = MFR_ID[2]
     /\ sysex_ptr = BASE
  \/ sysex_state = "DJTT" /\ sent >= 6 /\ (\A j \in 1..3 : m[j + 1] = MFR_ID[j])
     /\ Stored(m, 4)
  \/ sysex_state = "NonRealtime" /\ sent >= 3 /\ m[2] = 126 /\ m[3] \in {g_midi_sysex_channel, 127}
     /\ Stored(m, 3)
  \/ sysex_state = "Invalid" /\ Meaning(m) = Nothing
SysExInv ==
  /\ RunsMeaning
  /\ NeverPastEnd
  /\ ~sysex_is_reading <=> sysex_state = "Begin"
  /\ sysex_is_reading => sysex_ptr < BASE + MIDI_MAX_SYSEX
  /\ whole /\ sent = 0 => ~sysex_is_reading
  /\ whole /\ 0 < sent /\ Left > 0 => sysex_is_reading /\ sent >= 3 /\ InStep(msg)

\* "check bounds before inserting anything": every byte is stored in the buffer.
StoredInBuffer == ~strayed
=============================================================================

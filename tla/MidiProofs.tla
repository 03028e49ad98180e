----------------------------- MODULE MidiProofs -----------------------------
(***************************************************************************)
(* MCMidi's components: the parser runs what a message means, for every    *)
(* set of messages and every size of the buffer; what Feedback and         *)
(* SysExOut keep for every value of their constants; and that each keeps   *)
(* it whichever of them runs.                                              *)
(***************************************************************************)
EXTENDS MCMidi, SequenceTheorems, TLAPS

\* A step that names no prover is given to Zenon, then to the SMT solver.
USE ZenonT(20), SMTT(30)

----------------------------------------------------------------------------
(* SysEx: the parser.                                                      *)

\* The facts on the constants and on the message under way.
LEMMA MessageFacts ==
  ASSUME NEW m \in Message
  PROVE  /\ MIDI_MAX_SYSEX \in Nat /\ MIDI_MAX_SYSEX > 2 /\ BASE \in Nat
         /\ Len(m) \in Nat /\ Len(m) > 1 /\ m[1] = 240 /\ m[Len(m)] = 247
         /\ \A j \in 1 .. Len(m) : m[j] \in 0..255
<1>1. m \in Seq(0..255)
  BY SysExAssumption DEF SysExAssumption
<1>2. Len(m) \in Nat /\ \A j \in 1 .. Len(m) : m[j] \in 0..255
  BY <1>1, ElementOfSeq, LenProperties, SMTT(30)
<1>3. MIDI_MAX_SYSEX \in Nat /\ MIDI_MAX_SYSEX > 2 /\ BASE \in Nat
  BY SysExAssumption DEF SysExAssumption
<1>4. Len(m) > 1 /\ m[1] = 240 /\ m[Len(m)] = 247
  BY SysExAssumption, SMTT(30) DEF SysExAssumption
<1> QED
  BY <1>2, <1>3, <1>4

\* The manufacturer ID, byte by byte.
LEMMA IDFacts ==
  /\ MFR_ID[1] = 0 /\ MFR_ID[2] = 1 /\ MFR_ID[3] = 121
  /\ \A m : (\A j \in 1..3 : m[j + 1] = MFR_ID[j]) <=> (m[2] = 0 /\ m[3] = 1 /\ m[4] = 121)
<1>1. MFR_ID[1] = 0 /\ MFR_ID[2] = 1 /\ MFR_ID[3] = 121
  BY DEF MFR_ID
<1>2. ASSUME NEW m
      PROVE  (\A j \in 1..3 : m[j + 1] = MFR_ID[j]) <=> (m[2] = 0 /\ m[3] = 1 /\ m[4] = 121)
  <2>1. (\A j \in 1..3 : m[j + 1] = MFR_ID[j]) <=>
        (m[1 + 1] = MFR_ID[1] /\ m[2 + 1] = MFR_ID[2] /\ m[3 + 1] = MFR_ID[3])
    <3>1. 1..3 = {1, 2, 3}
      OBVIOUS
    <3> QED
      BY <3>1
  <2> QED
    BY <1>1, <2>1, SMTT(30)
<1> QED
  BY <1>1, <1>2

\* What Store leaves in the buffer.
LEMMA StoreFacts ==
  ASSUME SysExTypeOK, NEW from \in 1..2, NEW n \in 1..3, from + n - 1 <= Left, Store(from, n)
  PROVE  /\ sysex_ptr' = sysex_ptr + n
         /\ sysex_buffer' \in [Offset -> 0..255]
         /\ \A o \in Offset : sysex_buffer'[o] =
              IF BASE + o >= sysex_ptr /\ BASE + o < sysex_ptr + n
              THEN msg[sent + from + BASE + o - sysex_ptr] ELSE sysex_buffer[o]
<1>0. /\ sent \in Nat /\ sysex_ptr \in Nat /\ BASE \in Nat /\ Len(msg) \in Nat
      /\ MIDI_MAX_SYSEX \in Nat /\ sysex_buffer \in [Offset -> 0..255]
      /\ \A j \in 1 .. Len(msg) : msg[j] \in 0..255
  BY MessageFacts, SMTT(30) DEF SysExTypeOK
<1>1. sysex_ptr' = sysex_ptr + n
  BY DEF Store
<1>2. ASSUME NEW o \in Offset
      PROVE  sysex_buffer'[o] = IF BASE + o >= sysex_ptr /\ BASE + o < sysex_ptr + n
                                THEN msg[sent + from + BASE + o - sysex_ptr]
                                ELSE sysex_buffer[o]
  <2>1. o \in Nat
    BY <1>0, SMTT(30) DEF Offset
  <2>2. BASE + o \in sysex_ptr .. (sysex_ptr + n - 1)
          <=> BASE + o >= sysex_ptr /\ BASE + o < sysex_ptr + n
    BY <1>0, <2>1, SMTT(30)
  <2>3. sent + (from + BASE + o - sysex_ptr) = sent + from + BASE + o - sysex_ptr
    BY <1>0, <2>1, SMTT(30)
  <2> QED
    BY <2>2, <2>3 DEF Store, Data
<1>3. ASSUME NEW o \in Offset, BASE + o >= sysex_ptr, BASE + o < sysex_ptr + n
      PROVE  msg[sent + from + BASE + o - sysex_ptr] \in 0..255
  <2>1. o \in Nat /\ from \in Nat /\ n \in Nat /\ from >= 1
    BY <1>0, SMTT(30) DEF Offset
  <2>2. sent + from + BASE + o - sysex_ptr \in 1 .. Len(msg)
    BY <1>0, <1>3, <2>1, SMTT(30) DEF Left
  <2> QED
    BY <1>0, <2>2
<1>4. ASSUME NEW o \in Offset PROVE sysex_buffer'[o] \in 0..255
  BY <1>0, <1>2, <1>3, <1>4, ZenonT(60)
<1>5. sysex_buffer' = [o \in Offset |-> sysex_buffer'[o]]
  BY DEF Store
<1> QED
  BY <1>1, <1>2, <1>4, <1>5

\* Every step keeps the types.
LEMMA SysExTypeStep == SysExTypeOK /\ [SysExNext]_sysexVars => SysExTypeOK'
<1> SUFFICES ASSUME SysExTypeOK, [SysExNext]_sysexVars PROVE SysExTypeOK'
  OBVIOUS
<1>0. msg \in Message /\ Len(msg) \in Nat /\ sent \in Nat /\ sent <= Len(msg) /\ BASE \in Nat
  BY MessageFacts, SMTT(30) DEF SysExTypeOK
<1>1. ASSUME NEW from \in 1..2, NEW n \in 1..3, from + n - 1 <= Left, Store(from, n)
      PROVE  sysex_ptr' \in Nat /\ sysex_buffer' \in [Offset -> 0..255]
  <2>1. sysex_ptr' = sysex_ptr + n /\ sysex_buffer' \in [Offset -> 0..255]
    BY <1>1, StoreFacts
  <2>2. sysex_ptr \in Nat /\ n \in Nat
    BY SMTT(30) DEF SysExTypeOK
  <2> QED
    BY <2>1, <2>2, SMTT(30)
<1>2. ASSUME NoStore PROVE sysex_ptr' \in Nat /\ sysex_buffer' \in [Offset -> 0..255]
  BY <1>2 DEF NoStore, SysExTypeOK
<1>3. ASSUME NEW from \in 1..2, NEW n \in 1..3, Store(from, n) \/ NoStore \/ UNCHANGED strayed
      PROVE  strayed' \in BOOLEAN
  BY <1>3 DEF Store, NoStore, SysExTypeOK
<1>r. /\ Nothing[1] \in Installed \cup {0, IDENTIFY}
      /\ \A state, buffer, len :
           sysex_handle(state, buffer, len)[1] \in Installed \cup {0, IDENTIFY}
  BY DEF sysex_handle, Nothing
<1>4. CASE sysex_handle_3sc
  <2>0. ran' = ran
    BY <1>4 DEF sysex_handle_3sc
  <2>1. sent' \in 0 .. Len(msg) /\ UNCHANGED hostVars /\ Left > 3
    BY <1>0, <1>4 DEF sysex_handle_3sc, Left
  <2>2. CASE StartBlock
    <3>1. sysex_state' \in State /\ sysex_ptr' \in Nat /\ UNCHANGED <<sysex_buffer, strayed>>
      BY <1>0, <2>2 DEF StartBlock, State
    <3>2. sysex_is_reading' \in BOOLEAN
      BY <2>2 DEF StartBlock
    <3> QED
      BY <2>0, <2>1, <3>1, <3>2 DEF SysExTypeOK, hostVars
  <2>3. CASE CheckID \/ ContinueBlock
    <3>1. sysex_state' \in State /\ UNCHANGED sysex_is_reading
      BY <2>3 DEF CheckID, ContinueBlock, State, SysExTypeOK
    <3>2. Store(2, 2) \/ Store(1, 3) \/ NoStore
      BY <2>3 DEF CheckID, ContinueBlock
    <3>3. sysex_ptr' \in Nat /\ sysex_buffer' \in [Offset -> 0..255] /\ strayed' \in BOOLEAN
      <4>1. 2 + 2 - 1 <= Left /\ 1 + 3 - 1 <= Left
        BY <1>0, <2>1 DEF Left
      <4>2. CASE Store(2, 2)
        BY <1>1, <1>3, <4>1, <4>2, SMTT(30)
      <4>3. CASE Store(1, 3)
        BY <1>1, <1>3, <4>1, <4>3, SMTT(30)
      <4>4. CASE NoStore
        BY <1>2, <1>3, <4>4, SMTT(30)
      <4> QED
        BY <3>2, <4>2, <4>3, <4>4
    <3> QED
      BY <2>0, <2>1, <3>1, <3>3 DEF SysExTypeOK, hostVars
  <2> QED
    BY <1>4, <2>2, <2>3 DEF sysex_handle_3sc
<1>5. ASSUME NEW n \in 1..3, Left = n, sent' = sent + n, UNCHANGED hostVars,
             sysex_is_reading' \in BOOLEAN, sysex_state' \in State,
             Store(1, n) \/ (n = 3 /\ Store(2, 2)) \/ NoStore,
             ran'[1] \in Installed \cup {0, IDENTIFY}
      PROVE  SysExTypeOK'
  <2>1. sent' \in 0 .. Len(msg)
    BY <1>0, <1>5 DEF Left
  <2>2. sysex_ptr' \in Nat /\ sysex_buffer' \in [Offset -> 0..255]
    <3>1. CASE Store(1, n)
      <4>1. 1 + n - 1 <= Left
        BY <1>5
      <4> QED
        BY <1>1, <3>1, <4>1, SMTT(30)
    <3>2. CASE n = 3 /\ Store(2, 2)
      <4>1. 2 + 2 - 1 <= Left
        BY <1>5, <3>2
      <4> QED
        BY <1>1, <3>2, <4>1, SMTT(30)
    <3>3. CASE NoStore
      BY <1>2, <3>3
    <3> QED
      BY <1>5, <3>1, <3>2, <3>3
  <2>3. strayed' \in BOOLEAN
    BY <1>3, <1>5
  <2> QED
    BY <1>5, <2>1, <2>2, <2>3 DEF SysExTypeOK, hostVars
<1>6. CASE sysex_handle_3e
  <2>1. sysex_is_reading' \in BOOLEAN
    BY <1>6 DEF sysex_handle_3e
  <2>2. sysex_state' \in State
    BY <1>6 DEF sysex_handle_3e, State
  <2>3. ran'[1] \in Installed \cup {0, IDENTIFY}
    BY <1>6, <1>r, ZenonT(60) DEF sysex_handle_3e, StoreAndRun, RunNothing, SysExTypeOK
  <2> QED
    BY <1>5, <1>6, <2>1, <2>2, <2>3 DEF sysex_handle_3e, StoreAndRun, RunNothing
<1>7. ASSUME NEW n \in 1..2, EndBlock(n) \/ NoBlock
      PROVE  /\ sysex_is_reading' \in BOOLEAN /\ sysex_state' \in State
             /\ Store(1, n) \/ NoStore
             /\ ran'[1] \in Installed \cup {0, IDENTIFY}
  <2>1. sysex_is_reading' \in BOOLEAN
    <3>1. CASE EndBlock(n)
      BY <3>1 DEF EndBlock
    <3>2. CASE NoBlock
      BY <3>2 DEF NoBlock, SysExTypeOK
    <3> QED
      BY <1>7, <3>1, <3>2
  <2>2. ran'[1] \in Installed \cup {0, IDENTIFY}
    BY <1>7, <1>r DEF EndBlock, NoBlock, StoreAndRun, RunNothing, SysExTypeOK
  <2>3. sysex_state' \in State
    BY <1>7 DEF EndBlock, NoBlock, State, SysExTypeOK
  <2>4. Store(1, n) \/ NoStore
    BY <1>7 DEF EndBlock, NoBlock, StoreAndRun, RunNothing
  <2> QED
    BY <2>1, <2>2, <2>3, <2>4
<1>8. CASE sysex_handle_2e
  <2>1. Left = 2 /\ sent' = sent + 2 /\ UNCHANGED hostVars /\ (EndBlock(2) \/ NoBlock)
    BY <1>8 DEF sysex_handle_2e
  <2> QED
    BY <1>5, <1>7, <2>1
<1>9. CASE sysex_handle_1e
  <2>1. Left = 1 /\ sent' = sent + 1 /\ UNCHANGED hostVars /\ EndBlock(1)
    BY <1>9 DEF sysex_handle_1e
  <2> QED
    BY <1>5, <1>7, <2>1
<1>10. CASE SystemCommon \/ UNCHANGED sysexVars
  <2>1. UNCHANGED sysexVars
    BY <1>10 DEF SystemCommon, NoBlock, RunNothing, NoStore, hostVars, sysexVars
  <2> QED
    BY <2>1 DEF sysexVars, SysExTypeOK
<1>11. ASSUME NEW m \in Message, NextMessage(m) PROVE SysExTypeOK'
  <2>1. Len(m) \in Nat
    BY MessageFacts
  <2>2. whole' \in BOOLEAN
    BY <1>11 DEF NextMessage
  <2> QED
    BY <1>11, <1>r, <2>1, <2>2, SMTT(30) DEF NextMessage, SysExTypeOK
<1> QED
  BY <1>4, <1>6, <1>8, <1>9, <1>10, <1>11 DEF SysExNext

\* Ours, by the manufacturer ID, or an identify request for us, by its header.
Ours(m) == m[2] = 0 /\ m[3] = 1 /\ m[4] = 121
ForUs(m) == m[2] = 126 /\ m[3] \in {g_midi_sysex_channel, 127}

\* What messages mean, by their header.
LEMMA MeaningByHeader ==
  ASSUME NEW m \in Message
  PROVE  /\ ~Ours(m) /\ ~ForUs(m) => Meaning(m) = Nothing
         /\ Ours(m) => Meaning(m) =
              IF Len(m) > 4 /\ Len(m) - 4 < MIDI_MAX_SYSEX /\ m[5] \in Installed
              THEN <<m[5], [j \in 1 .. (Len(m) - 5) |-> m[j + 5]]>> ELSE Nothing
         /\ ForUs(m) => Meaning(m) =
              IF Len(m) > 4 /\ m[4] = 6 /\ m[5] = 1 /\ Len(m) - 3 < MIDI_MAX_SYSEX
              THEN <<IDENTIFY, <<>>>> ELSE Nothing
         /\ Len(m) <= 4 => Meaning(m) = Nothing
<1> DEFINE args == [j \in 1 .. (Len(m) - 5) |-> m[j + 5]]
<1>1. IsCommand(m) <=> Ours(m) /\ Len(m) > 4 /\ Len(m) - 4 < MIDI_MAX_SYSEX /\ m[5] \in Installed
  BY IDFacts, SMTT(30) DEF IsCommand, Ours
<1>2. IsIdentify(m) <=> ForUs(m) /\ Len(m) > 4 /\ m[4] = 6 /\ m[5] = 1
                                 /\ Len(m) - 3 < MIDI_MAX_SYSEX
  BY DEF IsIdentify, ForUs
<1>3. ~(Ours(m) /\ ForUs(m))
  BY DEF Ours, ForUs
<1>4. Meaning(m) = IF IsCommand(m) THEN <<m[5], args>>
                   ELSE IF IsIdentify(m) THEN <<IDENTIFY, <<>>>> ELSE Nothing
  BY DEF Meaning
<1>5. Len(m) <= 4 => ~(Len(m) > 4)
  BY MessageFacts, SMTT(30)
<1> HIDE DEF args
<1>6. ~Ours(m) /\ ~ForUs(m) => Meaning(m) = Nothing
  BY <1>1, <1>2, <1>4
<1>7. Ours(m) => Meaning(m) =
              IF Len(m) > 4 /\ Len(m) - 4 < MIDI_MAX_SYSEX /\ m[5] \in Installed
              THEN <<m[5], args>> ELSE Nothing
  BY <1>1, <1>2, <1>3, <1>4
<1>8. ForUs(m) => Meaning(m) =
              IF Len(m) > 4 /\ m[4] = 6 /\ m[5] = 1 /\ Len(m) - 3 < MIDI_MAX_SYSEX
              THEN <<IDENTIFY, <<>>>> ELSE Nothing
  BY <1>1, <1>2, <1>3, <1>4
<1>9. Len(m) <= 4 => Meaning(m) = Nothing
  BY <1>1, <1>2, <1>4, <1>5
<1> QED
  BY <1>6, <1>7, <1>8, <1>9 DEF args

\* The bytes stored so far, plus those of a packet, are the message's.
LEMMA StoredStep ==
  ASSUME SysExTypeOK, NEW header \in 3..4, Stored(msg, header), sent >= header,
         NEW n \in 1..3, n <= Left, Room(n), Store(1, n)
  PROVE  /\ sysex_ptr' = BASE + (sent + n) - header
         /\ \A o \in 0 .. (sent + n - header - 1) : sysex_buffer'[o] = msg[o + header + 1]
<1>0. /\ sent \in Nat /\ sysex_ptr \in Nat /\ BASE \in Nat /\ MIDI_MAX_SYSEX \in Nat
      /\ Len(msg) \in Nat /\ sent <= Len(msg)
      /\ sysex_ptr = BASE + sent - header
      /\ sysex_ptr + n < BASE + MIDI_MAX_SYSEX
  BY MessageFacts, SMTT(30) DEF SysExTypeOK, Stored, Room
<1>1. 1 + n - 1 <= Left
  BY <1>0 DEF Left
<1>2. /\ sysex_ptr' = sysex_ptr + n
      /\ \A o \in Offset : sysex_buffer'[o] =
           IF BASE + o >= sysex_ptr /\ BASE + o < sysex_ptr + n
           THEN msg[sent + 1 + BASE + o - sysex_ptr] ELSE sysex_buffer[o]
  BY <1>1, StoreFacts, SMTT(30)
<1>3. ASSUME NEW o \in 0 .. (sent + n - header - 1)
      PROVE  sysex_buffer'[o] = msg[o + header + 1]
  <2>1. o \in Nat /\ o < sent + n - header /\ o \in Offset
    BY <1>0, <1>3 DEF Offset
  <2>2. CASE BASE + o >= sysex_ptr
    <3>1. sent + 1 + BASE + o - sysex_ptr = o + header + 1 /\ BASE + o < sysex_ptr + n
      BY <1>0, <2>1
    <3> QED
      BY <1>2, <2>1, <2>2, <3>1
  <2>3. CASE ~(BASE + o >= sysex_ptr)
    <3>1. o \in 0 .. (sent - header - 1)
      BY <1>0, <2>1, <2>3
    <3>2. sysex_buffer[o] = msg[o + header + 1]
      BY <3>1 DEF Stored
    <3> QED
      BY <1>2, <2>1, <2>3, <3>2
  <2> QED
    BY <2>2, <2>3
<1> QED
  BY <1>0, <1>2, <1>3

\* The end of a command: it runs with its data.
LEMMA CommandRuns ==
  ASSUME SysExTypeOK, Ours(msg), NEW buffer, NEW len \in Nat,
         len = Len(msg) - 4, len < MIDI_MAX_SYSEX, len > 0,
         \A o \in 0 .. (len - 1) : buffer[o] = msg[o + 4 + 1]
  PROVE  sysex_handle("DJTT", buffer, len) = Meaning(msg)
<1>0. msg \in Message /\ Len(msg) \in Nat
  BY MessageFacts DEF SysExTypeOK
<1>1. buffer[0] = msg[5]
  <2>1. 0 \in 0 .. (len - 1)
    OBVIOUS
  <2> QED
    BY <2>1, SMTT(30)
<1>2. [j \in 1 .. (len - 1) |-> buffer[j]] = [j \in 1 .. (Len(msg) - 5) |-> msg[j + 5]]
  <2>1. len - 1 = Len(msg) - 5
    BY <1>0, SMTT(30)
  <2>2. ASSUME NEW j \in 1 .. (len - 1) PROVE buffer[j] = msg[j + 5]
    <3>1. j \in 0 .. (len - 1) /\ j + 4 + 1 = j + 5
      BY SMTT(30)
    <3> QED
      BY <3>1
  <2> QED
    BY <2>1, <2>2
<1>3. Len(msg) > 4 /\ Len(msg) - 4 < MIDI_MAX_SYSEX
  BY <1>0
<1>4. Meaning(msg) = IF msg[5] \in Installed
                     THEN <<msg[5], [j \in 1 .. (Len(msg) - 5) |-> msg[j + 5]]>> ELSE Nothing
  BY <1>0, <1>3, MeaningByHeader
<1>5. sysex_handle("DJTT", buffer, len) =
        IF buffer[0] \in Installed THEN <<buffer[0], [j \in 1 .. (len - 1) |-> buffer[j]]>>
        ELSE Nothing
  BY DEF sysex_handle
<1> QED
  BY <1>1, <1>2, <1>4, <1>5

\* The end of an identify request: it is answered.
LEMMA IdentifyRuns ==
  ASSUME SysExTypeOK, ForUs(msg), NEW buffer, NEW len \in Nat,
         len = Len(msg) - 3, len < MIDI_MAX_SYSEX,
         \A o \in 0 .. (len - 1) : buffer[o] = msg[o + 3 + 1]
  PROVE  sysex_handle("NonRealtime", buffer, len) = Meaning(msg)
<1>0. msg \in Message /\ Len(msg) \in Nat /\ (Len(msg) > 4 <=> len >= 2)
  BY MessageFacts, SMTT(30) DEF SysExTypeOK
<1>1. len >= 2 => buffer[0] = msg[4] /\ buffer[1] = msg[5]
  <2>1. len >= 2 => 0 \in 0 .. (len - 1) /\ 1 \in 0 .. (len - 1)
    OBVIOUS
  <2>2. 0 + 3 + 1 = 4 /\ 1 + 3 + 1 = 5
    BY SMTT(30)
  <2> QED
    BY <2>1, <2>2
<1>2. Meaning(msg) = IF Len(msg) > 4 /\ msg[4] = 6 /\ msg[5] = 1
                     THEN <<IDENTIFY, <<>>>> ELSE Nothing
  BY <1>0, MeaningByHeader
<1>3. sysex_handle("NonRealtime", buffer, len) =
        IF len >= 2 /\ buffer[0] = 6 /\ buffer[1] = 1 THEN <<IDENTIFY, <<>>>> ELSE Nothing
  BY DEF sysex_handle
<1> QED
  BY <1>0, <1>1, <1>2, <1>3

\* The packet's bytes do not fit: the message is too long to mean anything.
LEMMA TooLong ==
  ASSUME SysExTypeOK, NEW n \in 1..3, n <= Left, ~Room(n),
         \/ Ours(msg) /\ sysex_ptr = BASE + sent - 4
         \/ ForUs(msg) /\ sysex_ptr = BASE + sent - 3
  PROVE  Meaning(msg) = Nothing
<1>0. /\ msg \in Message /\ sent \in Nat /\ BASE \in Nat /\ MIDI_MAX_SYSEX \in Nat
      /\ Len(msg) \in Nat /\ sent + n <= Len(msg)
  BY MessageFacts, SMTT(30) DEF SysExTypeOK, Left
<1>1. CASE Ours(msg) /\ sysex_ptr = BASE + sent - 4
  <2>1. ~(Len(msg) - 4 < MIDI_MAX_SYSEX)
    BY <1>0, <1>1 DEF Room
  <2> QED
    BY <1>0, <1>1, <2>1, MeaningByHeader
<1>2. CASE ForUs(msg) /\ sysex_ptr = BASE + sent - 3
  <2>1. ~(Len(msg) - 3 < MIDI_MAX_SYSEX)
    BY <1>0, <1>2 DEF Room
  <2> QED
    BY <1>0, <1>2, <2>1, MeaningByHeader
<1> QED
  BY <1>1, <1>2

\* What the last n bytes of a message do, outside the manufacturer ID of the
\* three-byte end.
Ends(n) ==
  \/ sysex_state # "Invalid" /\ Room(n) /\ StoreAndRun(sysex_state, 1, n)
  \/ (sysex_state = "Invalid" \/ ~Room(n)) /\ RunNothing

\* A message cut off in its manufacturer ID means nothing.
LEMMA ShortMeansNothing ==
  ASSUME NEW m \in Message, m[2] = 0, Len(m) <= 5
  PROVE  Meaning(m) = Nothing
<1>0. Len(m) \in Nat /\ m[Len(m)] = 247
  BY MessageFacts, SMTT(30)
<1>1. CASE Len(m) <= 4
  BY <1>1, MeaningByHeader
<1>2. CASE Len(m) = 5
  <2>1. m[5] = 247 /\ 247 \notin Installed
    BY <1>0, <1>2, SMTT(30) DEF Installed
  <2>2. ~ForUs(m)
    BY DEF ForUs
  <2> QED
    BY <2>1, <2>2, MeaningByHeader
<1>3. Len(m) <= 4 \/ Len(m) = 5
  <2>1. \A k \in Nat : k <= 5 => k <= 4 \/ k = 5
    OBVIOUS
  <2>2. Len(m) \in Nat
    BY <1>0
  <2> QED
    BY <2>1, <2>2
<1> QED
  BY <1>1, <1>2, <1>3

\* The end of a message that was followed from its start runs what it means.
LEMMA EndExact ==
  ASSUME SysExTypeOK, InStep(msg), ran = Nothing, NEW n \in 1..3, Left = n,
         n = 3 => sysex_state # "CheckMID", Ends(n)
  PROVE  ran' = Meaning(msg)
<1>0. /\ msg \in Message /\ sent \in Nat /\ BASE \in Nat /\ MIDI_MAX_SYSEX \in Nat
      /\ Len(msg) \in Nat /\ sent + n = Len(msg) /\ sysex_ptr \in Nat /\ n \in Nat /\ n <= Left
  BY MessageFacts, SMTT(30) DEF SysExTypeOK, Left
<1>1. CASE sysex_state = "Invalid"
  BY <1>1 DEF InStep, Ends, RunNothing
<1>2. CASE sysex_state = "CheckMID"
  <2>1. sent = 3 /\ msg[2] = 0 /\ Len(msg) <= 5
    BY <1>0, <1>2, IDFacts, SMTT(30) DEF InStep
  <2>2. Meaning(msg) = Nothing
    BY <1>0, <2>1, ShortMeansNothing
  <2>3. ran' = Nothing
    BY <1>2 DEF Ends, RunNothing, StoreAndRun, sysex_handle
  <2> QED
    BY <2>2, <2>3
<1>3. CASE sysex_state = "DJTT"
  <2>1. Ours(msg) /\ sent >= 6 /\ Stored(msg, 4)
    BY <1>3, IDFacts, ZenonT(60) DEF InStep, Ours
  <2>2. CASE Room(n)
    <3>1. Store(1, n) /\ ran' = sysex_handle("DJTT", sysex_buffer', sysex_ptr' - BASE)
      BY <1>3, <2>2 DEF Ends, StoreAndRun
    <3>2. sent >= 4 /\ 4 \in 3..4
      BY <1>0, <2>1
    <3>3. /\ sysex_ptr' = BASE + (sent + n) - 4
          /\ \A o \in 0 .. (sent + n - 4 - 1) : sysex_buffer'[o] = msg[o + 4 + 1]
      BY <1>0, <2>1, <2>2, <3>1, <3>2, StoredStep
    <3>4. sysex_ptr' - BASE = Len(msg) - 4 /\ sent + n - 4 - 1 = Len(msg) - 4 - 1
      BY <1>0, <3>3
    <3>5. Len(msg) - 4 \in Nat /\ Len(msg) - 4 > 0 /\ Len(msg) - 4 < MIDI_MAX_SYSEX
      BY <1>0, <2>1, <2>2 DEF Room, Stored
    <3> QED
      BY <2>1, <3>1, <3>3, <3>4, <3>5, CommandRuns
  <2>3. CASE ~Room(n)
    <3>1. ran' = Nothing
      BY <1>3, <2>3 DEF Ends, RunNothing
    <3> QED
      BY <1>0, <2>1, <2>3, <3>1, TooLong DEF Stored
  <2> QED
    BY <2>2, <2>3
<1>4. CASE sysex_state = "NonRealtime"
  <2>1. ForUs(msg) /\ Stored(msg, 3) /\ sent >= 3
    BY <1>4 DEF InStep, ForUs
  <2>2. CASE Room(n)
    <3>1. Store(1, n) /\ ran' = sysex_handle("NonRealtime", sysex_buffer', sysex_ptr' - BASE)
      BY <1>4, <2>2 DEF Ends, StoreAndRun
    <3>2. 3 \in 3..4
      OBVIOUS
    <3>3. /\ sysex_ptr' = BASE + (sent + n) - 3
          /\ \A o \in 0 .. (sent + n - 3 - 1) : sysex_buffer'[o] = msg[o + 3 + 1]
      BY <1>0, <2>1, <2>2, <3>1, <3>2, StoredStep
    <3>4. sysex_ptr' - BASE = Len(msg) - 3 /\ sent + n - 3 - 1 = Len(msg) - 3 - 1
      BY <1>0, <3>3
    <3>5. Len(msg) - 3 \in Nat /\ Len(msg) - 3 < MIDI_MAX_SYSEX
      BY <1>0, <2>1, <2>2 DEF Room, Stored
    <3> QED
      BY <2>1, <3>1, <3>3, <3>4, <3>5, IdentifyRuns
  <2>3. CASE ~Room(n)
    <3>1. ran' = Nothing
      BY <1>4, <2>3 DEF Ends, RunNothing
    <3> QED
      BY <1>0, <2>1, <2>3, <3>1, TooLong DEF Stored
  <2> QED
    BY <2>2, <2>3
<1> QED
  BY <1>1, <1>2, <1>3, <1>4 DEF InStep

\* Three bytes that start or continue a block keep the invariant.
LEMMA ContinueStep == SysExTypeOK /\ SysExInv /\ sysex_handle_3sc => SysExInv'
<1> SUFFICES ASSUME SysExTypeOK, SysExInv, sysex_handle_3sc PROVE SysExInv'
  OBVIOUS
<1>0. /\ msg \in Message /\ sent \in Nat /\ BASE \in Nat /\ MIDI_MAX_SYSEX \in Nat
      /\ MIDI_MAX_SYSEX > 2 /\ Len(msg) \in Nat /\ sysex_ptr \in Nat /\ msg[1] = 240
  BY MessageFacts, SMTT(30) DEF SysExTypeOK
<1>1. /\ sent' = sent + 3 /\ Left' > 0 /\ Left > 3 /\ Left > 0 /\ msg' = msg /\ whole' = whole
      /\ ran' = ran /\ ran = Nothing
  BY <1>0, SMTT(30) DEF sysex_handle_3sc, hostVars, Left, SysExInv, RunsMeaning
<1>2. ASSUME /\ sysex_is_reading' /\ sysex_state' # "Begin"
             /\ sysex_ptr' \in Nat /\ BASE <= sysex_ptr' /\ sysex_ptr' < BASE + MIDI_MAX_SYSEX,
             whole => InStep(msg)'
      PROVE  SysExInv'
  <2>1. RunsMeaning'
    <3>1. ~(Left' = 0) /\ ran' = Nothing
      BY <1>0, <1>1, SMTT(30) DEF Left
    <3> QED
      BY <3>1 DEF RunsMeaning, Nothing
  <2>2. NeverPastEnd'
    BY <1>0, <1>2, SMTT(30) DEF NeverPastEnd
  <2>3. sent' >= 3 /\ ~(sent' = 0)
    BY <1>0, <1>1, SMTT(30)
  <2>4. (whole /\ sent = 0 => ~sysex_is_reading)'
    BY <2>3
  <2>5. (whole /\ 0 < sent /\ Left > 0 => sysex_is_reading /\ sent >= 3 /\ InStep(msg))'
    BY <1>1, <1>2, <2>3
  <2>6. (~sysex_is_reading <=> sysex_state = "Begin")'
    BY <1>2
  <2>7. (sysex_is_reading => sysex_ptr < BASE + MIDI_MAX_SYSEX)'
    BY <1>2
  <2> QED
    BY <2>1, <2>2, <2>4, <2>5, <2>6, <2>7 DEF SysExInv
<1>3. CASE StartBlock
  <2>1. sysex_is_reading' /\ sysex_ptr' = BASE /\ ~sysex_is_reading
    BY <1>3 DEF StartBlock
  <2>2. whole => sent = 0
    BY <1>0, <1>1, <2>1 DEF SysExInv
  <2>3. sysex_state' = IF Data(1) = 240 /\ Data(2) = 126 /\ Data(3) \in {g_midi_sysex_channel, 127}
                       THEN "NonRealtime"
                       ELSE IF Data(1) = 240 /\ Data(2) = 0 /\ Data(3) = 1
                       THEN "CheckMID" ELSE "Invalid"
    BY <1>3, IDFacts, SMTT(30) DEF StartBlock
  <2>4. whole => InStep(msg)'
    <3> SUFFICES ASSUME whole PROVE InStep(msg)'
      OBVIOUS
    <3>1. sent' = 3 /\ Data(1) = 240 /\ Data(2) = msg[2] /\ Data(3) = msg[3] /\ sent' >= 3
      BY <1>0, <1>1, <2>2 DEF Data
    <3>2. CASE ForUs(msg)
      <4>1. sysex_state' = "NonRealtime"
        BY <2>3, <3>1, <3>2, SMTT(30) DEF ForUs
      <4>2. Stored(msg, 3)'
        <5>1. BASE + sent' - 3 = BASE /\ 0 .. (sent' - 3 - 1) = {}
          BY <1>0, <3>1
        <5> QED
          BY <2>1, <5>1 DEF Stored
      <4> QED
        BY <1>1, <3>1, <3>2, <4>1, <4>2 DEF InStep, ForUs
    <3>3. CASE msg[2] = 0 /\ msg[3] = 1
      <4>1. sysex_state' = "CheckMID"
        BY <2>3, <3>1, <3>3, SMTT(30)
      <4> QED
        BY <1>1, <2>1, <3>1, <3>3, <4>1, IDFacts DEF InStep
    <3>4. CASE ~ForUs(msg) /\ ~(msg[2] = 0 /\ msg[3] = 1)
      <4>1. sysex_state' = "Invalid"
        BY <2>3, <3>1, <3>4, SMTT(30) DEF ForUs
      <4>2. Meaning(msg) = Nothing
        BY <1>0, <3>4, MeaningByHeader, ZenonT(60) DEF Ours
      <4> QED
        BY <1>1, <4>1, <4>2 DEF InStep
    <3> QED
      BY <3>2, <3>3, <3>4
  <2>5. sysex_state' # "Begin"
    BY <2>3
  <2>6. sysex_ptr' \in Nat /\ BASE <= sysex_ptr' /\ sysex_ptr' < BASE + MIDI_MAX_SYSEX
    BY <1>0, <2>1
  <2> QED
    BY <1>2, <2>1, <2>4, <2>5, <2>6
<1>4. CASE CheckID
  <2>1. /\ sysex_is_reading /\ sysex_is_reading' /\ BASE <= sysex_ptr
        /\ sysex_ptr < BASE + MIDI_MAX_SYSEX
    BY <1>4 DEF CheckID, SysExInv, NeverPastEnd
  <2>2. whole => sent = 3 /\ msg[2] = 0 /\ msg[3] = 1 /\ sysex_ptr = BASE
    <3>1. whole => sent > 0
      BY <1>0, <2>1 DEF SysExInv
    <3>2. whole => InStep(msg)
      BY <1>0, <1>1, <3>1 DEF SysExInv
    <3> QED
      BY <1>4, <3>2, IDFacts DEF InStep, CheckID
  <2>3. CASE IsOurs /\ sysex_state' = "DJTT" /\ Store(2, 2)
    <3>1. 2 + 2 - 1 <= Left
      BY <1>0, <1>1 DEF Left
    <3>2. /\ sysex_ptr' = sysex_ptr + 2
          /\ \A o \in Offset : sysex_buffer'[o] =
               IF BASE + o >= sysex_ptr /\ BASE + o < sysex_ptr + 2
               THEN msg[sent + 2 + BASE + o - sysex_ptr] ELSE sysex_buffer[o]
      BY <2>3, <3>1, StoreFacts, SMTT(30)
    <3>3. sysex_ptr' \in Nat /\ BASE <= sysex_ptr' /\ sysex_ptr' < BASE + MIDI_MAX_SYSEX
      BY <1>0, <2>1, <2>3, <3>2, SMTT(30) DEF IsOurs, Room
    <3>4. whole => InStep(msg)'
      <4> SUFFICES ASSUME whole PROVE InStep(msg)'
        OBVIOUS
      <4>1. sent' = 6 /\ sysex_ptr = BASE /\ sent = 3 /\ sent' >= 6
        BY <1>1, <2>2
      <4>2. ASSUME NEW o \in 0 .. (6 - 4 - 1) PROVE sysex_buffer'[o] = msg[o + 4 + 1]
        <5>1. /\ o \in Offset /\ BASE + o >= sysex_ptr /\ BASE + o < sysex_ptr + 2
              /\ sent + 2 + BASE + o - sysex_ptr = o + 4 + 1
          BY <1>0, <4>1, SMTT(30) DEF Offset
        <5> QED
          BY <3>2, <5>1
      <4>3. sysex_ptr' = BASE + 6 - 4
        BY <1>0, <3>2, <4>1, SMTT(30)
      <4>4. Stored(msg, 4)'
        BY <1>1, <4>1, <4>2, <4>3 DEF Stored
      <4>5. msg[4] = 121
        <5>1. Data(1) = msg[4]
          BY <4>1 DEF Data
        <5> QED
          BY <2>3, <5>1, IDFacts DEF IsOurs
      <4>6. \A j \in 1..3 : msg[j + 1] = MFR_ID[j]
        BY <2>2, <4>5, IDFacts, SMTT(30)
      <4> QED
        BY <1>1, <2>3, <4>1, <4>4, <4>6 DEF InStep
    <3> QED
      BY <1>2, <2>1, <2>3, <3>3, <3>4
  <2>4. CASE ~IsOurs /\ sysex_state' = "Invalid" /\ NoStore
    <3>1. whole => Meaning(msg) = Nothing
      <4> SUFFICES ASSUME whole PROVE Meaning(msg) = Nothing
        OBVIOUS
      <4>1. Room(2)
        BY <1>0, <2>2 DEF Room
      <4>2. Data(1) = msg[4]
        BY <2>2 DEF Data
      <4>3. ~Ours(msg) /\ ~ForUs(msg)
        BY <2>2, <2>4, <4>1, <4>2, IDFacts, SMTT(30) DEF IsOurs, Ours, ForUs
      <4> QED
        BY <1>0, <4>3, MeaningByHeader
    <3>2. whole => InStep(msg)'
      BY <1>1, <2>4, <3>1 DEF InStep
    <3> QED
      BY <1>0, <1>2, <2>1, <2>4, <3>2 DEF NoStore
  <2> QED
    BY <1>4, <2>3, <2>4 DEF CheckID
<1>5. CASE ContinueBlock
  <2>1. /\ sysex_is_reading /\ sysex_is_reading' /\ BASE <= sysex_ptr
        /\ sysex_ptr < BASE + MIDI_MAX_SYSEX /\ sysex_state # "CheckMID" /\ sysex_state # "Begin"
    BY <1>5 DEF ContinueBlock, SysExInv, NeverPastEnd
  <2>2. whole => InStep(msg)
    <3>1. whole => sent > 0
      BY <1>0, <2>1 DEF SysExInv
    <3> QED
      BY <1>0, <1>1, <3>1 DEF SysExInv
  <2>3. CASE sysex_state # "Invalid" /\ Room(3) /\ Store(1, 3) /\ UNCHANGED sysex_state
    <3>1. 3 \in 1..3 /\ 3 <= Left /\ 3 \in 3..4 /\ 4 \in 3..4
      BY <1>0, <1>1 DEF Left
    <3>2. sysex_ptr' = sysex_ptr + 3
      BY <2>3 DEF Store
    <3>3. sysex_ptr' \in Nat /\ BASE <= sysex_ptr' /\ sysex_ptr' < BASE + MIDI_MAX_SYSEX
      BY <1>0, <2>1, <2>3, <3>2 DEF Room
    <3>4. whole => InStep(msg)'
      <4> SUFFICES ASSUME whole PROVE InStep(msg)'
        OBVIOUS
      <4>1. CASE sysex_state = "DJTT"
        <5>1. Stored(msg, 4) /\ sent >= 6 /\ \A j \in 1..3 : msg[j + 1] = MFR_ID[j]
          BY <2>2, <4>1 DEF InStep
        <5>2. sent >= 4 /\ sent' >= 6
          BY <1>0, <1>1, <5>1
        <5>3. /\ sysex_ptr' = BASE + (sent + 3) - 4
              /\ \A o \in 0 .. (sent + 3 - 4 - 1) : sysex_buffer'[o] = msg[o + 4 + 1]
          BY <2>3, <3>1, <5>1, <5>2, StoredStep
        <5>4. Stored(msg, 4)'
          <6>1. sent' - 4 - 1 = sent + 3 - 4 - 1 /\ BASE + sent' - 4 = BASE + (sent + 3) - 4
            BY <1>0, <1>1
          <6> QED
            BY <1>1, <5>3, <6>1 DEF Stored
        <5> QED
          BY <1>1, <2>3, <4>1, <5>1, <5>2, <5>4 DEF InStep
      <4>2. CASE sysex_state = "NonRealtime"
        <5>1. Stored(msg, 3) /\ sent >= 3 /\ ForUs(msg)
          BY <2>2, <4>2 DEF InStep, ForUs
        <5>2. sent' >= 3
          BY <1>0, <1>1, <5>1, SMTT(30)
        <5>3. /\ sysex_ptr' = BASE + (sent + 3) - 3
              /\ \A o \in 0 .. (sent + 3 - 3 - 1) : sysex_buffer'[o] = msg[o + 3 + 1]
          BY <2>3, <3>1, <5>1, <5>2, StoredStep
        <5>4. Stored(msg, 3)'
          <6>1. sent' - 3 - 1 = sent + 3 - 3 - 1 /\ BASE + sent' - 3 = BASE + (sent + 3) - 3
            BY <1>0, <1>1
          <6> QED
            BY <1>1, <5>3, <6>1 DEF Stored
        <5> QED
          BY <1>1, <2>3, <4>2, <5>1, <5>2, <5>4 DEF InStep, ForUs
      <4> QED
        BY <2>1, <2>2, <2>3, <4>1, <4>2 DEF InStep
    <3> QED
      BY <1>2, <2>1, <2>3, <3>3, <3>4
  <2>4. CASE (sysex_state = "Invalid" \/ ~Room(3)) /\ sysex_state' = "Invalid" /\ NoStore
    <3>1. whole => Meaning(msg) = Nothing
      <4> SUFFICES ASSUME whole, sysex_state # "Invalid" PROVE Meaning(msg) = Nothing
        BY <2>2 DEF InStep
      <4>1. 3 \in 1..3 /\ 3 <= Left
        BY <1>0, <1>1 DEF Left
      <4>2. \/ Ours(msg) /\ sysex_ptr = BASE + sent - 4
            \/ ForUs(msg) /\ sysex_ptr = BASE + sent - 3
        BY <2>1, <2>2, IDFacts, SMTT(30) DEF InStep, Stored, Ours, ForUs
      <4> QED
        BY <2>4, <4>1, <4>2, TooLong
    <3>2. whole => InStep(msg)'
      BY <1>1, <2>4, <3>1 DEF InStep
    <3> QED
      BY <1>0, <1>2, <2>1, <2>4, <3>2 DEF NoStore
  <2> QED
    BY <1>5, <2>3, <2>4 DEF ContinueBlock
<1> QED
  BY <1>3, <1>4, <1>5 DEF sysex_handle_3sc

\* The last packet of a message, of n bytes, keeps the invariant.
LEMMA EndStep ==
  ASSUME SysExTypeOK, SysExInv, NEW n \in 1..3, Left = n, sent' = sent + n, UNCHANGED hostVars,
         ~sysex_is_reading', sysex_state' = "Begin",
         sysex_ptr' \in Nat, sysex_ptr' <= BASE + MIDI_MAX_SYSEX,
         whole => ran' = Meaning(msg)
  PROVE  SysExInv'
<1>0. Len(msg) \in Nat /\ sent \in Nat /\ msg' = msg /\ whole' = whole
  BY MessageFacts, SMTT(30) DEF SysExTypeOK, hostVars
<1>1. Left' = 0 /\ ~(Left' > 0) /\ ~(sent' = 0)
  BY <1>0 DEF Left
<1>2. Meaning(msg)' = Meaning(msg)
  BY <1>0
<1>3. RunsMeaning'
  BY <1>0, <1>1, <1>2 DEF RunsMeaning
<1>4. NeverPastEnd'
  BY DEF NeverPastEnd
<1> QED
  BY <1>1, <1>3, <1>4 DEF SysExInv

\* A store that the check allowed, or none, leaves the pointer in bounds.
LEMMA PointerBound ==
  ASSUME SysExTypeOK, SysExInv,
         \/ NoStore
         \/ \E from \in 1..2, n \in 1..3 : Room(n) /\ Store(from, n)
  PROVE  sysex_ptr' \in Nat /\ sysex_ptr' <= BASE + MIDI_MAX_SYSEX
<1>0. sysex_ptr \in Nat /\ BASE \in Nat /\ MIDI_MAX_SYSEX \in Nat
  BY MessageFacts, ZenonT(60) DEF SysExTypeOK
<1>1. CASE NoStore
  BY <1>0, <1>1 DEF NoStore, SysExInv, NeverPastEnd
<1>2. ASSUME NEW from \in 1..2, NEW n \in 1..3, Room(n), Store(from, n)
      PROVE  sysex_ptr' \in Nat /\ sysex_ptr' <= BASE + MIDI_MAX_SYSEX
  BY <1>0, <1>2, SMTT(30) DEF Room, Store
<1> QED
  BY <1>1, <1>2

\* Where a message that followed a whole one stands when its last packet comes.
LEMMA AtTheEnd ==
  ASSUME SysExTypeOK, SysExInv, whole, Left > 0
  PROVE  \/ sent = 0 /\ ~sysex_is_reading /\ sysex_state = "Begin"
         \/ sysex_is_reading /\ sysex_state # "Begin" /\ InStep(msg)
<1>0. sent \in Nat
  BY MessageFacts, SMTT(30) DEF SysExTypeOK
<1>1. sent = 0 \/ 0 < sent
  BY <1>0
<1> QED
  BY <1>1 DEF SysExInv

\* The three-byte end.
LEMMA End3Step == SysExTypeOK /\ SysExInv /\ sysex_handle_3e => SysExInv'
<1> SUFFICES ASSUME SysExTypeOK, SysExInv, sysex_handle_3e PROVE SysExInv'
  OBVIOUS
<1>0. /\ msg \in Message /\ sent \in Nat /\ BASE \in Nat /\ MIDI_MAX_SYSEX \in Nat
      /\ MIDI_MAX_SYSEX > 2 /\ Len(msg) \in Nat /\ 3 \in 1..3 /\ 2 \in 1..3 /\ 2 \in 1..2 /\ 1 \in 1..2
  BY MessageFacts, SMTT(30) DEF SysExTypeOK
<1>1. /\ Left = 3 /\ Left > 0 /\ sent' = sent + 3 /\ UNCHANGED hostVars
      /\ ~sysex_is_reading' /\ sysex_state' = "Begin"
  BY DEF sysex_handle_3e
<1>2. ran = Nothing
  BY <1>1 DEF SysExInv, RunsMeaning
<1>3. SUFFICES /\ sysex_ptr' \in Nat /\ sysex_ptr' <= BASE + MIDI_MAX_SYSEX
               /\ whole => ran' = Meaning(msg)
  BY <1>0, <1>1, EndStep
<1>4. CASE sysex_state # "CheckMID"
  <2>1. Ends(3)
    BY <1>4 DEF sysex_handle_3e, Ends
  <2>2. NoStore \/ (Room(3) /\ Store(1, 3))
    BY <2>1 DEF Ends, StoreAndRun, RunNothing
  <2>3. sysex_ptr' \in Nat /\ sysex_ptr' <= BASE + MIDI_MAX_SYSEX
    BY <1>0, <2>2, PointerBound
  <2>4. ASSUME whole, sent = 0, sysex_state = "Begin" PROVE ran' = Meaning(msg)
    <3>1. Len(msg) <= 4
      <4>1. Len(msg) = 3
        BY <1>0, <1>1, <2>4 DEF Left
      <4> QED
        BY <4>1
    <3>2. ran' = Nothing
      BY <1>2, <2>1, <2>4 DEF Ends, StoreAndRun, RunNothing, sysex_handle
    <3> QED
      BY <1>0, <3>1, <3>2, MeaningByHeader
  <2>5. ASSUME whole, InStep(msg) PROVE ran' = Meaning(msg)
    BY <1>0, <1>1, <1>2, <1>4, <2>1, <2>5, EndExact
  <2> QED
    BY <1>1, <2>3, <2>4, <2>5, AtTheEnd
<1>5. CASE sysex_state = "CheckMID"
  <2>1. \/ IsOurs /\ StoreAndRun("DJTT", 2, 2)
        \/ ~IsOurs /\ RunNothing
    BY <1>5 DEF sysex_handle_3e
  <2>2. NoStore \/ (Room(2) /\ Store(2, 2))
    BY <2>1 DEF IsOurs, StoreAndRun, RunNothing
  <2>3. sysex_ptr' \in Nat /\ sysex_ptr' <= BASE + MIDI_MAX_SYSEX
    BY <1>0, <2>2, PointerBound
  <2>4. ASSUME whole PROVE ran' = Meaning(msg)
    <3>1. InStep(msg)
      BY <1>1, <1>5, <2>4, AtTheEnd
    <3>2. sent = 3 /\ msg[2] = 0 /\ msg[3] = 1 /\ sysex_ptr = BASE
      BY <1>5, <3>1, IDFacts DEF InStep
    <3>3. Len(msg) = 6 /\ Data(1) = msg[4] /\ Room(2)
      BY <1>0, <1>1, <3>2 DEF Left, Data, Room
    <3>4. CASE IsOurs /\ StoreAndRun("DJTT", 2, 2)
      <4>1. Ours(msg)
        BY <3>2, <3>3, <3>4, IDFacts, ZenonT(60) DEF IsOurs, Ours
      <4>2. Store(2, 2) /\ ran' = sysex_handle("DJTT", sysex_buffer', sysex_ptr' - BASE)
        BY <3>4 DEF StoreAndRun
      <4>3. 2 + 2 - 1 <= Left
        BY <1>0, <1>1
      <4>4. /\ sysex_ptr' = sysex_ptr + 2
            /\ \A o \in Offset : sysex_buffer'[o] =
                 IF BASE + o >= sysex_ptr /\ BASE + o < sysex_ptr + 2
                 THEN msg[sent + 2 + BASE + o - sysex_ptr] ELSE sysex_buffer[o]
        BY <4>2, <4>3, StoreFacts, SMTT(30)
      <4>5. ASSUME NEW o \in 0 .. (2 - 1) PROVE sysex_buffer'[o] = msg[o + 4 + 1]
        <5>1. /\ o \in Offset /\ BASE + o >= sysex_ptr /\ BASE + o < sysex_ptr + 2
              /\ sent + 2 + BASE + o - sysex_ptr = o + 4 + 1
          BY <1>0, <3>2 DEF Offset
        <5> QED
          BY <4>4, <5>1
      <4>6. sysex_ptr' - BASE = 2 /\ 2 = Len(msg) - 4 /\ 2 \in Nat /\ 2 > 0
        BY <1>0, <3>2, <3>3, <4>4, SMTT(30)
      <4>7. sysex_handle("DJTT", sysex_buffer', 2) = Meaning(msg)
        BY <1>0, <4>1, <4>5, <4>6, CommandRuns
      <4> QED
        BY <4>2, <4>6, <4>7
    <3>5. CASE ~IsOurs /\ RunNothing
      <4>1. ~Ours(msg) /\ ~ForUs(msg)
        BY <3>2, <3>3, <3>5, IDFacts, SMTT(30) DEF IsOurs, Ours, ForUs
      <4> QED
        BY <1>0, <1>2, <3>5, <4>1, MeaningByHeader DEF RunNothing
    <3> QED
      BY <2>1, <3>4, <3>5
  <2> QED
    BY <2>3, <2>4
<1> QED
  BY <1>4, <1>5

\* The two-byte and the one-byte end.
LEMMA EndBlockStep ==
  ASSUME SysExTypeOK, SysExInv, NEW n \in 1..2, Left = n, sent' = sent + n, UNCHANGED hostVars,
         EndBlock(n) \/ (n = 2 /\ NoBlock)
  PROVE  SysExInv'
<1>0. /\ msg \in Message /\ sent \in Nat /\ BASE \in Nat /\ MIDI_MAX_SYSEX \in Nat
      /\ Len(msg) \in Nat /\ n \in 1..3 /\ 1 \in 1..2 /\ Left > 0 /\ n # 3
  BY MessageFacts, SMTT(30) DEF SysExTypeOK
<1>1. ran = Nothing
  BY <1>0 DEF SysExInv, RunsMeaning
<1>2. CASE EndBlock(n)
  <2>1. sysex_is_reading /\ ~sysex_is_reading' /\ sysex_state' = "Begin" /\ Ends(n)
    BY <1>2 DEF EndBlock, Ends
  <2>2. NoStore \/ (Room(n) /\ Store(1, n))
    BY <2>1 DEF Ends, StoreAndRun, RunNothing
  <2>3. sysex_ptr' \in Nat /\ sysex_ptr' <= BASE + MIDI_MAX_SYSEX
    BY <1>0, <2>2, PointerBound
  <2>4. ASSUME whole PROVE ran' = Meaning(msg)
    <3>1. InStep(msg)
      BY <1>0, <2>1, <2>4, AtTheEnd
    <3> QED
      BY <1>0, <1>1, <2>1, <3>1, EndExact
  <2> QED
    BY <1>0, <2>1, <2>3, <2>4, EndStep
<1>3. CASE n = 2 /\ NoBlock
  <2>1. ~sysex_is_reading /\ ~sysex_is_reading' /\ NoStore /\ ran' = ran
    BY <1>3 DEF NoBlock, RunNothing
  <2>2. sysex_state' = "Begin"
    BY <1>3 DEF NoBlock, SysExInv
  <2>3. sysex_ptr' \in Nat /\ sysex_ptr' <= BASE + MIDI_MAX_SYSEX
    BY <2>1, PointerBound
  <2>4. ASSUME whole PROVE ran' = Meaning(msg)
    <3>1. sent = 0
      BY <1>0, <2>1, <2>4, AtTheEnd
    <3>2. Len(msg) = 2
      BY <1>0, <1>3, <3>1 DEF Left
    <3>3. Len(msg) <= 4
      BY <3>2
    <3> QED
      BY <1>0, <1>1, <2>1, <3>3, MeaningByHeader
  <2> QED
    BY <1>0, <2>1, <2>2, <2>3, <2>4, EndStep
<1> QED
  BY <1>2, <1>3

\* The next message, at the end of this one or before.
LEMMA NextMessageStep ==
  ASSUME SysExTypeOK, SysExInv, NEW m \in Message, NextMessage(m)
  PROVE  SysExInv'
<1>1. /\ msg' = m /\ sent' = 0 /\ (whole' <=> Left = 0) /\ ran' = Nothing
      /\ UNCHANGED <<sysex_is_reading, sysex_state, sysex_ptr, sysex_buffer>>
  BY DEF NextMessage
<1>2. Len(m) \in Nat /\ Len(m) > 1
  BY MessageFacts, ZenonT(60)
<1>3. Left' > 0 /\ ~(Left' = 0)
  BY <1>1, <1>2 DEF Left
<1>4. RunsMeaning'
  BY <1>1, <1>3 DEF RunsMeaning
<1>5. NeverPastEnd' /\ (~sysex_is_reading' <=> sysex_state' = "Begin")
      /\ (sysex_is_reading' => sysex_ptr' < BASE + MIDI_MAX_SYSEX)
  BY <1>1 DEF NeverPastEnd, SysExInv
<1>6. whole' => ~sysex_is_reading'
  BY <1>1 DEF SysExInv, RunsMeaning
<1>7. ~(0 < sent')
  BY <1>1
<1> QED
  BY <1>4, <1>5, <1>6, <1>7 DEF SysExInv

\* Every step keeps the invariant.
LEMMA SysExStep == SysExTypeOK /\ SysExInv /\ [SysExNext]_sysexVars => SysExInv'
<1> SUFFICES ASSUME SysExTypeOK, SysExInv, [SysExNext]_sysexVars PROVE SysExInv'
  OBVIOUS
<1>1. CASE sysex_handle_3sc
  BY <1>1, ContinueStep
<1>2. CASE sysex_handle_3e
  BY <1>2, End3Step
<1>3. CASE sysex_handle_2e
  <2>1. 2 \in 1..2
    OBVIOUS
  <2> QED
    BY <1>3, <2>1, EndBlockStep DEF sysex_handle_2e
<1>4. CASE sysex_handle_1e
  <2>1. 1 \in 1..2
    OBVIOUS
  <2> QED
    BY <1>4, <2>1, EndBlockStep DEF sysex_handle_1e
<1>5. ASSUME NEW m \in Message, NextMessage(m) PROVE SysExInv'
  BY <1>5, NextMessageStep
<1>6. CASE SystemCommon \/ UNCHANGED sysexVars
  <2>1. UNCHANGED sysexVars
    BY <1>6 DEF SystemCommon, NoBlock, RunNothing, NoStore, hostVars, sysexVars
  <2> QED
    BY <2>1 DEF sysexVars, SysExInv, RunsMeaning, NeverPastEnd, InStep, Stored, Left
<1> QED
  BY <1>1, <1>2, <1>3, <1>4, <1>5, <1>6 DEF SysExNext

\* The parser starts where the invariant says.
LEMMA SysExStart == SysExInit => SysExTypeOK /\ SysExInv
<1> SUFFICES ASSUME SysExInit PROVE SysExTypeOK /\ SysExInv
  OBVIOUS
<1>0. /\ BASE \in Nat /\ MIDI_MAX_SYSEX \in Nat /\ MIDI_MAX_SYSEX > 2
      /\ Len(msg) \in Nat /\ Len(msg) > 1 /\ msg \in Message
  BY MessageFacts, SMTT(30) DEF SysExInit
<1>1. sent \in 0 .. Len(msg) /\ Left > 0 /\ ~(Left = 0) /\ ~(0 < sent)
  BY <1>0 DEF SysExInit, Left
<1>2. sysex_is_reading \in BOOLEAN /\ whole \in BOOLEAN /\ strayed \in BOOLEAN
  BY DEF SysExInit
<1>3. SysExTypeOK
  BY <1>0, <1>1, <1>2, SMTT(30) DEF SysExInit, SysExTypeOK, State, Nothing
<1>4. RunsMeaning /\ NeverPastEnd
  BY <1>0, <1>1 DEF SysExInit, RunsMeaning, NeverPastEnd
<1> QED
  BY <1>1, <1>3, <1>4 DEF SysExInit, SysExInv

\* For every size of the buffer and every set of messages: a message runs what
\* it means and only at its end, unless the host abandoned the one before it.
THEOREM RunsMeaningAlways == SysExSpec => []RunsMeaning
<1>1. SysExInv => RunsMeaning
  BY DEF SysExInv
<1> QED
  BY <1>1, SysExStart, SysExStep, SysExTypeStep, PTL DEF SysExSpec

\* No handler stores past the end of sysex_buffer, or below it while it reads.
THEOREM NeverPastEndAlways == SysExSpec => []NeverPastEnd
<1>1. SysExInv => NeverPastEnd
  BY DEF SysExInv
<1> QED
  BY <1>1, SysExStart, SysExStep, SysExTypeStep, PTL DEF SysExSpec

----------------------------------------------------------------------------
(* Feedback: the lights of the keys.                                       *)

Counter == {0} \cup STAMP .. (2 * STAMP - 1)

\* The facts on the constants, and the time stamp of a moment.
LEMMA StampFacts ==
  /\ STAMP \in Nat \ {0} /\ TIME_MOD \in Nat \ {0} /\ LIMIT \in Nat /\ REFRESH \in Nat
  /\ LIMIT <= REFRESH /\ MAX_GAP \in Nat /\ REFRESH <= MAX_GAP /\ MAX_GAP + LIMIT <= STAMP
  /\ TIME_MOD > STAMP + LIMIT /\ TIME_MOD % STAMP = 0
  /\ MAX_VELOCITY \in Nat
  /\ \A t \in Nat : t % STAMP \in 0 .. (STAMP - 1)
BY FeedbackAssumption, SMTT(30) DEF FeedbackAssumption

\* Multiplication by a positive number is monotonic.
LEMMA MulMono ==
  ASSUME NEW n \in Nat \ {0}, NEW a \in Int, NEW b \in Int, a < b
  PROVE  n * a + n <= n * b
<1>1. n * (b - a) >= n
  <2>1. b - a \in Nat /\ b - a >= 1
    OBVIOUS
  <2>2. \A d \in Nat : d >= 1 => n * d >= n
    OBVIOUS
  <2> QED
    BY <2>1, <2>2
<1>2. n * (b - a) = n * b - n * a
  OBVIOUS
<1>3. n * b \in Int /\ n * a \in Int
  OBVIOUS
<1> QED
  BY <1>1, <1>2, <1>3

\* A remainder is unique.
LEMMA ModUnique ==
  ASSUME NEW n \in Nat \ {0}, NEW q \in Nat, NEW r \in 0 .. (n - 1)
  PROVE  (n * q + r) % n = r
<1> DEFINE x == n * q + r
<1>0. x \in Nat /\ n * q \in Nat
  OBVIOUS
<1> HIDE DEF x
<1> DEFINE d == x \div n
           m == x % n
<1>1. d \in Int /\ m \in 0 .. (n - 1) /\ x = n * d + m
  BY <1>0
<1> HIDE DEF d, m
<1>2. ~(d < q)
  BY <1>0, <1>1, MulMono DEF x
<1>3. ~(q < d)
  BY <1>0, <1>1, MulMono DEF x
<1>4. d = q
  BY <1>1, <1>2, <1>3
<1>5. m = r
  BY <1>0, <1>1, <1>4 DEF x
<1> QED
  BY <1>5 DEF m, x

\* The remainder of the next number.
LEMMA ModNext ==
  ASSUME NEW n \in Nat \ {0}, NEW t \in Nat
  PROVE  (t + 1) % n = IF (t % n) + 1 = n THEN 0 ELSE (t % n) + 1
<1> DEFINE q == t \div n
           r == t % n
<1>1. q \in Nat /\ r \in 0 .. (n - 1) /\ t = n * q + r
  OBVIOUS
<1> HIDE DEF q, r
<1>2. CASE r + 1 < n
  <2>1. t + 1 = n * q + (r + 1)
    BY <1>1
  <2>2. r + 1 \in 0 .. (n - 1) /\ r + 1 # n
    BY <1>1, <1>2
  <2>3. (n * q + (r + 1)) % n = r + 1
    BY <1>1, <2>2, ModUnique
  <2> QED
    BY <2>1, <2>2, <2>3 DEF r
<1>3. CASE r + 1 = n
  <2>1. t + 1 = n * (q + 1) + 0
    BY <1>1, <1>3
  <2>2. (n * (q + 1) + 0) % n = 0
    BY <1>1, ModUnique, SMTT(30)
  <2> QED
    BY <1>3, <2>1, <2>2 DEF r
<1> QED
  BY <1>1, <1>2, <1>3

\* The stamp counts the milliseconds modulo STAMP, through a wrap of the clock.
LEMMA StampTicks ==
  ASSUME NEW t \in 0 .. (TIME_MOD - 1)
  PROVE  /\ (t + 1) % TIME_MOD = IF t + 1 = TIME_MOD THEN 0 ELSE t + 1
         /\ ((t + 1) % TIME_MOD) % STAMP =
              IF (t % STAMP) + 1 = STAMP THEN 0 ELSE (t % STAMP) + 1
<1>0. STAMP \in Nat \ {0} /\ TIME_MOD \in Nat \ {0} /\ TIME_MOD % STAMP = 0 /\ t \in Nat
  BY StampFacts, SMTT(30)
<1>1. (t + 1) % TIME_MOD = IF t + 1 = TIME_MOD THEN 0 ELSE t + 1
  <2>1. CASE t + 1 = TIME_MOD
    BY <1>0, <2>1
  <2>2. CASE t + 1 < TIME_MOD
    BY <1>0, <2>2
  <2> QED
    BY <1>0, <2>1, <2>2
<1>2. (t + 1) % STAMP = IF (t % STAMP) + 1 = STAMP THEN 0 ELSE (t % STAMP) + 1
  BY <1>0, ModNext
<1>3. 0 % STAMP = 0
  BY <1>0
<1>4. CASE t + 1 = TIME_MOD
  <2>1. (t + 1) % STAMP = 0 /\ (t + 1) % TIME_MOD = 0
    BY <1>0, <1>1, <1>4
  <2> QED
    BY <1>1, <1>2, <1>3, <2>1
<1>5. CASE t + 1 # TIME_MOD
  BY <1>1, <1>2, <1>5
<1> QED
  BY <1>4, <1>5

\* A stamp taken now carries the flag.
LEMMA StampedType == FeedbackTypeOK => Stamped \in Counter /\ Stamped >= STAMP
<1> SUFFICES ASSUME FeedbackTypeOK PROVE Stamped \in Counter /\ Stamped >= STAMP
  OBVIOUS
<1>1. system_time_ms \in Nat
  BY StampFacts, SMTT(30) DEF FeedbackTypeOK
<1> DEFINE p == system_time_ms % STAMP
<1>2. p \in 0 .. (STAMP - 1) /\ Stamped = STAMP + p
  BY <1>1, StampFacts DEF Stamped
<1>3. STAMP \in Nat \ {0}
  BY StampFacts
<1> HIDE DEF p
<1> QED
  BY <1>2, <1>3 DEF Counter

\* Every step keeps the types.
LEMMA FeedbackTypeStep == FeedbackTypeOK /\ [FeedbackNext]_feedbackVars => FeedbackTypeOK'
<1> SUFFICES ASSUME FeedbackTypeOK, [FeedbackNext]_feedbackVars PROVE FeedbackTypeOK'
  OBVIOUS
<1>0. 0 \in Velocity /\ 0 \in Counter /\ 0 \in Nat
  BY StampFacts DEF Velocity, Counter
<1>1. CASE Tick
  <2>1. system_time_ms' \in 0 .. (TIME_MOD - 1)
    BY <1>1, StampFacts, StampTicks, SMTT(30) DEF Tick, FeedbackTypeOK
  <2>2. gap' \in 0..MAX_GAP
    BY <1>1, StampFacts, SMTT(30) DEF Tick, FeedbackTypeOK
  <2> QED
    BY <1>1, <2>1, <2>2 DEF Tick, FeedbackTypeOK
<1>2. ASSUME NEW channel \in Channel, NEW note \in Note, NEW velocity \in Velocity,
             NoteOn(channel, note, velocity)
      PROVE  FeedbackTypeOK'
  <2>1. g_midi_note_state' \in [Id -> Velocity] /\ want' \in [Id -> Velocity]
    BY <1>2 DEF Set, NoteOn, FeedbackTypeOK
  <2>2. g_midi_note_off_counter' \in [Id -> Counter] /\ skipped' \in [Id -> Nat]
    BY <1>0, <1>2 DEF Set, NoteOn, FeedbackTypeOK, Counter
  <2>3. animation' \in [Note -> Velocity]
    BY <1>2 DEF NoteOn, Animate, FeedbackTypeOK
  <2> QED
    BY <1>2, <2>1, <2>2, <2>3 DEF NoteOn, FeedbackTypeOK, clockVars, Counter
<1>3. ASSUME NEW channel \in Channel, NEW note \in Note, NoteOff(channel, note)
      PROVE  FeedbackTypeOK'
  <2>1. want' \in [Id -> Velocity] /\ skipped' \in [Id -> Nat]
    BY <1>0, <1>3 DEF Set, NoteOff, FeedbackTypeOK
  <2>2. g_midi_note_off_counter' \in [Id -> Counter]
    BY <1>3, StampedType DEF Set, NoteOff, FeedbackTypeOK, Counter
  <2>3. animation' \in [Note -> Velocity]
    BY <1>0, <1>3 DEF NoteOff, Animate, FeedbackTypeOK
  <2> QED
    BY <1>3, <2>1, <2>2, <2>3 DEF NoteOff, FeedbackTypeOK, clockVars, Counter
<1>4. CASE Refresh
  <2>1. update_note_off_feedback_delay
    BY <1>4 DEF Refresh
  <2>2. g_midi_note_state' \in [Id -> Velocity]
    BY <1>0, <2>1 DEF Set, update_note_off_feedback_delay, FeedbackTypeOK
  <2>3. g_midi_note_off_counter' \in [Id -> Counter]
    BY <1>0, <2>1 DEF Set, update_note_off_feedback_delay, FeedbackTypeOK, Counter
  <2>4. skipped' \in [Id -> Nat]
    BY <1>0, <2>1, SMTT(30) DEF update_note_off_feedback_delay, FeedbackTypeOK
  <2>5. gap' \in 0..MAX_GAP
    BY <1>4, StampFacts DEF Refresh
  <2> QED
    BY <1>4, <2>2, <2>3, <2>4, <2>5 DEF Refresh, FeedbackTypeOK, Counter
<1>5. CASE UNCHANGED feedbackVars
  BY <1>5 DEF feedbackVars, FeedbackTypeOK
<1>6. ASSUME NEW channel \in Channel, ReceiveConfig(channel) PROVE FeedbackTypeOK'
  BY <1>6 DEF ReceiveConfig, clockVars, FeedbackTypeOK
<1> QED
  BY <1>1, <1>2, <1>3, <1>4, <1>5, <1>6 DEF FeedbackNext

\* Every step keeps the lights at the host's last word.
LEMMA FollowsStep ==
  FeedbackTypeOK /\ FollowsHost /\ [FeedbackNext]_feedbackVars => FollowsHost'
<1> SUFFICES ASSUME FeedbackTypeOK, FollowsHost, [FeedbackNext]_feedbackVars, NEW id \in Id
             PROVE  (IF g_midi_note_off_counter[id] = 0 THEN g_midi_note_state[id] = want[id]
                     ELSE want[id] = 0)'
  BY DEF FollowsHost, Id
<1> DEFINE Follows == IF g_midi_note_off_counter[id] = 0
                      THEN g_midi_note_state[id] = want[id] ELSE want[id] = 0
<1>0. Follows
  BY DEF FollowsHost
<1>1. CASE UNCHANGED <<g_midi_note_state, g_midi_note_off_counter, want>>
  BY <1>0, <1>1
<1>2. ASSUME NEW channel \in Channel, NEW note \in Note, NEW velocity \in Velocity,
             NoteOn(channel, note, velocity)
      PROVE  Follows'
  BY <1>0, <1>2 DEF NoteOn, Set, FeedbackTypeOK
<1>3. ASSUME NEW channel \in Channel, NEW note \in Note, NoteOff(channel, note)
      PROVE  Follows'
  <2>1. Stamped # 0
    BY StampedType, StampFacts DEF Counter
  <2> QED
    BY <1>0, <1>3, <2>1 DEF NoteOff, Set, FeedbackTypeOK
<1>4. CASE Refresh
  <2> DEFINE due == {x \in Id : NoteOffDue(x)}
  <2>1. /\ g_midi_note_state'[id] = IF id \in due THEN 0 ELSE g_midi_note_state[id]
        /\ g_midi_note_off_counter'[id] = IF id \in due THEN 0
                                          ELSE g_midi_note_off_counter[id]
        /\ want' = want
    BY <1>4 DEF Refresh, update_note_off_feedback_delay, Set, FeedbackTypeOK
  <2>2. id \in due => g_midi_note_off_counter[id] # 0
    BY StampFacts DEF NoteOffDue
  <2> HIDE DEF due
  <2> QED
    BY <1>0, <2>1, <2>2
<1> QED
  BY <1>1, <1>2, <1>3, <1>4 DEF FeedbackNext, Tick, ReceiveConfig, feedbackVars

\* What OffInv says of one key.
OffInvAt(id) ==
  /\ skipped[id] <= 1
  /\ skipped[id] = 1 => /\ g_midi_note_off_counter[id] >= STAMP
                        /\ gap <= Elapsed(id) /\ Elapsed(id) < gap + LIMIT

\* The time of day of the last refresh and the gap since agree.
LEMMA GapStep ==
  FeedbackTypeOK /\ OffInv /\ [FeedbackNext]_feedbackVars
    => (Minus(system_time_ms, last_led_refresh_time_ms) = gap)'
<1> SUFFICES ASSUME FeedbackTypeOK, OffInv, [FeedbackNext]_feedbackVars
             PROVE  Minus(system_time_ms', last_led_refresh_time_ms') = gap'
  BY DEF Minus
<1>0. /\ system_time_ms \in 0 .. (TIME_MOD - 1)
      /\ last_led_refresh_time_ms \in 0 .. (TIME_MOD - 1)
      /\ gap \in 0..MAX_GAP
      /\ Minus(system_time_ms, last_led_refresh_time_ms) = gap
  BY DEF FeedbackTypeOK, OffInv
<1>1. CASE Tick
  <2>1. /\ gap < MAX_GAP /\ gap' = gap + 1
        /\ last_led_refresh_time_ms' = last_led_refresh_time_ms
        /\ system_time_ms' = IF system_time_ms + 1 = TIME_MOD THEN 0 ELSE system_time_ms + 1
    BY <1>0, <1>1, StampTicks DEF Tick
  <2>2. TIME_MOD \in Nat /\ MAX_GAP \in Nat /\ MAX_GAP < TIME_MOD
    BY StampFacts
  <2> QED
    BY <1>0, <2>1, <2>2 DEF Minus
<1>2. CASE Refresh
  BY <1>0, <1>2 DEF Refresh, Minus
<1>3. CASE UNCHANGED <<system_time_ms, last_led_refresh_time_ms, gap>>
  BY <1>0, <1>3
<1> QED
  BY <1>1, <1>2, <1>3 DEF FeedbackNext, NoteOn, NoteOff, ReceiveConfig, clockVars, feedbackVars

\* A millisecond ages every pending note off by one.
LEMMA OffTick ==
  ASSUME FeedbackTypeOK, OffInv, Tick, NEW id \in Id
  PROVE  OffInvAt(id)'
<1> DEFINE p == system_time_ms % STAMP
           q == system_time_ms' % STAMP
           s == g_midi_note_off_counter[id] - STAMP
           e == IF p >= s THEN p - s ELSE p - s + STAMP
           f == IF q >= s THEN q - s ELSE q - s + STAMP
<1>1. /\ gap < MAX_GAP /\ gap' = gap + 1 /\ gap \in Nat
      /\ skipped' = skipped /\ g_midi_note_off_counter' = g_midi_note_off_counter
  BY StampFacts, SMTT(30) DEF Tick, FeedbackTypeOK
<1>2. Elapsed(id) = e /\ Elapsed(id)' = f
  BY <1>1 DEF Elapsed
<1>3. p \in 0 .. (STAMP - 1) /\ q = IF p + 1 = STAMP THEN 0 ELSE p + 1
  <2>1. system_time_ms \in 0 .. (TIME_MOD - 1) /\ system_time_ms \in Nat
        /\ system_time_ms' = (system_time_ms + 1) % TIME_MOD
    BY StampFacts, SMTT(30) DEF Tick, FeedbackTypeOK
  <2> QED
    BY <2>1, StampFacts, StampTicks
<1>4. OffInvAt(id)
  BY DEF OffInv, OffInvAt
<1>5. SUFFICES ASSUME skipped[id] = 1
               PROVE  gap + 1 <= f /\ f < gap + 1 + LIMIT
  BY <1>1, <1>2, <1>4 DEF OffInvAt
<1>6. g_midi_note_off_counter[id] >= STAMP /\ gap <= e /\ e < gap + LIMIT
  BY <1>2, <1>4, <1>5 DEF OffInvAt
<1>7. s \in 0 .. (STAMP - 1)
  <2>1. g_midi_note_off_counter[id] \in {0} \cup STAMP .. (2 * STAMP - 1)
    BY DEF FeedbackTypeOK
  <2>2. STAMP \in Nat \ {0} /\ g_midi_note_off_counter[id] >= STAMP
    BY <1>6, StampFacts
  <2> QED
    BY <2>1, <2>2
<1>8. STAMP \in Nat \ {0} /\ LIMIT \in Nat /\ MAX_GAP \in Nat /\ MAX_GAP + LIMIT <= STAMP
  BY StampFacts
<1> HIDE DEF p, q, s
<1> QED
  BY <1>1, <1>3, <1>6, <1>7, <1>8, SMTT(30)

\* A refresh applies every note off that the one before it left pending.
LEMMA OffRefresh ==
  ASSUME FeedbackTypeOK, OffInv, Refresh, NEW id \in Id
  PROVE  OffInvAt(id)'
<1> DEFINE p == system_time_ms % STAMP
           s == g_midi_note_off_counter[id] - STAMP
           e == IF p >= s THEN p - s ELSE p - s + STAMP
<1>1. /\ gap >= REFRESH /\ gap' = 0 /\ gap \in Nat
      /\ system_time_ms' = system_time_ms
  BY SMTT(30) DEF Refresh, OffInv, FeedbackTypeOK
<1>2. /\ g_midi_note_off_counter'[id] = IF NoteOffDue(id) THEN 0 ELSE g_midi_note_off_counter[id]
      /\ skipped'[id] = IF NoteOffDue(id) \/ g_midi_note_off_counter[id] = 0 THEN 0
                        ELSE skipped[id] + 1
  BY DEF Refresh, update_note_off_feedback_delay, Set, FeedbackTypeOK
<1>3. OffInvAt(id) /\ skipped[id] \in Nat /\ g_midi_note_off_counter[id] \in Counter
  BY DEF OffInv, OffInvAt, FeedbackTypeOK, Counter
<1>4. CASE NoteOffDue(id) \/ g_midi_note_off_counter[id] = 0
  BY <1>2, <1>4 DEF OffInvAt
<1>5. CASE ~NoteOffDue(id) /\ g_midi_note_off_counter[id] # 0
  <2>1. p \in 0 .. (STAMP - 1)
    <3>1. system_time_ms \in Nat
      BY StampFacts, SMTT(30) DEF FeedbackTypeOK
    <3> QED
      BY <3>1, StampFacts
  <2>2. g_midi_note_off_counter[id] >= STAMP /\ s \in 0 .. (STAMP - 1)
    <3>1. STAMP \in Nat \ {0} /\ g_midi_note_off_counter[id] \in STAMP .. (2 * STAMP - 1)
      BY <1>3, <1>5, StampFacts DEF Counter
    <3> QED
      BY <3>1
  <2>3. ~(Minus(p, s) >= LIMIT)
    BY <1>5, <2>2 DEF NoteOffDue
  <2>4. STAMP \in Nat \ {0} /\ TIME_MOD \in Nat /\ LIMIT \in Nat /\ REFRESH \in Nat
        /\ LIMIT <= REFRESH /\ TIME_MOD > STAMP + LIMIT
    BY StampFacts
  <2>5. Elapsed(id) = e
    BY DEF Elapsed
  <2>6. Elapsed(id)' = e
    BY <1>1, <1>2, <1>5 DEF Elapsed
  <2> HIDE DEF p, s
  <2>7. p >= s /\ p - s < LIMIT /\ e = p - s
    BY <2>1, <2>2, <2>3, <2>4 DEF Minus
  <2>8. skipped[id] # 1
    BY <1>1, <1>3, <2>1, <2>2, <2>4, <2>5, <2>7, SMTT(30) DEF OffInvAt
  <2>9. skipped'[id] = 1 /\ g_midi_note_off_counter'[id] = g_midi_note_off_counter[id]
    BY <1>2, <1>3, <1>5, <2>8, SMTT(30) DEF OffInvAt
  <2> QED
    BY <1>1, <2>1, <2>2, <2>4, <2>6, <2>7, <2>9 DEF OffInvAt
<1> QED
  BY <1>4, <1>5

\* Every step keeps OffInv.
LEMMA OffStep == FeedbackTypeOK /\ OffInv /\ [FeedbackNext]_feedbackVars => OffInv'
<1> SUFFICES ASSUME FeedbackTypeOK, OffInv, [FeedbackNext]_feedbackVars, NEW id \in Id
             PROVE  OffInvAt(id)'
  BY GapStep DEF OffInv, OffInvAt, Id
<1>0. OffInvAt(id) /\ skipped \in [Id -> Nat] /\ g_midi_note_off_counter \in [Id -> Counter]
  BY DEF OffInv, OffInvAt, FeedbackTypeOK, Counter
<1>1. CASE Tick
  BY <1>1, OffTick
<1>2. CASE Refresh
  BY <1>2, OffRefresh
<1>3. ASSUME NEW ids, UNCHANGED clockVars, NEW v,
             skipped' = Set(skipped, ids, 0),
             g_midi_note_off_counter' = Set(g_midi_note_off_counter, ids, v)
      PROVE  OffInvAt(id)'
  <2>1. CASE id \in ids
    BY <1>0, <1>3, <2>1 DEF OffInvAt, Set
  <2>2. CASE id \notin ids
    <3>1. skipped'[id] = skipped[id] /\ g_midi_note_off_counter'[id] = g_midi_note_off_counter[id]
      BY <1>0, <1>3, <2>2 DEF Set
    <3>2. system_time_ms' = system_time_ms /\ gap' = gap
      BY <1>3 DEF clockVars
    <3>3. Elapsed(id)' = Elapsed(id)
      BY <3>1, <3>2 DEF Elapsed
    <3> QED
      BY <1>0, <3>1, <3>2, <3>3 DEF OffInvAt
  <2> QED
    BY <2>1, <2>2
<1>4. CASE UNCHANGED <<clockVars, g_midi_note_off_counter, skipped>>
  BY <1>0, <1>4 DEF clockVars, OffInvAt, Elapsed
<1> QED
  BY <1>1, <1>2, <1>3, <1>4
     DEF FeedbackNext, NoteOn, NoteOff, ReceiveConfig, feedbackVars, clockVars

\* The initial states satisfy all three.
LEMMA FeedbackStart == FeedbackInit => FeedbackTypeOK /\ FollowsHost /\ OffInv
<1> SUFFICES ASSUME FeedbackInit PROVE FeedbackTypeOK /\ FollowsHost /\ OffInv
  OBVIOUS
<1>1. FeedbackTypeOK
  BY StampFacts DEF FeedbackInit, FeedbackTypeOK, Velocity
<1>2. FollowsHost
  BY DEF FeedbackInit, FollowsHost
<1>3. OffInv
  BY DEF FeedbackInit, OffInv, Minus
<1> QED
  BY <1>1, <1>2, <1>3

\* The lights follow the host's last word, whatever notes come in around a
\* pending note off.
THEOREM FollowsHostAlways == FeedbackSpec => []FollowsHost
<1> QED
  BY FeedbackStart, FeedbackTypeStep, FollowsStep, PTL DEF FeedbackSpec

\* For every stamp size and refresh interval, as long as no two refreshes are more
\* than MAX_GAP apart: a note off takes effect by the second refresh after it.
THEOREM OffBySecondRefreshAlways == FeedbackSpec => []OffBySecondRefresh
<1>1. OffInv => OffBySecondRefresh
  BY DEF OffInv, OffBySecondRefresh
<1> QED
  BY <1>1, FeedbackStart, FeedbackTypeStep, OffStep, PTL DEF FeedbackSpec

\* The channel of bank 2 in eight-bit arithmetic, with its wrap.
LEMMA ChannelOfBank2 ==
  ASSUME NEW n \in Nat \ {0}, NEW c \in 0 .. (n - 1)
  PROVE  /\ (c + n) % n = c
         /\ (c + n - 1) % n = IF c = 0 THEN n - 1 ELSE c - 1
<1>1. (n * 1 + c) % n = c /\ n * 1 + c = c + n
  BY ModUnique, SMTT(30)
<1>2. CASE c = 0
  <2>1. (n * 0 + (n - 1)) % n = n - 1 /\ n * 0 + (n - 1) = c + n - 1
    BY <1>2, ModUnique, SMTT(30)
  <2> QED
    BY <1>1, <1>2, <2>1
<1>3. CASE c # 0
  <2>1. (n * 1 + (c - 1)) % n = c - 1 /\ n * 1 + (c - 1) = c + n - 1
    BY <1>3, ModUnique, SMTT(30)
  <2> QED
    BY <1>1, <1>3, <2>1
<1> QED
  BY <1>2, <1>3

\* For every number of keys and channels and every base note: what the device sends
\* for a key addresses that key, and no other, when the host echoes it.
THEOREM EchoLightsKeyAlways == FeedbackSpec => []EchoLightsKey
<1>1. FeedbackTypeOK => EchoLightsKey
  <2> SUFFICES ASSUME FeedbackTypeOK, NEW b \in 0..1, NEW k \in 0 .. (NUM_BUTTONS - 1)
               PROVE  Addressed(BankChannel(b), midi_64_key_to_note(k)) = {k + b * NUM_BUTTONS}
    BY DEF EchoLightsKey
  <2>0. CHANNELS \in Nat \ {0} /\ CHANNELS > 2 /\ NUM_BUTTONS \in Nat /\ MIDI_BASENOTE \in Nat
        /\ G_EE_MIDI_CHANNEL \in 0 .. (CHANNELS - 1)
    BY FeedbackAssumption, SMTT(30) DEF FeedbackTypeOK, Channel
  <2>1. NoteKey(midi_64_key_to_note(k)) = k /\ k < NUM_BUTTONS
    BY <2>0 DEF NoteKey, midi_64_key_to_note
  <2>2. Bank2Channel = (IF G_EE_MIDI_CHANNEL = 0 THEN CHANNELS - 1 ELSE G_EE_MIDI_CHANNEL - 1)
        /\ (G_EE_MIDI_CHANNEL + CHANNELS) % CHANNELS = G_EE_MIDI_CHANNEL
    BY <2>0, ChannelOfBank2 DEF Bank2Channel
  <2>3. Bank2Channel # Bank1Channel
    BY <2>0, <2>2 DEF Bank1Channel
  <2>4. CASE b = 0
    <3>1. BankChannel(b) = Bank1Channel
      BY <2>0, <2>2, <2>4 DEF BankChannel, Bank1Channel
    <3> QED
      BY <2>0, <2>1, <2>4, <3>1 DEF Addressed
  <2>5. CASE b = 1
    <3>1. BankChannel(b) = Bank2Channel
      BY <2>5 DEF BankChannel, Bank2Channel
    <3> QED
      BY <2>0, <2>1, <2>3, <2>5, <3>1 DEF Addressed
  <2> QED
    BY <2>4, <2>5
<1> QED
  BY <1>1, FeedbackStart, FeedbackTypeStep, PTL DEF FeedbackSpec


----------------------------------------------------------------------------
(* SysExOut: a message cut into packets.                                   *)

\* The host has the bytes sent so far, and has seen no end while some are left.
Upto(n) == [i \in 1..n |-> i]
StreamInv ==
  /\ OutTypeOK
  /\ heard = Upto(length - num)
  /\ over <=> (num = 0 /\ length # 0)

\* The bytes from 1 on, and the k that follow them.
LEMMA NextBytes ==
  ASSUME NEW n \in Nat, NEW k \in 1..3, NEW data \in Seq(Nat), Len(data) = 3,
         \A i \in 1..k : data[i] = n + i
  PROVE  Upto(n) \o SubSeq(data, 1, k) = Upto(n + k)
<1> DEFINE part == SubSeq(data, 1, k)
<1>1. Upto(n) \in Seq(Nat) /\ Len(Upto(n)) = n /\ Upto(n + k) \in Seq(Nat) /\ Len(Upto(n + k)) = n + k
  BY SMTT(30) DEF Upto
<1>2. part \in Seq(Nat) /\ Len(part) = k /\ \A i \in 1..k : part[i] = n + i
  BY SubSeqProperties, SMTT(30)
<1> HIDE DEF part
<1>3. Upto(n) \o part \in Seq(Nat) /\ Len(Upto(n) \o part) = n + k
  BY <1>1, <1>2, ConcatProperties, SMTT(30)
<1>4. ASSUME NEW i \in 1 .. (n + k) PROVE (Upto(n) \o part)[i] = i
  <2>1. CASE i <= n
    BY <1>1, <1>2, <2>1, ConcatProperties, SMTT(30) DEF Upto
  <2>2. CASE i > n
    <3>1. i - n \in 1..k
      BY <2>2, SMTT(30)
    <3>2. i \in 1 .. (Len(Upto(n)) + Len(part)) /\ ~(i <= Len(Upto(n)))
      BY <1>1, <1>2, <2>2
    <3>3. (Upto(n) \o part)[i] = part[i - Len(Upto(n))]
      BY <1>1, <1>2, <3>2, ConcatProperties
    <3>4. part[i - n] = n + (i - n)
      BY <1>2, <3>1
    <3>5. n + (i - n) = i
      BY SMTT(30)
    <3> QED
      BY <1>1, <3>3, <3>4, <3>5
  <2>3. i <= n \/ i > n
    OBVIOUS
  <2> QED
    BY <2>1, <2>2, <2>3
<1>5. \A i \in 1 .. (n + k) : (Upto(n) \o part)[i] = Upto(n + k)[i]
  BY <1>4 DEF Upto
<1> QED
  BY <1>1, <1>3, <1>5, SeqEqual DEF part

\* What the host has got is bytes of the message.
LEMMA UptoIsBytes ==
  ASSUME NEW n \in 0..MAX_LENGTH
  PROVE  Upto(n) \in Seq(0..MAX_LENGTH)
BY SysExOutAssumption DEF Upto

LEMMA StreamStep == StreamInv /\ [OutNext]_outVars => StreamInv'
<1> SUFFICES ASSUME StreamInv, [OutNext]_outVars PROVE StreamInv'
  OBVIOUS
<1>0. /\ MAX_LENGTH \in Nat /\ length \in Nat /\ length <= MAX_LENGTH /\ num \in 0..length
      /\ length - num \in Nat /\ heard = Upto(length - num)
  BY SysExOutAssumption DEF StreamInv, OutTypeOK
<1>1. CASE Continue
  <2> DEFINE data == <<Byte_(1), Byte_(2), Byte_(3)>>
  <2>1. /\ num > 3 /\ heard' = heard \o SubSeq(data, 1, Valid(4)) /\ over' = FALSE
        /\ num' = num - 3 /\ first' = FALSE /\ length' = length
    BY <1>1 DEF Continue, HostTakes
  <2>2. /\ data \in Seq(Nat) /\ Len(data) = 3
        /\ \A i \in 1..3 : data[i] = length - num + i
    BY <1>0 DEF Byte_
  <2>3. Valid(4) = 3
    BY DEF Valid
  <2> HIDE DEF data
  <2>4. heard' = Upto(length - num + 3)
    <3>1. 3 \in 1..3
      OBVIOUS
    <3> QED
      BY <1>0, <2>1, <2>2, <2>3, <3>1, NextBytes, ZenonT(60)
  <2>5. heard' = Upto(length' - num') /\ num' \in 1..length' /\ length' - num' \in 0..MAX_LENGTH
    <3>1. /\ length' - num' = length - num + 3
          /\ num' \in 1..length' /\ length' - num' \in 0..MAX_LENGTH
      BY <1>0, <2>1
    <3> QED
      BY <2>4, <3>1
  <2>6. heard' \in Seq(0..MAX_LENGTH)
    BY <2>5, UptoIsBytes
  <2>7. num' # 0 /\ num' \in 0..length' /\ length' \in 0..MAX_LENGTH
    BY <1>0, <2>1, <2>5
  <2> QED
    BY <2>1, <2>5, <2>6, <2>7 DEF StreamInv, OutTypeOK
<1>2. CASE Finish
  <2> DEFINE data == [i \in 1..3 |-> IF i <= num THEN Byte_(i) ELSE 0]
  <2>1. /\ num \in 1..3 /\ num' = 0 /\ UNCHANGED <<length, first>>
        /\ heard' = heard \o SubSeq(data, 1, Valid(EndCode)) /\ over' = (EndCode # 4)
    BY <1>2 DEF Finish, HostTakes
  <2>2. Valid(EndCode) = num /\ EndCode # 4
    BY <2>1 DEF Valid, EndCode
  <2>3. \A i \in 1..3 : (IF i <= num THEN Byte_(i) ELSE 0) \in Nat
    BY <1>0 DEF Byte_
  <2>4. /\ data \in Seq(Nat) /\ Len(data) = 3
        /\ \A i \in 1..num : data[i] = length - num + i
    BY <1>0, <2>1, <2>3 DEF Byte_
  <2> HIDE DEF data
  <2>5. heard' = Upto(length - num + num)
    BY <1>0, <2>1, <2>2, <2>4, NextBytes
  <2>6. heard' = Upto(length' - num') /\ length' - num' \in 0..MAX_LENGTH
    <3>1. length' - num' = length - num + num /\ length' - num' \in 0..MAX_LENGTH
      BY <1>0, <2>1
    <3> QED
      BY <2>5, <3>1
  <2>7. heard' \in Seq(0..MAX_LENGTH)
    BY <2>6, UptoIsBytes
  <2>8. num' \in 0..length' /\ length' \in 0..MAX_LENGTH /\ length' # 0
    BY <1>0, <2>1
  <2>9. over' = TRUE /\ first \in BOOLEAN
    BY <2>1, <2>2 DEF StreamInv, OutTypeOK
  <2> QED
    BY <2>1, <2>6, <2>7, <2>8, <2>9 DEF StreamInv, OutTypeOK
<1>3. CASE UNCHANGED outVars
  BY <1>3 DEF outVars, StreamInv, OutTypeOK
<1> QED
  BY <1>1, <1>2, <1>3 DEF OutNext

LEMMA StreamStart == OutInit => StreamInv
<1> SUFFICES ASSUME OutInit PROVE StreamInv
  OBVIOUS
<1>1. MAX_LENGTH \in Nat /\ length \in 0..MAX_LENGTH /\ num = length /\ heard = <<>>
  BY SysExOutAssumption DEF OutInit, SysExOutAssumption
<1>2. num \in 0..length /\ length - num = 0
  BY <1>1
<1>3. heard = Upto(length - num) /\ heard \in Seq(0..MAX_LENGTH)
  BY <1>1, <1>2 DEF Upto
<1>4. first = TRUE /\ over = FALSE
  BY DEF OutInit
<1> QED
  BY <1>1, <1>2, <1>3, <1>4 DEF StreamInv, OutTypeOK

\* midi_stream_sysex delivers a message of any length, byte for byte, to a host that
\* goes by the event codes, which sees it end with its last packet and not before.
THEOREM SysExArrivesAlways == OutSpec => []SysExArrives
<1>1. StreamInv => SysExArrives
  <2> SUFFICES ASSUME StreamInv PROVE SysExArrives
    OBVIOUS
  <2>1. length \in Nat
    BY SysExOutAssumption DEF StreamInv, OutTypeOK
  <2>2. num = 0 => heard = [i \in 1..length |-> i]
    BY <2>1 DEF StreamInv, Upto
  <2> QED
    BY <2>2 DEF StreamInv, SysExArrives
<1> QED
  BY <1>1, StreamStart, StreamStep, PTL DEF OutSpec


----------------------------------------------------------------------------
(* The four components side by side.                                       *)

LEMMA PulseStart == PulseInit \/ (count = 0 /\ clocked = FALSE) => PulseTypeOK
<1> SUFFICES ASSUME PulseInit \/ (count = 0 /\ clocked = FALSE) PROVE PulseTypeOK
  OBVIOUS
<1>1. count \in 0 .. (COUNT - 1)
  BY PulseAssumption DEF PulseInit
<1>2. clocked \in BOOLEAN
  BY DEF PulseInit
<1> QED
  BY <1>1, <1>2 DEF PulseTypeOK

LEMMA PulseTypeStep == PulseTypeOK /\ [PulseNext]_pulseVars => PulseTypeOK'
<1> SUFFICES ASSUME PulseTypeOK, [PulseNext]_pulseVars PROVE PulseTypeOK'
  OBVIOUS
<1>1. count' = count \/ count' = (count + 1) % COUNT
  BY DEF PulseNext, Beat, Clock, pulseVars
<1>2. count' \in 0 .. (COUNT - 1)
  BY <1>1, PulseAssumption DEF PulseTypeOK
<1>3. clocked' = clocked \/ clocked' = ~clocked
  BY DEF PulseNext, Beat, Clock, pulseVars
<1>4. clocked' \in BOOLEAN
  BY <1>3 DEF PulseTypeOK
<1> QED
  BY <1>2, <1>4 DEF PulseTypeOK

\* Each component in the states its own inductive invariant describes.
MidiStateInv ==
  /\ component \in {"sysex", "out", "feedback", "pulse"}
  /\ SysExTypeOK /\ SysExInv /\ StreamInv
  /\ FeedbackTypeOK /\ FollowsHost /\ OffInv /\ PulseTypeOK

\* A step is a step, or none, of each component.
LEMMA StepOfEach ==
  [MidiNext]_midiVars =>
    /\ UNCHANGED component
    /\ [SysExNext]_sysexVars /\ [OutNext]_outVars /\ [FeedbackNext]_feedbackVars
    /\ [PulseNext]_pulseVars
<1> SUFFICES ASSUME [MidiNext]_midiVars
             PROVE  /\ UNCHANGED component
                    /\ [SysExNext]_sysexVars /\ [OutNext]_outVars
                    /\ [FeedbackNext]_feedbackVars /\ [PulseNext]_pulseVars
  OBVIOUS
<1>1. CASE UNCHANGED midiVars
  BY <1>1 DEF midiVars
<1>2. CASE MidiNext
  BY <1>2 DEF MidiNext, Only
<1> QED
  BY <1>1, <1>2

LEMMA MidiStart == MidiInit => MidiStateInv
<1> SUFFICES ASSUME MidiInit PROVE MidiStateInv
  OBVIOUS
<1>1. PulseInit \/ (count = 0 /\ clocked = FALSE)
  BY DEF MidiInit
<1> QED
  BY <1>1, SysExStart, StreamStart, FeedbackStart, PulseStart DEF MidiInit, MidiStateInv

LEMMA MidiStep == MidiStateInv /\ [MidiNext]_midiVars => MidiStateInv'
<1> SUFFICES ASSUME MidiStateInv, [MidiNext]_midiVars PROVE MidiStateInv'
  OBVIOUS
<1>1. component' \in {"sysex", "out", "feedback", "pulse"}
  BY StepOfEach DEF MidiStateInv
<1>2. SysExTypeOK' /\ SysExInv'
  BY StepOfEach, SysExTypeStep, SysExStep DEF MidiStateInv
<1>3. StreamInv'
  BY StepOfEach, StreamStep DEF MidiStateInv
<1>4. FeedbackTypeOK' /\ FollowsHost' /\ OffInv'
  BY StepOfEach, FeedbackTypeStep, FollowsStep, OffStep DEF MidiStateInv
<1>5. PulseTypeOK'
  BY StepOfEach, PulseTypeStep DEF MidiStateInv
<1> QED
  BY <1>1, <1>2, <1>3, <1>4, <1>5 DEF MidiStateInv

\* Whichever component runs, for all messages, lengths, buffers, keys and clocks: its
\* state keeps its types, sysex_handle_3sc stands in the message where its pointer
\* says, and a note off that a refresh passed over is younger than the stamp's range.
THEOREM MidiInvAlways == MidiSpec => []MidiInv
<1>1. MidiStateInv => MidiInv
  <2> SUFFICES ASSUME MidiStateInv PROVE MidiInv
    OBVIOUS
  <2>1. /\ SysExTypeOK /\ SysExInv /\ OutTypeOK /\ FeedbackTypeOK /\ OffInv /\ PulseTypeOK
    BY DEF MidiStateInv, StreamInv
  <2> QED
    BY <2>1 DEF MidiInv, MidiStateInv
<1> QED
  BY <1>1, MidiStart, MidiStep, PTL DEF MidiSpec


----------------------------------------------------------------------------
(* The flashing lights.                                                    *)

\* A count goes up by one, or back to 0 after a whole number of turns.
TURN == 2^15
NextCount(m, c, d) == c + 1 = d \/ (d = 0 /\ c + 1 = TURN * m)

LEMMA BeatCounts ==
  ASSUME PulseTypeOK, Beat
  PROVE  \E m \in Nat : COUNT = TURN * m /\ count < COUNT /\ NextCount(m, count, count')
<1>1. COUNT \in Nat \ {0} /\ COUNT % TURN = 0 /\ TURN \in Nat \ {0}
  BY PulseAssumption DEF TURN
<1>2. PICK m \in Nat : COUNT = TURN * m
  <2>1. COUNT \div TURN \in Nat /\ COUNT = TURN * (COUNT \div TURN)
    BY <1>1
  <2> QED
    BY <2>1
<1>3. count \in Nat /\ count < COUNT /\ count' = (count + 1) % COUNT
  BY <1>1 DEF PulseTypeOK, Beat
<1>4. CASE count + 1 < COUNT
  BY <1>1, <1>2, <1>3, <1>4 DEF NextCount
<1>5. CASE count + 1 = COUNT
  <2>1. COUNT % COUNT = 0
    BY <1>1
  <2> QED
    BY <1>2, <1>3, <1>5, <2>1 DEF NextCount
<1> QED
  BY <1>1, <1>3, <1>4, <1>5

\* A flashing light and the step of a pulsing one, by count and velocity.
BitAt(c, v) == (c \div 2^(8 - (v - 33))) % 2 = 1
StepAt(x, v) == (x \div 2^(8 - (v - 41))) % 256
Shifted(c, f) == (c * f) % COUNT

\* The lights at two neighbouring rates.
LEMMA FlashTogether ==
  ASSUME NEW m \in Nat, NEW c \in Nat, NEW d \in Nat, NextCount(m, c, d),
         NEW v \in FlashVelocity \ {41}, BitAt(d, v) <=> ~BitAt(c, v)
  PROVE  BitAt(c, v + 1) /\ ~BitAt(d, v + 1)
<1> USE DEF NextCount, FlashVelocity, BitAt, TURN
<1>1. CASE v = 34
  BY <1>1, SMTT(30)
<1>2. CASE v = 35
  BY <1>2, SMTT(30)
<1>3. CASE v = 36
  BY <1>3, SMTT(30)
<1>4. CASE v = 37
  BY <1>4, SMTT(30)
<1>5. CASE v = 38
  BY <1>5, SMTT(30)
<1>6. CASE v = 39
  BY <1>6, SMTT(30)
<1>7. CASE v = 40
  BY <1>7, SMTT(30)
<1> QED
  BY <1>1, <1>2, <1>3, <1>4, <1>5, <1>6, <1>7, SMTT(30)

\* A pulse's step moves by at most 32, for the factor 16 or 32 of pulse_animation.
LEMMA PulseMoves ==
  ASSUME NEW m \in Nat, COUNT = TURN * m, NEW x \in Nat, NEW y \in Nat, NEW f \in {16, 32},
         NEW v \in PulseVelocity, x < COUNT, y = x + f \/ y = x + f - COUNT
  PROVE  (StepAt(y, v) - StepAt(x, v)) % 256 <= 32
<1> USE DEF PulseVelocity, StepAt, TURN
<1>1. CASE v = 42
  BY <1>1, SMTT(30)
<1>2. CASE v = 43
  BY <1>2, SMTT(30)
<1>3. CASE v = 44
  BY <1>3, SMTT(30)
<1>4. CASE v = 45
  BY <1>4, SMTT(30)
<1>5. CASE v = 46
  BY <1>5, SMTT(30)
<1>6. CASE v = 47
  BY <1>6, SMTT(30)
<1>7. CASE v = 48
  BY <1>7, SMTT(30)
<1>8. CASE v = 49
  BY <1>8, SMTT(30)
<1> QED
  BY <1>1, <1>2, <1>3, <1>4, <1>5, <1>6, <1>7, <1>8, SMTT(30)

LEMMA QuotientRemainder ==
  ASSUME NEW n \in Nat \ {0}, NEW z \in Nat
  PROVE  \E q \in Nat, r \in 0 .. (n - 1) : z % n = r /\ z = n * q + r
<1>1. z \div n \in Nat /\ z % n \in 0 .. (n - 1) /\ z = n * (z \div n) + (z % n)
  OBVIOUS
<1> QED
  BY <1>1

\* The counter shifted left by pulse_animation, in its width.
LEMMA ShiftedCount ==
  ASSUME NEW m \in Nat, COUNT = TURN * m, NEW f \in {16, 32},
         NEW c \in Nat, c < COUNT, NEW d \in Nat, NextCount(m, c, d)
  PROVE  /\ Shifted(c, f) \in Nat /\ Shifted(d, f) \in Nat /\ Shifted(c, f) < COUNT
         /\ \/ Shifted(d, f) = Shifted(c, f) + f
            \/ Shifted(d, f) = Shifted(c, f) + f - COUNT
<1>0. COUNT \in Nat \ {0} /\ c * f \in Nat /\ f < COUNT
  BY PulseAssumption DEF TURN
<1>1. PICK q \in Nat, x \in 0 .. (COUNT - 1) : (c * f) % COUNT = x /\ c * f = COUNT * q + x
  BY <1>0, QuotientRemainder, ZenonT(60)
<1>2. Shifted(c, f) = x
  BY <1>1 DEF Shifted
<1>3. COUNT * q \in Nat /\ COUNT * (q + 1) = COUNT * q + COUNT
  BY <1>0, <1>1
<1>4. c * f + f = (c + 1) * f
  OBVIOUS
<1>5. CASE c + 1 = d /\ x + f < COUNT
  <2>1. PICK r \in 0 .. (COUNT - 1) : r = x + f
    BY <1>0, <1>1, <1>5, SMTT(30)
  <2>2. d * f = COUNT * q + r
    <3>1. d * f = c * f + f
      BY <1>4, <1>5
    <3>2. PICK s \in Nat, z \in Nat : s = COUNT * q /\ z = c * f /\ z = s + x
      BY <1>0, <1>1, <1>3
    <3>3. z + f = s + r
      BY <2>1, <3>2
    <3> QED
      BY <3>1, <3>2, <3>3
  <2>3. (COUNT * q + r) % COUNT = r
    BY <1>0, <1>1, ModUnique
  <2>4. Shifted(d, f) = r
    BY <2>2, <2>3 DEF Shifted
  <2> QED
    BY <1>1, <1>2, <2>1, <2>4
<1>6. CASE c + 1 = d /\ x + f >= COUNT
  <2>1. PICK r \in 0 .. (COUNT - 1) : r = x + f - COUNT
    BY <1>0, <1>1, <1>6, SMTT(30)
  <2>a. PICK p \in Nat : p = q + 1
    OBVIOUS
  <2>2. d * f = COUNT * p + r
    <3>1. d * f = c * f + f
      BY <1>4, <1>6
    <3>2. PICK s \in Nat, z \in Nat : s = COUNT * q /\ z = c * f /\ z = s + x
      BY <1>0, <1>1, <1>3
    <3>3. COUNT * p = s + COUNT
      BY <1>3, <2>a, <3>2
    <3>4. z + f = s + COUNT + r
      BY <1>0, <2>1, <3>2
    <3> QED
      BY <3>1, <3>2, <3>3, <3>4
  <2>3. (COUNT * p + r) % COUNT = r
    BY <1>0, ModUnique
  <2>4. Shifted(d, f) = r
    BY <2>2, <2>3 DEF Shifted
  <2> QED
    BY <1>1, <1>2, <2>1, <2>4, SMTT(30)
<1>7. CASE d = 0 /\ c + 1 = COUNT
  <2>1. PICK r \in 0 .. (COUNT - 1) : r = COUNT - f
    BY <1>0, SMTT(30)
  <2>a. PICK p \in Nat : p = f - 1
    OBVIOUS
  <2>2. c * f = COUNT * p + r
    BY <1>0, <1>7, <2>1, <2>a
  <2>3. (COUNT * p + r) % COUNT = r
    BY <1>0, ModUnique
  <2>4. Shifted(c, f) = r
    BY <2>2, <2>3 DEF Shifted
  <2>5. Shifted(d, f) = 0
    BY <1>0, <1>7 DEF Shifted
  <2> QED
    BY <1>0, <1>1, <2>1, <2>4, <2>5, SMTT(30)
<1> QED
  BY <1>5, <1>6, <1>7, <1>0, <1>1, SMTT(30) DEF NextCount

LEMMA BeatKeepsTime ==
  ASSUME PulseTypeOK, Beat
  PROVE  /\ \A v \in FlashVelocity \ {41} :
              FlashOn(v)' # FlashOn(v) => FlashOn(v + 1) /\ ~FlashOn(v + 1)'
         /\ \A v \in PulseVelocity : (PulseStep(v)' - PulseStep(v)) % 256 <= 32
<1>1. PICK m \in Nat : COUNT = TURN * m /\ count < COUNT /\ NextCount(m, count, count')
  BY BeatCounts
<1>2. count \in Nat /\ count' \in Nat /\ COUNT \in Nat /\ clocked' = clocked
  BY <1>1, PulseAssumption, SMTT(30) DEF PulseTypeOK, Beat, NextCount
<1>3. \A v : FlashOn(v) = BitAt(count, v) /\ FlashOn(v)' = BitAt(count', v)
  BY DEF FlashOn, flash_animation, BitAt
<1>4. ASSUME NEW v \in FlashVelocity \ {41}, FlashOn(v)' # FlashOn(v)
      PROVE  FlashOn(v + 1) /\ ~FlashOn(v + 1)'
  <2>1. BitAt(count', v) <=> ~BitAt(count, v)
    BY <1>3, <1>4 DEF BitAt
  <2>2. BitAt(count, v + 1) /\ ~BitAt(count', v + 1)
    BY <1>1, <1>2, <2>1, FlashTogether
  <2> QED
    BY <1>3, <2>2
<1>5. ASSUME NEW v \in PulseVelocity
      PROVE  (PulseStep(v)' - PulseStep(v)) % 256 <= 32
  <2>1. PICK f \in {16, 32} : f = IF clocked THEN 32 ELSE 16
    OBVIOUS
  <2>2. PICK x \in Nat, y \in Nat : /\ x = Shifted(count, f) /\ y = Shifted(count', f)
                                    /\ x < COUNT /\ (y = x + f \/ y = x + f - COUNT)
    BY <1>1, <1>2, ShiftedCount, SMTT(30)
  <2>3. PulseStep(v) = StepAt(x, v)
    BY <2>1, <2>2, ZenonT(60) DEF PulseStep, rgb_step, StepAt, Shifted
  <2>4. PulseStep(v)' = StepAt(y, v)
    BY <1>2, <2>1, <2>2, SMTT(30) DEF PulseStep, rgb_step, StepAt, Shifted
  <2>5. (StepAt(y, v) - StepAt(x, v)) % 256 <= 32
    BY <1>1, <2>2, PulseMoves, SMTT(30)
  <2> QED
    BY <2>3, <2>4, <2>5
<1> QED
  BY <1>4, <1>5

\* For every counter that makes whole turns of the slowest pulse, at every count and
\* over its wrap: the lights of flash_animation change together, and no light of
\* pulse_animation jumps.
THEOREM LightsKeepTimeAlways == MidiSpec => LightsKeepTime
<1>1. MidiStateInv =>
        [Beat =>
           /\ \A v \in FlashVelocity \ {41} :
                FlashOn(v)' # FlashOn(v) => FlashOn(v + 1) /\ ~FlashOn(v + 1)'
           /\ \A v \in PulseVelocity : (PulseStep(v)' - PulseStep(v)) % 256 <= 32]_pulseVars
  BY BeatKeepsTime DEF MidiStateInv
<1> QED
  BY <1>1, MidiStart, MidiStep, PTL DEF MidiSpec, LightsKeepTime
=============================================================================

------------------------------- MODULE Colors ------------------------------
(***************************************************************************)
(* config.c and display.c: the colour map of the buttons, pushed by the    *)
(* host in numbered parts, mapped to a palette of 20 colours that keeps    *)
(* the lights within the power of a USB port, and pulled back.             *)
(*                                                                         *)
(* An array is flat: bank 1, then bank 2, three bytes a button.            *)
(***************************************************************************)
EXTENDS Integers, Sequences

CONSTANTS
  PARTS,        \* parts of a bank: 8
  PART_BYTES,   \* bytes of a part: 24
  Payload,      \* what a push may carry: seven-bit values, as many as the SysEx
                \* buffer holds, 56
  MAX_PUSHES    \* bound

Tag == 1..2     \* default_bank_inactive and default_bank_active
BANK_BYTES == PARTS * PART_BYTES
At == 0 .. (2 * BANK_BYTES - 1)

ASSUME ColorsAssumption ==
  /\ PARTS \in Nat \ {0} /\ PART_BYTES \in Nat \ {0} /\ PART_BYTES % 3 = 0
  /\ \A p \in Payload : p \in Seq(0..127) /\ Len(p) < BANK_BYTES
  /\ MAX_PUSHES \in Nat

VARIABLES
  default_bank,   \* the two arrays, by tag
  pushed,         \* ghost: tag, part and size of the last push
  pushes          \* pushes so far

colorsVars == <<default_bank, pushed, pushes>>

\* default_color, off to white.
default_color ==
  << <<0, 0, 0>>, <<48, 0, 0>>, <<24, 0, 0>>, <<40, 12, 0>>, <<20, 6, 0>>, <<32, 25, 0>>,
     <<16, 12, 0>>, <<25, 32, 0>>, <<12, 16, 0>>, <<0, 48, 0>>, <<0, 24, 0>>, <<0, 30, 30>>,
     <<0, 15, 15>>, <<0, 0, 48>>, <<0, 0, 24>>, <<25, 7, 32>>, <<13, 3, 17>>, <<36, 0, 18>>,
     <<18, 0, 9>>, <<24, 24, 24>> >>
Palette == {default_color[c] : c \in DOMAIN default_color}
OFF == 1
RED == 2
ORANGE == 4
YELLOW == 6
CHARTREUSE == 8
GREEN == 10
CYAN == 12
BLUE == 14
LAVENDER == 16
PINK == 18
WHITE == 20

LAVENDER_GREEN_LIMIT == 36
BRIGHT_LIMIT == 128

\* Mutant: a colour with a little green is white, not lavender.
Hue_lavender_off_by_one(r, g, b) ==
  CASE r = 0 /\ g = 0 /\ b = 0 -> <<OFF, 0>>
    [] r = 0 /\ g = 0 /\ b # 0 -> <<BLUE, 3>>
    [] r = 0 /\ g # 0 /\ b = 0 -> <<GREEN, 2>>
    [] r = 0 /\ g # 0 /\ b # 0 -> <<CYAN, 2>>
    [] r # 0 /\ g = 0 /\ b = 0 -> <<RED, 1>>
    [] r # 0 /\ g = 0 /\ b # 0 -> <<PINK, 1>>
    [] r # 0 /\ g # 0 /\ b = 0 -> IF r < g THEN <<CHARTREUSE, 2>>
                                  ELSE IF r \div 2 >= g THEN <<ORANGE, 1>> ELSE <<YELLOW, 1>>
    [] r # 0 /\ g # 0 /\ b # 0 -> IF g >= LAVENDER_GREEN_LIMIT THEN <<WHITE, 0>>
                                  ELSE <<LAVENDER, 3>>

\* The palette's hue for a colour, and the component by which a colour that is in
\* the palette already is recognised; 0: none is.
Hue(r, g, b) ==
  CASE r = 0 /\ g = 0 /\ b = 0 -> <<OFF, 0>>
    [] r = 0 /\ g = 0 /\ b # 0 -> <<BLUE, 3>>
    [] r = 0 /\ g # 0 /\ b = 0 -> <<GREEN, 2>>
    [] r = 0 /\ g # 0 /\ b # 0 -> <<CYAN, 2>>
    [] r # 0 /\ g = 0 /\ b = 0 -> <<RED, 1>>
    [] r # 0 /\ g = 0 /\ b # 0 -> <<PINK, 1>>
    [] r # 0 /\ g # 0 /\ b = 0 -> IF r < g THEN <<CHARTREUSE, 2>>
                                  ELSE IF r \div 2 >= g THEN <<ORANGE, 1>> ELSE <<YELLOW, 1>>
    [] r # 0 /\ g # 0 /\ b # 0 -> IF g > LAVENDER_GREEN_LIMIT THEN <<WHITE, 0>>
                                  ELSE <<LAVENDER, 3>>

\* Bright or dim, by the recognised component; by red for lavender.
Brightness(rgb, hue) ==
  LET component == IF hue[1] = LAVENDER THEN 1 ELSE hue[2]
  IN  IF hue[2] = 0 \/ rgb[component] > BRIGHT_LIMIT THEN 0 ELSE 1

\* One button of adjust_inactive_bank_leds_for_power, and of its twin for the
\* active colours.
Adjusted(rgb) ==
  LET hue == Hue(rgb[1], rgb[2], rgb[3])
  IN  IF hue[2] # 0 /\ rgb[hue[2]] = default_color[hue[1]][hue[2]] THEN rgb
      ELSE default_color[hue[1] + Brightness(rgb, hue)]

\* The first byte of a button at or before a byte.
ButtonAt(i) == i - (i % 3)
Rgb(a, i) == <<a[ButtonAt(i)], a[ButtonAt(i) + 1], a[ButtonAt(i) + 2]>>

\* Mutant: <= for < in the loop.
adjust_bank_leds_for_power_inclusive(a, first, size) ==
  [i \in At |-> IF first <= ButtonAt(i) /\ ButtonAt(i) <= first + size
                THEN Adjusted(Rgb(a, i))[(i % 3) + 1] ELSE a[i]]

\* adjust_..._for_power: every button that starts in the size bytes from first on.
adjust_bank_leds_for_power(a, first, size) ==
  [i \in At |-> IF first <= ButtonAt(i) /\ ButtonAt(i) < first + size
                THEN Adjusted(Rgb(a, i))[(i % 3) + 1] ELSE a[i]]

\* The bank and the offset of a part.
FirstByte(part) == ((part - 1) \div PARTS) * BANK_BYTES + ((part - 1) % PARTS) * PART_BYTES

\* load_default_colors.
ColorsInit ==
  /\ default_bank =
       [t \in Tag |-> [i \in At |->
          IF t = 1 THEN IF i < BANK_BYTES THEN 0 ELSE 24
          ELSE IF i < BANK_BYTES THEN IF i % 3 = 2 THEN 48 ELSE 0
          ELSE IF i % 3 = 1 THEN 48 ELSE 0]]
  /\ pushed = <<0, 0, 0>>
  /\ pushes = 0

\* The array after size bytes of data, doubled, are stored from first on.
StoredPart(a, first, size, data) ==
  adjust_bank_leds_for_power(
    [i \in At |-> IF first <= i /\ i < first + size
                  THEN (2 * data[i - first + 1]) % 256 ELSE a[i]],
    first, size)

\* Where an array starts, counted from the start of the one that is pushed, when
\* it is the next in memory.
Start(t, tag) == IF t = tag THEN 0 ELSE 2 * BANK_BYTES

\* The push of sysExCmdBulkXfer. It returns early on an unknown tag, part 0, a part
\* past the last and too little data; the end of the message, 0xf7, counts as data.
\* A size of more than a part is taken: it goes on into the next parts and, past the
\* last, into what the linker put behind the array.  That is the other array, or not:
\* what else it may be is left out.
BulkPush(tag, part, size, payload, follows) ==
  LET data == Append(payload, 247)
  IN  /\ pushes < MAX_PUSHES
      /\ tag \in Tag /\ part \in 1 .. (2 * PARTS)
      /\ size <= Len(data)
      /\ follows => FirstByte(part) + size > 2 * BANK_BYTES
      /\ default_bank' =
           [t \in Tag |->
              IF t = tag \/ follows
              THEN StoredPart(default_bank[t], FirstByte(part) - Start(t, tag), size, data)
              ELSE default_bank[t]]
      /\ pushed' = <<tag, part, size>>
      /\ pushes' = pushes + 1

\* The pull of sysExCmdBulkXfer: a byte scaled from 48 to 127 steps.
Pulled(c) == ((c * 127) \div 48) % 256
PulledPart(a, part) == [j \in 1..PART_BYTES |-> Pulled(a[FirstByte(part) + j - 1])]

ColorsNext ==
  \E tag \in Tag, part \in 0 .. (2 * PARTS + 1), payload \in Payload, follows \in BOOLEAN :
    \E size \in 0 .. (Len(payload) + 2) : BulkPush(tag, part, size, payload, follows)

ColorsSpec == ColorsInit /\ [][ColorsNext]_colorsVars

----------------------------------------------------------------------------
\* The parts that size bytes fill, the last one perhaps not to its end: with the
\* documented size, "24 or lower", the one part they are sent for.
Filled(part, size) == part .. (part + ((size - 1) \div PART_BYTES))

\* A push changes only buttons of the parts its size fills, counted on past the end
\* of the array: although the adjustment works on whole buttons, the size may end
\* inside one, and adjusting a colour twice may change it, it never touches the part
\* after them, where the palette's white would turn to lavender.
OnlyItsPart ==
  [][pushes' # pushes =>
       \A t \in Tag, i \in At :
         default_bank'[t][i] # default_bank[t][i] =>
           ((i + Start(t, pushed'[1])) \div PART_BYTES) + 1
              \in Filled(pushed'[2], pushed'[3])]_colorsVars

\* A host that pulls the colours and pushes them back changes none that is in the
\* palette: 48 steps to 127 and doubled to 254 fall on the same hue and brightness.
PullPushIsSame ==
  \A t \in Tag, part \in 1 .. (2 * PARTS) :
    LET a == default_bank[t]
        b == StoredPart(a, FirstByte(part), PART_BYTES, PulledPart(a, part))
    IN  \A i \in At : Rgb(a, i) \in Palette => b[i] = a[i] /\ Pulled(a[i]) < 128

\* "allow 20 colors that are scaled for power": every colour is in the palette.
PaletteOnly == \A t \in Tag, i \in At : Rgb(default_bank[t], i) \in Palette
=============================================================================

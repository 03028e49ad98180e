---------------------------- MODULE ConfigProofs ----------------------------
(***************************************************************************)
(* The layout of the EEPROM, the saves and what the host is told, for      *)
(* every size of a bank up to the firmware's; the parts of a colour map    *)
(* for every size.                                                         *)
(***************************************************************************)
EXTENDS MCConfig, SequenceTheorems, WellFoundedInduction, NaturalsInduction, TLAPS

\* A step that names no prover is given to Zenon, then to the SMT solver.
USE ZenonT(20), SMTT(30)

SETTINGS == 18

\* Multiplication by a positive number is monotonic.
LEMMA Monotonic ==
  ASSUME NEW n \in Nat \ {0}, NEW a \in Int, NEW b \in Int, a < b
  PROVE  n * a + n <= n * b
<1>1. \A d \in Nat : d >= 1 => n * d >= n
  OBVIOUS
<1>2. b - a \in Nat /\ b - a >= 1
  OBVIOUS
<1>3. n * (b - a) >= n
  BY <1>1, <1>2
<1>4. n * (b - a) = n * b - n * a /\ n * b \in Int /\ n * a \in Int
  OBVIOUS
<1> QED
  BY <1>3, <1>4

\* Quotient and remainder are unique.
LEMMA Division ==
  ASSUME NEW n \in Nat \ {0}, NEW x \in Nat, NEW q \in Nat, NEW r \in 0 .. (n - 1),
         x = n * q + r
  PROVE  x \div n = q /\ x % n = r
<1> DEFINE d == x \div n
           m == x % n
<1>1. d \in Int /\ m \in 0 .. (n - 1) /\ x = n * d + m
  OBVIOUS
<1>0. n * q \in Nat
  OBVIOUS
<1> HIDE DEF d, m
<1>2. ~(d < q)
  BY <1>0, <1>1, Monotonic, SMTT(30)
<1>3. ~(q < d)
  BY <1>0, <1>1, Monotonic, SMTT(30)
<1>4. d = q
  BY <1>1, <1>2, <1>3, SMTT(30)
<1>5. m = r
  BY <1>0, <1>1, <1>4, SMTT(30)
<1> QED
  BY <1>4, <1>5 DEF d, m

----------------------------------------------------------------------------
(* The writes.                                                             *)

LEMMA Sizes ==
  /\ COLORS \in Nat /\ COLORS >= 1 /\ COLORS <= 192
  /\ Len(SettingOrder) = SETTINGS
  /\ DOMAIN ColorOrder = 1 .. (4 * COLORS) /\ Len(ColorOrder) = 4 * COLORS
  /\ LAST = SETTINGS + 4 * COLORS
<1>1. COLORS \in Nat /\ COLORS >= 1 /\ COLORS <= 192
  BY SettingsAssumption, SMTT(30)
<1>2. Len(SettingOrder) = SETTINGS
  BY DEF SettingOrder, SETTINGS
<1>3. DOMAIN ColorOrder = 1 .. (4 * COLORS)
  BY <1>1, SMTT(30) DEF ColorOrder, NUM_BANKS
<1>4. Len(ColorOrder) = 4 * COLORS
  <2> DEFINE S == {ColorOrder[k] : k \in 1 .. (4 * COLORS)}
  <2>1. ColorOrder = [k \in DOMAIN ColorOrder |-> ColorOrder[k]]
    BY DEF ColorOrder
  <2>2. ColorOrder \in [1 .. (4 * COLORS) -> S]
    BY <1>3, <2>1
  <2>3. 4 * COLORS \in Nat
    BY <1>1
  <2> HIDE DEF S
  <2>4. ColorOrder \in Seq(S)
    BY <2>2, <2>3, SeqDef
  <2>5. Len(ColorOrder) \in Nat /\ DOMAIN ColorOrder = 1 .. Len(ColorOrder)
    BY <2>4, LenProperties
  <2> QED
    BY <1>3, <2>3, <2>5, SMTT(30)
<1> QED
  BY <1>1, <1>2, <1>3, <1>4 DEF LAST

\* The colours are written array by array: bank 1 idle and active, then bank 2.
Kind(q) == IF q \in {0, 2} THEN "idle" ELSE "active"
BankOf(q) == IF q \in {0, 1} THEN 0 ELSE 1
Base(q) == CASE q = 0 -> 111 [] q = 1 -> 495 [] q = 2 -> 111 + COLORS [] q = 3 -> 495 + COLORS

LEMMA ColorPlace ==
  ASSUME NEW q \in 0..3, NEW i \in 0 .. (COLORS - 1)
  PROVE  /\ COLORS * q + i + 1 \in 1 .. (4 * COLORS)
         /\ ColorOrder[COLORS * q + i + 1] = <<Kind(q), BankOf(q), i>>
         /\ ColorAddress(<<Kind(q), BankOf(q), i>>) = Base(q) + i
<1>0. COLORS \in Nat \ {0} /\ 2 * COLORS \in Nat \ {0}
  BY Sizes, SMTT(30)
<1> DEFINE x == COLORS * q + i
<1>1. x \in Nat /\ x + 1 \in 1 .. (4 * COLORS) /\ x + 1 - 1 = x
  <2>1. CASE q = 0
    BY <1>0, <2>1
  <2>2. CASE q = 1
    BY <1>0, <2>2
  <2>3. CASE q = 2
    BY <1>0, <2>3
  <2>4. CASE q = 3
    BY <1>0, <2>4
  <2> QED
    BY <2>1, <2>2, <2>3, <2>4
<1>2. x \div COLORS = q /\ x % COLORS = i
  BY <1>0, <1>1, Division, SMTT(30)
<1>3. x \div (2 * COLORS) = BankOf(q)
  <2>1. CASE q = 0
    <3>1. x = (2 * COLORS) * 0 + i /\ i \in 0 .. (2 * COLORS - 1)
      BY <1>0, <2>1
    <3> QED
      BY <1>0, <1>1, <2>1, <3>1, Division, SMTT(30) DEF BankOf
  <2>2. CASE q = 1
    <3>1. x = (2 * COLORS) * 0 + (COLORS + i) /\ COLORS + i \in 0 .. (2 * COLORS - 1)
      BY <1>0, <2>2
    <3> QED
      BY <1>0, <1>1, <2>2, <3>1, Division, SMTT(30) DEF BankOf
  <2>3. CASE q = 2
    <3>1. x = (2 * COLORS) * 1 + i /\ i \in 0 .. (2 * COLORS - 1)
      BY <1>0, <2>3
    <3> QED
      BY <1>0, <1>1, <2>3, <3>1, Division, SMTT(30) DEF BankOf
  <2>4. CASE q = 3
    <3>1. x = (2 * COLORS) * 1 + (COLORS + i) /\ COLORS + i \in 0 .. (2 * COLORS - 1)
      BY <1>0, <2>4
    <3> QED
      BY <1>0, <1>1, <2>4, <3>1, Division, SMTT(30) DEF BankOf
  <2> QED
    BY <2>1, <2>2, <2>3, <2>4
<1> HIDE DEF x
<1>4. ColorOrder[x + 1] = <<Kind(q), BankOf(q), i>>
  <2>1. (IF q % 2 = 0 THEN "idle" ELSE "active") = Kind(q)
    BY DEF Kind
  <2>2. ColorOrder[x + 1] = <<IF (x \div COLORS) % 2 = 0 THEN "idle" ELSE "active",
                              x \div (2 * COLORS), x % COLORS>>
    BY <1>0, <1>1 DEF ColorOrder, NUM_BANKS
  <2> QED
    BY <1>2, <1>3, <2>1, <2>2
<1>5. ColorAddress(<<Kind(q), BankOf(q), i>>) = Base(q) + i
  BY <1>0, SMTT(30) DEF ColorAddress, Kind, BankOf, Base, EE_COLORS_IDLE, EE_COLORS_ACTIVE
<1> QED
  BY <1>1, <1>4, <1>5 DEF x

\* Every colour is written, and every write after the settings is one of a colour.
LEMMA EveryColor ==
  ASSUME NEW c \in Color
  PROVE  \E q \in 0..3, i \in 0 .. (COLORS - 1) : c = <<Kind(q), BankOf(q), i>>
<1>1. PICK kind \in {"idle", "active"}, bank \in 0..1, i \in 0 .. (COLORS - 1) :
        c = <<kind, bank, i>>
  BY DEF Color, Bank, NUM_BANKS
<1>2. \E q \in 0..3 : kind = Kind(q) /\ bank = BankOf(q)
  <2>1. CASE kind = "idle" /\ bank = 0
    BY <2>1, 0 \in 0..3 DEF Kind, BankOf
  <2>2. CASE kind = "active" /\ bank = 0
    BY <2>2, 1 \in 0..3, SMTT(30) DEF Kind, BankOf
  <2>3. CASE kind = "idle" /\ bank = 1
    BY <2>3, 2 \in 0..3 DEF Kind, BankOf
  <2>4. CASE kind = "active" /\ bank = 1
    BY <2>4, 3 \in 0..3 DEF Kind, BankOf
  <2> QED
    BY <2>1, <2>2, <2>3, <2>4
<1> QED
  BY <1>1, <1>2

LEMMA EveryWrite ==
  ASSUME NEW m \in Write, ~IsSetting(m)
  PROVE  \E q \in 0..3, i \in 0 .. (COLORS - 1) : m = SETTINGS + (COLORS * q + i + 1)
<1>0. COLORS \in Nat \ {0} /\ m \in Nat /\ m > SETTINGS /\ m <= SETTINGS + 4 * COLORS
  BY Sizes, SMTT(30) DEF Write, IsSetting, SETTINGS
<1> DEFINE x == m - SETTINGS - 1
           q == x \div COLORS
           i == x % COLORS
<1>1. x \in Nat /\ x < COLORS * 4 /\ m = SETTINGS + (x + 1)
  BY <1>0 DEF SETTINGS
<1> HIDE DEF x
<1>2. q \in Int /\ i \in 0 .. (COLORS - 1) /\ x = COLORS * q + i
  BY <1>0, <1>1
<1> HIDE DEF q, i
<1>3. ~(3 < q)
  <2> SUFFICES ASSUME 3 < q PROVE FALSE
    OBVIOUS
  <2>1. COLORS * 3 + COLORS <= COLORS * q
    BY <1>0, <1>2, Monotonic
  <2>2. COLORS * q \in Int
    BY <1>0, <1>2
  <2> QED
    BY <1>0, <1>1, <1>2, <2>1, <2>2
<1>4. ~(q < 0)
  <2> SUFFICES ASSUME q < 0 PROVE FALSE
    OBVIOUS
  <2>1. COLORS * q + COLORS <= COLORS * 0
    BY <1>0, <1>2, Monotonic, SMTT(30)
  <2>2. COLORS * q \in Int
    BY <1>0, <1>2, SMTT(30)
  <2> QED
    BY <1>0, <1>1, <1>2, <2>1, <2>2, SMTT(30)
<1>5. q \in 0..3
  BY <1>2, <1>3, <1>4, SMTT(30)
<1>6. m = SETTINGS + (COLORS * q + i + 1)
  BY <1>1, <1>2
<1> QED
  BY <1>2, <1>5, <1>6

\* The cell of a setting, and of a colour.
LEMMA SettingCells ==
  ASSUME NEW m \in 1..SETTINGS
  PROVE  /\ m \in Write /\ IsSetting(m)
         /\ Cell(m) = <<2, 3, 10, 9, 5, 12, 13, 14, 15, 16, 17, 18, 19, 20, 21, 22, 23, 24>>[m]
<1>1. m \in Write /\ IsSetting(m)
  BY Sizes, SMTT(30) DEF Write, IsSetting, SETTINGS
<1>2. Cell(m) = EE[SettingOrder[m]]
  BY <1>1 DEF Cell
<1> QED
  BY <1>1, <1>2, SMTT(30) DEF SETTINGS, EE, SettingOrder

LEMMA ColorCells ==
  ASSUME NEW q \in 0..3, NEW i \in 0 .. (COLORS - 1)
  PROVE  LET m == SETTINGS + (COLORS * q + i + 1)
             c == <<Kind(q), BankOf(q), i>>
         IN  /\ m \in Write /\ ~IsSetting(m)
             /\ Cell(m) = Base(q) + i /\ ColorAddress(c) = Base(q) + i
             /\ \A g, k : Value(m, g, k) = k[c]
<1> DEFINE k == COLORS * q + i + 1
           m == SETTINGS + k
           c == <<Kind(q), BankOf(q), i>>
<1>1. k \in 1 .. (4 * COLORS) /\ ColorOrder[k] = c /\ ColorAddress(c) = Base(q) + i
  BY ColorPlace
<1> HIDE DEF k, c
<1>2. m \in Write /\ ~IsSetting(m) /\ m - Len(SettingOrder) = k
  BY <1>1, Sizes DEF Write, IsSetting, SETTINGS
<1>3. Cell(m) = ColorAddress(c) /\ \A g, n : Value(m, g, n) = n[c]
  BY <1>1, <1>2 DEF Cell, Value
<1> QED
  BY <1>1, <1>2, <1>3 DEF k, c

\* No two writes share a cell, none hits the version, and all are in the EEPROM.
LEMMA CellsApart ==
  /\ \A m, n \in Write : Cell(m) = Cell(n) => m = n
  /\ \A m \in Write : Cell(m) \in Address /\ Cell(m) # EE_EEPROM_VERSION
<1>0. COLORS \in Nat \ {0} /\ COLORS <= 192
  BY Sizes
<1> DEFINE place(m, q, i) == q \in 0..3 /\ i \in 0 .. (COLORS - 1)
                             /\ m = SETTINGS + (COLORS * q + i + 1)
<1>1. ASSUME NEW m \in Write PROVE m \in 1..SETTINGS \/ \E q, i : place(m, q, i)
  <2>1. CASE IsSetting(m)
    BY <2>1, Sizes, SMTT(30) DEF Write, IsSetting, SETTINGS
  <2>2. CASE ~IsSetting(m)
    BY <2>2, EveryWrite, SMTT(30)
  <2> QED
    BY <2>1, <2>2
<1>2. ASSUME NEW m \in 1..SETTINGS PROVE Cell(m) \in 2..24
  BY SettingCells, SMTT(30) DEF SETTINGS
<1>3. ASSUME NEW m, NEW q, NEW i, place(m, q, i) PROVE Cell(m) = Base(q) + i /\ Cell(m) > 24
  <2>1. Cell(m) = Base(q) + i
    BY <1>3, ColorCells
  <2>2. Base(q) \in Nat /\ Base(q) > 24
    BY <1>0, <1>3, SMTT(30) DEF Base
  <2> QED
    BY <1>0, <1>3, <2>1, <2>2
<1>4. ASSUME NEW m \in Write, NEW n \in Write, Cell(m) = Cell(n) PROVE m = n
  <2>1. CASE m \in 1..SETTINGS /\ n \in 1..SETTINGS
    BY <1>4, <2>1, SettingCells, SMTT(30) DEF SETTINGS
  <2>2. CASE m \in 1..SETTINGS /\ \E q, i : place(n, q, i)
    BY <1>2, <1>3, <1>4, <2>2, SMTT(30)
  <2>3. CASE n \in 1..SETTINGS /\ \E q, i : place(m, q, i)
    BY <1>2, <1>3, <1>4, <2>3, SMTT(30)
  <2>4. ASSUME NEW q, NEW i, NEW p, NEW j, place(m, q, i), place(n, p, j) PROVE m = n
    <3>1. Base(q) + i = Base(p) + j
      BY <1>3, <1>4, <2>4, SMTT(30)
    <3>2. q = p /\ i = j
      BY <1>0, <2>4, <3>1 DEF Base
    <3> QED
      BY <2>4, <3>2
  <2> QED
    BY <1>1, <2>1, <2>2, <2>3, <2>4
<1>5. ASSUME NEW m \in Write PROVE Cell(m) \in Address /\ Cell(m) # EE_EEPROM_VERSION
  <2>1. CASE m \in 1..SETTINGS
    <3>1. SettingOrder[m] \in Setting
      BY <2>1 DEF SettingOrder, Setting, EE, SETTINGS
    <3>2. Cell(m) = EE[SettingOrder[m]]
      BY <2>1, SettingCells DEF Cell
    <3> QED
      BY <1>2, <2>1, <3>1, <3>2 DEF Address, EE_EEPROM_VERSION
  <2>2. ASSUME NEW q, NEW i, place(m, q, i) PROVE Cell(m) \in Address
    <3>1. <<Kind(q), BankOf(q), i>> \in Color
      BY <2>2 DEF Color, Bank, NUM_BANKS, Kind, BankOf
    <3>2. Cell(m) = ColorAddress(<<Kind(q), BankOf(q), i>>)
      BY <2>2, ColorCells
    <3> QED
      BY <3>1, <3>2 DEF Address
  <2> QED
    BY <1>1, <1>2, <1>3, <2>1, <2>2, SMTT(30) DEF EE_EEPROM_VERSION
<1> QED
  BY <1>4, <1>5

\* What the writes of a save leave, all together.
LEMMA AllWritten ==
  ASSUME \A m \in Write : ee[Cell(m)] = Value(m, G_EE, colors)
  PROVE  /\ \A s \in Setting : ee[EE[s]] = G_EE[s]
         /\ \A c \in Color : ee[ColorAddress(c)] = colors[c]
<1>1. ASSUME NEW s \in Setting PROVE ee[EE[s]] = G_EE[s]
  <2>1. PICK m \in 1..SETTINGS : SettingOrder[m] = s
    BY DEF Setting, EE, SettingOrder, SETTINGS
  <2>2. m \in Write /\ Cell(m) = EE[s] /\ Value(m, G_EE, colors) = G_EE[s]
    BY <2>1, SettingCells DEF Cell, Value
  <2> QED
    BY <2>2
<1>2. ASSUME NEW c \in Color PROVE ee[ColorAddress(c)] = colors[c]
  <2>1. PICK q \in 0..3, i \in 0 .. (COLORS - 1) : c = <<Kind(q), BankOf(q), i>>
    BY EveryColor
  <2> DEFINE m == SETTINGS + (COLORS * q + i + 1)
  <2>2. m \in Write /\ Cell(m) = ColorAddress(c) /\ Value(m, G_EE, colors) = colors[c]
    BY <2>1, ColorCells, SMTT(30)
  <2> HIDE DEF m
  <2> QED
    BY <2>2
<1> QED
  BY <1>1, <1>2

----------------------------------------------------------------------------
(* The saves.                                                              *)

\* RAM does not change during a save, so that the save writes its goal.
SaveInv ==
  /\ DOMAIN ee = Address /\ next \in Nat \ {0}
  /\ Persisted /\ OnlyColorsUnsaved
  /\ pc = "save" => \A m \in Write : goal[m] = Value(m, G_EE, colors)

\* A step that writes nothing keeps what was written.
LEMMA PersistedKept ==
  Persisted /\ UNCHANGED <<ee, next, goal, before>> => Persisted'
BY DEF Persisted

LEMMA SaveStarts ==
  ASSUME NEW g, NEW c, BeginSave(g, c), DOMAIN ee' = Address
  PROVE  SaveInv'
<1>1. pc' = "save" /\ next' = 1 /\ G_EE' = g /\ colors' = c /\ before' = ee'
      /\ goal' = [m \in Write |-> Value(m, g, c)]
  BY DEF BeginSave
<1>2. Persisted'
  BY <1>1 DEF Persisted, Write
<1>3. \A m \in Write : goal'[m] = Value(m, G_EE', colors')
  BY <1>1
<1>4. OnlyColorsUnsaved'
  BY <1>1 DEF OnlyColorsUnsaved
<1> QED
  BY <1>1, <1>2, <1>3, <1>4 DEF SaveInv

LEMMA SaveStep == SaveInv /\ [SettingsNext]_settingsVars => SaveInv'
<1> SUFFICES ASSUME SaveInv, [SettingsNext]_settingsVars PROVE SaveInv'
  OBVIOUS
<1>0. DOMAIN ee = Address /\ next \in Nat \ {0} /\ Persisted /\ OnlyColorsUnsaved
  BY DEF SaveInv
<1>a. ASSUME Load, UNCHANGED ee PROVE OnlyColorsUnsaved'
  BY <1>a DEF Load, OnlyColorsUnsaved
<1>1. CASE eeprom_setup
  <2>1. UNCHANGED <<ee, next, goal, before>>
    BY <1>1 DEF eeprom_setup, history
  <2>2. pc' = "reset" \/ (pc' = "run" /\ Load)
    BY <1>1 DEF eeprom_setup
  <2>3. OnlyColorsUnsaved'
    BY <1>a, <2>1, <2>2 DEF OnlyColorsUnsaved
  <2> QED
    BY <1>0, <2>1, <2>2, <2>3, PersistedKept DEF SaveInv
<1>2. CASE eeprom_factory_reset
  BY <1>0, <1>2, SaveStarts DEF eeprom_factory_reset
<1>3. CASE eeprom_save_edits
  <2>1. pc = "save" /\ next <= LAST /\ next' = next + 1
        /\ UNCHANGED <<G_EE, colors, pc, before, goal>>
    BY <1>3 DEF eeprom_save_edits
  <2>2. ee' = [ee EXCEPT ![Cell(next)] = Value(next, G_EE, colors)]
    BY <1>3 DEF eeprom_save_edits
  <2>3. \A m \in Write : goal[m] = Value(m, G_EE, colors)
    BY <2>1 DEF SaveInv
  <2>4. ASSUME NEW m \in Write
        PROVE  ee'[Cell(m)] = IF m < next' THEN goal'[m] ELSE before'[Cell(m)]
    <3>0. m \in Nat /\ LAST \in Nat
      BY Sizes, SMTT(30) DEF Write, SETTINGS
    <3>1. CASE m = next
      <4>1. ee'[Cell(m)] = Value(m, G_EE, colors)
        BY <1>0, <2>2, <3>1, CellsApart
      <4> QED
        BY <1>0, <2>1, <2>3, <3>1, <4>1
    <3>2. CASE m # next
      <4>1. ee'[Cell(m)] = ee[Cell(m)]
        <5>1. next \in Write
          BY <1>0, <2>1, <3>0 DEF Write
        <5>2. Cell(m) # Cell(next) /\ Cell(m) \in Address
          BY <3>2, <5>1, CellsApart
        <5> QED
          BY <1>0, <2>2, <5>2
      <4>2. ee[Cell(m)] = IF m < next THEN goal[m] ELSE before[Cell(m)]
        BY <1>0 DEF Persisted
      <4>3. m < next' <=> m < next
        BY <1>0, <2>1, <3>0, <3>2, SMTT(30)
      <4> QED
        BY <2>1, <4>1, <4>2, <4>3
    <3> QED
      BY <3>1, <3>2
  <2>5. DOMAIN ee' = Address
    BY <1>0, <2>2
  <2>6. OnlyColorsUnsaved'
    BY <2>1 DEF OnlyColorsUnsaved
  <2>7. Persisted'
    BY <2>4 DEF Persisted
  <2>8. \A m \in Write : goal'[m] = Value(m, G_EE', colors')
    BY <2>1, <2>3
  <2> QED
    BY <1>0, <2>1, <2>5, <2>6, <2>7, <2>8, SMTT(30) DEF SaveInv
<1>4. CASE SaveDone
  <2>1. pc = "save" /\ next > LAST /\ pc' = "run" /\ UNCHANGED <<ee, next, goal, before>>
    BY <1>4 DEF SaveDone, history
  <2>2. CASE Load
    BY <1>0, <1>a, <2>1, <2>2, PersistedKept DEF SaveInv
  <2>3. CASE UNCHANGED <<G_EE, colors>>
    <3>1. ASSUME NEW m \in Write PROVE ee[Cell(m)] = Value(m, G_EE, colors)
      <4>1. m < next
        BY <1>0, <2>1, Sizes, SMTT(30) DEF Write, SETTINGS
      <4>2. goal[m] = Value(m, G_EE, colors)
        BY <2>1 DEF SaveInv
      <4> QED
        BY <1>0, <4>1, <4>2 DEF Persisted
    <3>2. (\A s \in Setting : ee[EE[s]] = G_EE[s])
          /\ \A c \in Color : ee[ColorAddress(c)] = colors[c]
      <4>1. \A m \in Write : ee[Cell(m)] = Value(m, G_EE, colors)
        BY <3>1
      <4> QED
        BY <4>1, AllWritten
    <3>3. OnlyColorsUnsaved'
      BY <2>1, <2>3, <3>2 DEF OnlyColorsUnsaved
    <3> QED
      BY <1>0, <2>1, <3>3, PersistedKept DEF SaveInv
  <2> QED
    BY <1>4, <2>2, <2>3 DEF SaveDone
<1>5. ASSUME NEW buffer \in Buffers, sysExCmdPushConfig(buffer) PROVE SaveInv'
  <2>1. UNCHANGED ee /\ BeginSave(Pushed(G_EE, tv_table_decode(buffer)), colors)
    BY <1>5 DEF sysExCmdPushConfig
  <2> QED
    BY <1>0, <2>1, SaveStarts
<1>6. CASE sysExCmdPullConfig \/ UNCHANGED settingsVars
  <2>1. UNCHANGED <<ee, G_EE, colors, pc, next, goal, before, unsaved>>
    BY <1>6 DEF sysExCmdPullConfig, history, settingsVars
  <2>2. OnlyColorsUnsaved'
    BY <1>0, <2>1 DEF OnlyColorsUnsaved
  <2> QED
    BY <1>0, <2>1, <2>2, PersistedKept DEF SaveInv
<1>7. CASE sysExCmdSystem \/ PowerLoss
  <2>1. pc' \in {"reset", "off"} /\ UNCHANGED <<ee, next, goal, before>>
    BY <1>7 DEF sysExCmdSystem, PowerLoss, history
  <2>2. OnlyColorsUnsaved'
    BY <2>1 DEF OnlyColorsUnsaved
  <2> QED
    BY <1>0, <2>1, <2>2, PersistedKept DEF SaveInv
<1>8. ASSUME NEW kind, NEW bank, NEW offset, NEW value,
             sysExCmdBulkXfer(kind, bank, offset, value)
      PROVE  SaveInv'
  <2> DEFINE part == {kind} \X {bank} \X (offset .. (offset + PART - 1))
  <2>1. pc = "run" /\ UNCHANGED <<ee, G_EE, pc, next, goal, before>>
    BY <1>8 DEF sysExCmdBulkXfer, Command, history
  <2>2. colors' = [c \in Color |-> IF c \in part THEN value ELSE colors[c]]
        /\ unsaved' = unsaved \cup part
    BY <1>8 DEF sysExCmdBulkXfer
  <2> HIDE DEF part
  <2>3. OnlyColorsUnsaved'
    BY <1>0, <2>1, <2>2 DEF OnlyColorsUnsaved
  <2> QED
    BY <1>0, <2>1, <2>3, PersistedKept DEF SaveInv
<1> QED
  BY <1>1, <1>2, <1>3, <1>4, <1>5, <1>6, <1>7, <1>8 DEF SettingsNext

LEMMA SaveStart == SettingsInit => SaveInv
<1> SUFFICES ASSUME SettingsInit PROVE SaveInv
  OBVIOUS
<1>1. DOMAIN ee = Address /\ next = 1 /\ before = ee /\ pc = "off"
  BY DEF SettingsInit
<1>2. Persisted
  BY <1>1 DEF Persisted, Write
<1> QED
  BY <1>1, <1>2 DEF SaveInv, OnlyColorsUnsaved

\* For every bank of up to 192 bytes, every configuration pushed and every moment of
\* a power loss: a save leaves what it has written so far, and nothing else changed.
THEOREM PersistedAlways == SettingsSpec => []Persisted
<1>1. SaveInv => Persisted
  BY DEF SaveInv
<1> QED
  BY <1>1, SaveStart, SaveStep, PTL DEF SettingsSpec

\* For every bank of up to 192 bytes and all commands: in the main loop, EEPROM and
\* RAM differ only in colours that were pushed and not saved.
THEOREM OnlyColorsUnsavedAlways == SettingsSpec => []OnlyColorsUnsaved
<1>1. SaveInv => OnlyColorsUnsaved
  BY DEF SaveInv
<1> QED
  BY <1>1, SaveStart, SaveStep, PTL DEF SettingsSpec

----------------------------------------------------------------------------
(* The host's copy.                                                        *)

\* Since power on the host has been told nothing before the main loop runs.
ToldInv ==
  /\ ToldIsCurrent
  /\ pc = "off" => told = <<>>
  /\ pc \in {"reset", "save"} /\ caller = "boot" => told = <<>>

\* The configuration sent depends on the settings alone.
LEMMA ConfigDataOfSame ==
  ASSUME NEW g, NEW h, \A s \in Setting : g[s] = h[s] PROVE ConfigData(g) = ConfigData(h)
<1> DEFINE Same(s) == g[s] = h[s]
<1>1. /\ Same("MIDI_CHANNEL") /\ Same("MIDI_VELOCITY") /\ Same("FOUR_BANKS_MODE")
      /\ Same("MIDI_OUTPUT_MODE") /\ Same("COMBOS_ENABLE") /\ Same("ANIMATIONS")
      /\ Same("TILT_MASK") /\ Same("TILT_MODE") /\ Same("TILT_SENSITIVITY")
      /\ Same("PITCH_SENSITIVITY") /\ Same("TILT_RANGE") /\ Same("PITCH_RANGE")
      /\ Same("TILT_DEADZONE") /\ Same("PITCH_DEADZONE") /\ Same("TILT_AXIS")
      /\ Same("PICK_SENSITIVITY") /\ Same("SLEEP_TIME") /\ Same("SIDE_BANK")
  BY DEF Setting, EE
<1> QED
  BY <1>1, SMTT(30) DEF ConfigData

LEMMA ToldStep == SaveInv /\ ToldInv /\ [SettingsNext]_settingsVars => ToldInv'
<1> SUFFICES ASSUME SaveInv, ToldInv, [SettingsNext]_settingsVars PROVE ToldInv'
  OBVIOUS
<1> USE DEF ToldInv, ToldIsCurrent
<1>1. CASE eeprom_setup
  <2>1. pc = "off" /\ UNCHANGED told
    BY <1>1 DEF eeprom_setup
  <2> QED
    BY <2>1
<1>2. CASE eeprom_factory_reset \/ eeprom_save_edits
  <2>1. pc \in {"reset", "save"} /\ pc' = "save" /\ UNCHANGED <<told, caller>>
    BY <1>2 DEF eeprom_factory_reset, eeprom_save_edits, BeginSave
  <2> QED
    BY <2>1
<1>3. CASE SaveDone
  <2>1. pc = "save" /\ next > LAST /\ pc' = "run" /\ UNCHANGED <<ee, goal>>
        /\ told' = (IF caller = "boot" THEN told ELSE ConfigData(G_EE))
    BY <1>3 DEF SaveDone, history
  <2>2. \A m \in Write : ee[Cell(m)] = Value(m, G_EE, colors)
    <3> TAKE m \in Write
    <3>1. m < next
      BY <2>1, Sizes, SMTT(30) DEF Write, SETTINGS, SaveInv
    <3> QED
      BY <2>1, <3>1 DEF SaveInv, Persisted
  <2>3. \A s \in Setting : ee[EE[s]] = G_EE[s]
    BY <2>2, AllWritten
  <2>4. \A s \in Setting : G_EE[s] = G_EE'[s]
    <3>1. CASE Load
      BY <2>3, <3>1 DEF Load
    <3>2. CASE UNCHANGED G_EE
      BY <3>2
    <3> QED
      BY <1>3, <3>1, <3>2 DEF SaveDone
  <2>5. ConfigData(G_EE) = ConfigData(G_EE')
    BY <2>4, ConfigDataOfSame
  <2> QED
    BY <2>1, <2>5
<1>4. ASSUME NEW buffer \in Buffers, sysExCmdPushConfig(buffer) PROVE ToldInv'
  <2>1. pc' = "save" /\ caller' = "push"
    BY <1>4 DEF sysExCmdPushConfig, BeginSave
  <2> QED
    BY <2>1
<1>5. CASE sysExCmdPullConfig
  <2>1. pc = "run" /\ told' = ConfigData(G_EE) /\ UNCHANGED <<G_EE, pc>>
    BY <1>5 DEF sysExCmdPullConfig
  <2>2. ConfigData(G_EE) = ConfigData(G_EE')
    BY <2>1
  <2> QED
    BY <2>1, <2>2
<1>6. CASE sysExCmdSystem
  <2>1. pc' = "reset" /\ caller' = "system"
    BY <1>6 DEF sysExCmdSystem
  <2> QED
    BY <2>1
<1>7. CASE PowerLoss
  <2>1. told' = <<>>
    BY <1>7 DEF PowerLoss
  <2> QED
    BY <2>1
<1>8. ASSUME NEW kind, NEW bank, NEW offset, NEW value,
             sysExCmdBulkXfer(kind, bank, offset, value) \/ UNCHANGED settingsVars
      PROVE  ToldInv'
  <2>1. UNCHANGED <<G_EE, pc, caller, told>>
    BY <1>8 DEF sysExCmdBulkXfer, settingsVars
  <2>2. ConfigData(G_EE) = ConfigData(G_EE')
    BY <2>1
  <2> QED
    BY <2>1, <2>2
<1> QED
  BY <1>1, <1>2, <1>3, <1>4, <1>5, <1>6, <1>7, <1>8 DEF SettingsNext

\* For every configuration and every moment of a power loss: what the host was last
\* told is what the device does.
THEOREM ToldIsCurrentAlways == SettingsSpec => []ToldIsCurrent
<1>1. SettingsInit => ToldInv
  BY DEF SettingsInit, ToldInv, ToldIsCurrent
<1>2. ToldInv => ToldIsCurrent
  BY DEF ToldInv
<1> QED
  BY <1>1, <1>2, SaveStart, SaveStep, ToldStep, PTL DEF SettingsSpec

----------------------------------------------------------------------------
(* The parts of a colour map.                                              *)

LEMMA PartSizes ==
  /\ PARTS \in Nat \ {0} /\ PART_BYTES \in Nat \ {0}
  /\ \E u \in Nat : PART_BYTES = 3 * u
<1>1. PARTS \in Nat \ {0} /\ PART_BYTES \in Nat \ {0} /\ PART_BYTES % 3 = 0
  BY ColorsAssumption
<1>2. PART_BYTES \div 3 \in Nat /\ PART_BYTES = 3 * (PART_BYTES \div 3)
  BY <1>1
<1> QED
  BY <1>1, <1>2

\* The parts follow each other, through both banks.
LEMMA PartStart ==
  ASSUME NEW part \in 1 .. (2 * PARTS)
  PROVE  FirstByte(part) = PART_BYTES * (part - 1)
<1>0. PARTS \in Nat \ {0} /\ PART_BYTES \in Nat \ {0}
  BY PartSizes
<1> DEFINE q == (part - 1) \div PARTS
           r == (part - 1) % PARTS
<1>1. q \in Int /\ r \in Int /\ part - 1 = PARTS * q + r
  BY <1>0, SMTT(30)
<1>2. FirstByte(part) = q * (PARTS * PART_BYTES) + r * PART_BYTES
  BY DEF FirstByte, BANK_BYTES
<1> HIDE DEF q, r
<1>3. q * (PARTS * PART_BYTES) + r * PART_BYTES = PART_BYTES * (PARTS * q + r)
  BY <1>0, <1>1, SMTT(30)
<1> QED
  BY <1>1, <1>2, <1>3

\* A button that starts in one of the parts that size bytes fill ends in it; c is
\* what the bytes of another array are counted on by.
LEMMA ButtonInParts ==
  ASSUME NEW p \in Nat, NEW i \in Nat, NEW size \in Nat, NEW n \in Nat, NEW c \in Nat, c = 3 * n,
         \/ PART_BYTES * p <= i + c /\ i + c < PART_BYTES * p + size
         \/ PART_BYTES * p <= ButtonAt(i) + c /\ ButtonAt(i) + c < PART_BYTES * p + size
  PROVE  (i + c) \div PART_BYTES \in p .. (p + ((size - 1) \div PART_BYTES))
<1>1. PICK u \in Nat : PART_BYTES = 3 * u
  BY PartSizes
<1>0. PART_BYTES \in Nat \ {0}
  BY PartSizes
<1> DEFINE v == i \div 3
           s == (size - 1) \div PART_BYTES
           q == (i + c) \div PART_BYTES
<1>2. v \in Nat /\ ButtonAt(i) = 3 * v /\ i >= 3 * v /\ i <= 3 * v + 2
  BY SMTT(30) DEF ButtonAt
<1>3. size > 0
  BY <1>0, <1>2, SMTT(30)
<1>4. s \in Nat /\ size - 1 < PART_BYTES * s + PART_BYTES
  BY <1>0, <1>3, SMTT(30)
<1>5. q \in Nat /\ PART_BYTES * q <= i + c /\ i + c < PART_BYTES * q + PART_BYTES
  BY <1>0, SMTT(30)
<1> HIDE DEF v, s, q
<1>6. PICK w \in Nat : w = u * p
  BY SMTT(30)
<1>7. PICK x \in Nat : x = u * s
  BY <1>4, SMTT(30)
<1>8. PART_BYTES * p = 3 * w /\ PART_BYTES * s = 3 * x
  BY <1>1, <1>4, <1>6, <1>7, SMTT(30)
<1>9. 3 * w <= i + c /\ i + c < 3 * w + 3 * x + 3 * u
  BY <1>1, <1>2, <1>4, <1>8, SMTT(30)
<1>10. PART_BYTES * p < PART_BYTES * (q + 1) /\ PART_BYTES * q < PART_BYTES * (p + s + 1)
  <2>1. PART_BYTES * (q + 1) = PART_BYTES * q + PART_BYTES
    BY <1>0, <1>5, SMTT(30)
  <2>2. PART_BYTES * (p + s + 1) = PART_BYTES * p + PART_BYTES * s + PART_BYTES
    BY <1>0, <1>4, SMTT(30)
  <2>3. PART_BYTES * q \in Nat /\ PART_BYTES * p \in Nat
    BY <1>0, <1>5, SMTT(30)
  <2> QED
    BY <1>0, <1>1, <1>5, <1>8, <1>9, <2>1, <2>2, <2>3, SMTT(30)
<1>11. \A k, m \in Nat : PART_BYTES * k < PART_BYTES * m => k < m
  BY <1>0, SMTT(30)
<1>12. p < q + 1 /\ q < p + s + 1
  <2>1. q + 1 \in Nat /\ p + s + 1 \in Nat
    BY <1>4, <1>5, SMTT(30)
  <2> QED
    BY <1>5, <1>10, <1>11, <2>1
<1>13. q \in p .. (p + s)
  BY <1>4, <1>5, <1>12, SMTT(30)
<1> QED
  BY <1>13 DEF q, s

\* What a push stores and adjusts lies in the buttons that its bytes reach into.
LEMMA StoredInPart ==
  ASSUME NEW a, NEW first, NEW size, NEW data, NEW i \in At,
         StoredPart(a, first, size, data)[i] # a[i]
  PROVE  \/ first <= i /\ i < first + size
         \/ first <= ButtonAt(i) /\ ButtonAt(i) < first + size
BY DEF StoredPart, adjust_bank_leds_for_power

LEMMA PushStep ==
  ASSUME ColorsNext, NEW t \in Tag, NEW i \in At, default_bank'[t][i] # default_bank[t][i]
  PROVE  ((i + Start(t, pushed'[1])) \div PART_BYTES) + 1 \in Filled(pushed'[2], pushed'[3])
<1>0. PICK tag \in Tag, part \in 0 .. (2 * PARTS + 1), payload \in Payload, follows \in BOOLEAN :
        \E size \in 0 .. (Len(payload) + 2) : BulkPush(tag, part, size, payload, follows)
  BY DEF ColorsNext
<1>1. PICK size \in 0 .. (Len(payload) + 2) : BulkPush(tag, part, size, payload, follows)
  BY <1>0
<1> DEFINE data == Append(payload, 247)
           first == FirstByte(part)
           c == Start(t, tag)
<1>2. /\ part \in 1 .. (2 * PARTS) /\ pushed' = <<tag, part, size>>
      /\ default_bank' =
           [d \in Tag |-> IF d = tag \/ follows
                          THEN StoredPart(default_bank[d], first - Start(d, tag), size, data)
                          ELSE default_bank[d]]
  BY <1>1 DEF BulkPush
<1>3. StoredPart(default_bank[t], first - c, size, data)[i] # default_bank[t][i]
  BY <1>2
<1>4. \/ first - c <= i /\ i < first - c + size
      \/ first - c <= ButtonAt(i) /\ ButtonAt(i) < first - c + size
  BY <1>3, StoredInPart, ZenonT(60)
<1>5. PICK p \in Nat : p = part - 1
  BY <1>2, PartSizes, SMTT(30)
<1>6. first = PART_BYTES * p
  BY <1>2, <1>5, PartStart
<1>7. i \in Nat /\ size \in Nat /\ ButtonAt(i) \in Int /\ PART_BYTES * p \in Nat
  <2>1. Len(payload) \in Nat
    BY ColorsAssumption, SMTT(30)
  <2> QED
    BY <2>1, PartSizes, SMTT(30) DEF At, ButtonAt
<1>8. \E n \in Nat : c = 3 * n
  <2>1. PICK u \in Nat : PART_BYTES = 3 * u
    BY PartSizes
  <2>2. PARTS * u \in Nat /\ 2 * (PARTS * (3 * u)) = 3 * (2 * (PARTS * u))
    BY PartSizes, SMTT(30)
  <2>3. 2 * BANK_BYTES = 3 * (2 * (PARTS * u)) /\ 2 * (PARTS * u) \in Nat /\ 0 = 3 * 0
    BY <2>1, <2>2, SMTT(30) DEF BANK_BYTES
  <2> QED
    BY <2>3 DEF Start
<1> HIDE DEF data, first, c
<1>9. PICK n \in Nat : c = 3 * n
  BY <1>8
<1>10. c \in Nat
  BY <1>9, SMTT(30)
<1>11. \/ PART_BYTES * p <= i + c /\ i + c < PART_BYTES * p + size
       \/ PART_BYTES * p <= ButtonAt(i) + c /\ ButtonAt(i) + c < PART_BYTES * p + size
  BY <1>4, <1>6, <1>7, <1>10, SMTT(60)
<1>12. (i + c) \div PART_BYTES \in p .. (p + ((size - 1) \div PART_BYTES))
  BY <1>7, <1>9, <1>10, <1>11, ButtonInParts
<1>13. ((i + c) \div PART_BYTES) + 1 \in part .. (part + ((size - 1) \div PART_BYTES))
  <2>1. (i + c) \div PART_BYTES \in Int /\ (size - 1) \div PART_BYTES \in Int
    BY <1>7, <1>10, PartSizes, SMTT(30)
  <2> QED
    BY <1>2, <1>5, <1>12, <2>1, PartSizes, SMTT(30)
<1> QED
  BY <1>2, <1>13 DEF Filled, c

\* For every number and size of the parts, every size that sysExCmdBulkXfer takes and
\* every payload: a push changes no button but those of the parts its size fills, of the
\* one it names when the size is at most a part.
THEOREM OnlyItsPartAlways == ColorsSpec => OnlyItsPart
<1>1. [ColorsNext]_colorsVars =>
        [pushes' # pushes =>
           \A t \in Tag, i \in At :
             default_bank'[t][i] # default_bank[t][i] =>
               ((i + Start(t, pushed'[1])) \div PART_BYTES) + 1
                  \in Filled(pushed'[2], pushed'[3])]_colorsVars
  BY PushStep
<1> QED
  BY <1>1, PTL DEF ColorsSpec, OnlyItsPart


----------------------------------------------------------------------------
(* Settings pulled and pushed back.                                        *)

\* The tags and the values of send_config_data.
Tags == <<0, 1, 3, 7, 8, 10, 11, 12, 13, 14, 15, 16, 17, 18, 19, 20, 21, 22, 23>>
Values(g) ==
  <<(g.MIDI_CHANNEL + 1) % 256, g.MIDI_VELOCITY, g.FOUR_BANKS_MODE, g.MIDI_OUTPUT_MODE,
    g.COMBOS_ENABLE, g.ANIMATIONS, g.TILT_MASK % 4, (g.TILT_MASK \div 16) % 16,
    (g.TILT_MODE - 1) % 256, g.TILT_SENSITIVITY, g.PITCH_SENSITIVITY, g.TILT_RANGE,
    g.PITCH_RANGE, g.TILT_DEADZONE, g.PITCH_DEADZONE, g.TILT_AXIS, g.PICK_SENSITIVITY,
    g.SLEEP_TIME, g.SIDE_BANK>>

LEMMA TagsAndValues ==
  ASSUME NEW g, NEW k \in 1..19
  PROVE  ConfigData(g)[2 * k - 1] = Tags[k] /\ ConfigData(g)[2 * k] = Values(g)[k]
BY SMTT(30) DEF ConfigData, Tags, Values

LEMMA TagsApart ==
  ASSUME NEW k \in 1..19, NEW j \in 1..19, Tags[k] = Tags[j]
  PROVE  k = j
BY DEF Tags

\* A tag that comes once decodes to its value.
LEMMA DecodedTag ==
  ASSUME NEW g, NEW k \in 1..19
  PROVE  tv_table_decode(ConfigData(g))[Tags[k]] = Values(g)[k]
<1> DEFINE buffer == ConfigData(g)
           tag == Tags[k]
           at == {i \in 1 .. (Len(buffer) - 1) : i % 2 = 1 /\ buffer[i] = tag}
<1>1. tag \in 0 .. (TV_TABLE_SIZE - 1)
  BY DEF Tags, TV_TABLE_SIZE
<1>2. Len(buffer) = 39
  BY DEF ConfigData
<1>3. \A j \in 1..19 : buffer[2 * j - 1] = Tags[j] /\ buffer[2 * j] = Values(g)[j]
  BY TagsAndValues
<1> HIDE DEF buffer
<1>4. at = {2 * k - 1}
  <2>1. 2 * k - 1 \in at
    BY <1>2, <1>3, SMTT(30)
  <2>2. ASSUME NEW i \in at PROVE i = 2 * k - 1
    <3>1. PICK j \in 1..19 : i = 2 * j - 1
      <4>1. i \in 1..38 /\ i % 2 = 1
        BY <1>2, SMTT(30)
      <4>2. (i + 1) \div 2 \in 1..19 /\ i = 2 * ((i + 1) \div 2) - 1
        BY <4>1
      <4> QED
        BY <4>2
    <3>2. Tags[j] = Tags[k]
      BY <1>3, <3>1
    <3> QED
      BY <3>1, <3>2, TagsApart
  <2> QED
    BY <2>1, <2>2
<1>5. Max(at) = 2 * k - 1
  BY <1>4, SMTT(30) DEF Max
<1>6. tv_table_decode(buffer)[tag] = IF at = {} THEN 0 ELSE buffer[Max(at) + 1]
  BY <1>1 DEF tv_table_decode
<1> HIDE DEF at
<1>7. buffer[Max(at) + 1] = Values(g)[k] /\ at # {}
  BY <1>3, <1>4, <1>5, SMTT(30)
<1> QED
  BY <1>6, <1>7 DEF buffer

\* The two halves of the tilt mask share no bit.
LEMMA HalvesOfMask ==
  ASSUME NEW hi \in 0..15, NEW lo \in 0..3
  PROVE  BitOr((hi * 16) % 256, lo) = 16 * hi + lo
<1> DEFINE a == (hi * 16) % 256
<1>1. a = 16 * hi /\ a \in 0..240
  BY SMTT(30)
<1>2. Bit(a, lo, 1) + Bit(a, lo, 2) = lo
  BY <1>1, SMTT(30) DEF Bit
<1>3. Bit(a, lo, 4) = 0 /\ Bit(a, lo, 8) = 0
  BY <1>1, SMTT(30) DEF Bit
<1>4. /\ Bit(a, lo, 16) = (IF hi % 2 = 1 THEN 16 ELSE 0)
      /\ Bit(a, lo, 32) = (IF (hi \div 2) % 2 = 1 THEN 32 ELSE 0)
      /\ Bit(a, lo, 64) = (IF (hi \div 4) % 2 = 1 THEN 64 ELSE 0)
      /\ Bit(a, lo, 128) = (IF (hi \div 8) % 2 = 1 THEN 128 ELSE 0)
  BY <1>1, SMTT(30) DEF Bit
<1>5. Bit(a, lo, 16) + Bit(a, lo, 32) + Bit(a, lo, 64) + Bit(a, lo, 128) = 16 * hi
  BY <1>4, SMTT(30)
<1> HIDE DEF a
<1>6. \A v \in {1, 2, 4, 8, 16, 32, 64, 128} : Bit(a, lo, v) \in Nat
  BY SMTT(30) DEF Bit
<1> QED
  BY <1>2, <1>3, <1>5, <1>6, SMTT(30) DEF BitOr, a


\* The settings, by name.
LEMMA SettingNames ==
  Setting = {"MIDI_CHANNEL", "MIDI_VELOCITY", "FOUR_BANKS_MODE", "MIDI_OUTPUT_MODE",
             "COMBOS_ENABLE", "TILT_MODE", "TILT_MASK", "ANIMATIONS", "TILT_SENSITIVITY",
             "PITCH_SENSITIVITY", "TILT_RANGE", "PITCH_RANGE", "TILT_DEADZONE",
             "PITCH_DEADZONE", "TILT_AXIS", "PICK_SENSITIVITY", "SLEEP_TIME", "SIDE_BANK"}
BY DEF Setting, EE

\* What a push stores, setting by setting.
Fields(h, g, config) ==
  /\ h.MIDI_CHANNEL = Channel(config[0]) /\ h.MIDI_VELOCITY = config[1]
  /\ h.FOUR_BANKS_MODE = config[3] /\ h.MIDI_OUTPUT_MODE = config[7]
  /\ h.COMBOS_ENABLE = config[8] /\ h.ANIMATIONS = config[10]
  /\ h.TILT_MASK = BitOr((config[12] * 16) % 256, config[11])
  /\ h.TILT_MODE = TiltMode(config[13])
  /\ h.TILT_SENSITIVITY = config[14] /\ h.TILT_RANGE = config[16]
  /\ h.PITCH_RANGE = config[17] /\ h.TILT_DEADZONE = config[18]
  /\ h.TILT_AXIS = config[20] /\ h.PICK_SENSITIVITY = config[21]
  /\ h.SLEEP_TIME = config[22] /\ h.SIDE_BANK = config[23]
  /\ h.PITCH_SENSITIVITY = g.PITCH_SENSITIVITY /\ h.PITCH_DEADZONE = g.PITCH_DEADZONE

LEMMA PushedFields ==
  ASSUME NEW g, DOMAIN g = Setting, NEW config
  PROVE  /\ Fields(Pushed(g, config), g, config)
         /\ Pushed(g, config) = [s \in Setting |-> Pushed(g, config)[s]]
<1> DEFINE h == Pushed(g, config)
<1>0. DOMAIN g = {"MIDI_CHANNEL", "MIDI_VELOCITY", "FOUR_BANKS_MODE", "MIDI_OUTPUT_MODE",
             "COMBOS_ENABLE", "TILT_MODE", "TILT_MASK", "ANIMATIONS", "TILT_SENSITIVITY",
             "PITCH_SENSITIVITY", "TILT_RANGE", "PITCH_RANGE", "TILT_DEADZONE",
             "PITCH_DEADZONE", "TILT_AXIS", "PICK_SENSITIVITY", "SLEEP_TIME", "SIDE_BANK"}
  BY SettingNames
<1>1. DOMAIN h = Setting
  BY ZenonT(60) DEF Pushed
<1>2. h.MIDI_CHANNEL = Channel(config[0]) /\ h.MIDI_VELOCITY = config[1]
  BY <1>0 DEF Pushed
<1>3. h.FOUR_BANKS_MODE = config[3] /\ h.MIDI_OUTPUT_MODE = config[7]
  BY <1>0 DEF Pushed
<1>4. h.COMBOS_ENABLE = config[8] /\ h.ANIMATIONS = config[10]
  BY <1>0 DEF Pushed
<1>5. h.TILT_MASK = BitOr((config[12] * 16) % 256, config[11])
  BY <1>0, ZenonT(60) DEF Pushed
<1>6. h.TILT_MODE = TiltMode(config[13])
  BY <1>0 DEF Pushed
<1>7. h.TILT_SENSITIVITY = config[14] /\ h.TILT_RANGE = config[16]
  BY <1>0 DEF Pushed
<1>8. h.PITCH_RANGE = config[17] /\ h.TILT_DEADZONE = config[18]
  BY <1>0 DEF Pushed
<1>9. h.TILT_AXIS = config[20] /\ h.PICK_SENSITIVITY = config[21]
  BY <1>0 DEF Pushed
<1>10. h.SLEEP_TIME = config[22] /\ h.SIDE_BANK = config[23]
  BY <1>0 DEF Pushed
<1>11. h.PITCH_SENSITIVITY = g.PITCH_SENSITIVITY /\ h.PITCH_DEADZONE = g.PITCH_DEADZONE
  BY <1>0, SMTT(30) DEF Pushed
<1>12. PICK k : k = [g EXCEPT
                  !.MIDI_CHANNEL = Channel(config[0]), !.MIDI_VELOCITY = config[1],
                  !.FOUR_BANKS_MODE = config[3], !.MIDI_OUTPUT_MODE = config[7],
                  !.COMBOS_ENABLE = config[8], !.ANIMATIONS = config[10],
                  !.TILT_MASK = BitOr((config[12] * 16) % 256, config[11]),
                  !.TILT_MODE = TiltMode(config[13]),
                  !.TILT_SENSITIVITY = config[14], !.TILT_RANGE = config[16],
                  !.PITCH_RANGE = config[17], !.TILT_DEADZONE = config[18],
                  !.TILT_AXIS = config[20], !.PICK_SENSITIVITY = config[21],
                  !.SLEEP_TIME = config[22]]
  OBVIOUS
<1>13. h = [k EXCEPT !.SIDE_BANK = config[23]]
  BY <1>12 DEF Pushed
<1> HIDE DEF h
<1>14. h = [s \in Setting |-> h[s]]
  BY <1>1, <1>13
<1>15. Fields(h, g, config)
  BY <1>2, <1>3, <1>4, <1>5, <1>6, <1>7, <1>8, <1>9, <1>10, <1>11, ZenonT(60) DEF Fields
<1> QED
  BY <1>14, <1>15 DEF h

\* The bytes as a range of numbers.
IsByte(n) == n \in Int /\ 0 <= n /\ n <= 255
LEMMA ByteRange == \A n : n \in Byte <=> IsByte(n)
BY SMTT(30) DEF Byte, IsByte

\* A configuration that is sent and pushed back is the same, but for the two bits.
LEMMA SentBackIsSame ==
  ASSUME NEW g \in [Setting -> Byte]
  PROVE  Pushed(g, tv_table_decode(ConfigData(g))) = [g EXCEPT !.TILT_MASK = Told(@)]
<1> DEFINE c == tv_table_decode(ConfigData(g))
           h == Pushed(g, c)
<1>1. \A s \in Setting : IsByte(g[s])
  BY ByteRange
<1>2. \A k \in 1..19 : c[Tags[k]] = Values(g)[k]
  BY DecodedTag
<1> HIDE DEF c
<1>3. /\ c[0] = (g.MIDI_CHANNEL + 1) % 256 /\ c[1] = g.MIDI_VELOCITY
      /\ c[3] = g.FOUR_BANKS_MODE /\ c[7] = g.MIDI_OUTPUT_MODE
      /\ c[8] = g.COMBOS_ENABLE /\ c[10] = g.ANIMATIONS
      /\ c[11] = g.TILT_MASK % 4 /\ c[12] = (g.TILT_MASK \div 16) % 16
      /\ c[13] = (g.TILT_MODE - 1) % 256 /\ c[14] = g.TILT_SENSITIVITY
  BY <1>2, SMTT(30) DEF Tags, Values
<1>4. /\ c[16] = g.TILT_RANGE /\ c[17] = g.PITCH_RANGE /\ c[18] = g.TILT_DEADZONE
      /\ c[20] = g.TILT_AXIS /\ c[21] = g.PICK_SENSITIVITY
      /\ c[22] = g.SLEEP_TIME /\ c[23] = g.SIDE_BANK
  BY <1>2, SMTT(30) DEF Tags, Values
<1>5. Channel(c[0]) = g.MIDI_CHANNEL /\ TiltMode(c[13]) = g.TILT_MODE
  <2>1. IsByte(g.MIDI_CHANNEL) /\ IsByte(g.TILT_MODE)
    BY <1>1, SettingNames
  <2>2. ASSUME NEW n, IsByte(n)
        PROVE  (((n + 1) % 256) - 1) % 256 = n /\ (((n - 1) % 256) + 1) % 256 = n
    BY <2>2, SMTT(30) DEF IsByte
  <2> QED
    BY <1>3, <2>1, <2>2, SMTT(30) DEF Channel, TiltMode
<1>6. BitOr((c[12] * 16) % 256, c[11]) = Told(g.TILT_MASK)
  <2>1. IsByte(g.TILT_MASK)
    BY <1>1, SettingNames
  <2>2. c[12] \in 0..15 /\ c[11] \in 0..3 /\ 16 * c[12] + c[11] = Told(g.TILT_MASK)
    <3>1. PICK n : n = g.TILT_MASK /\ IsByte(n)
      BY <2>1
    <3>2. PICK q \in Int : n \div 16 = q /\ 16 * q <= n /\ n < 16 * q + 16 /\ 0 <= q /\ q < 16
      BY <3>1, SMTT(30) DEF IsByte
    <3>3. PICK m \in Int : n \div 4 = m /\ 4 * m <= n /\ n < 4 * m + 4 /\ n % 4 = n - 4 * m
      BY <3>1 DEF IsByte
    <3>4. 4 * q <= m /\ m < 4 * q + 4
      BY <3>1, <3>2, <3>3, SMTT(30) DEF IsByte
    <3>5. q % 16 = q /\ m % 4 = m - 4 * q
      BY <3>2, <3>4
    <3>6. c[12] = q /\ c[11] = n - 4 * m /\ Told(g.TILT_MASK) = n - 4 * (m - 4 * q)
      BY <1>3, <3>1, <3>2, <3>3, <3>5, ZenonT(60) DEF Told
    <3>7. q \in 0..15 /\ n - 4 * m \in 0..3 /\ 16 * q + (n - 4 * m) = n - 4 * (m - 4 * q)
      BY <3>1, <3>2, <3>3, SMTT(30) DEF IsByte
    <3> QED
      BY <3>6, <3>7
  <2> QED
    BY <2>2, HalvesOfMask, ZenonT(60)
<1>7. Fields(h, g, c) /\ h = [s \in Setting |-> h[s]]
  <2>1. DOMAIN g = Setting
    OBVIOUS
  <2> QED
    BY <2>1, PushedFields
<1> HIDE DEF h
<1>8. ASSUME NEW s \in Setting PROVE h[s] = [g EXCEPT !.TILT_MASK = Told(@)][s]
  BY <1>3, <1>4, <1>5, <1>6, <1>7, SettingNames, SMTT(30) DEF Fields
<1> QED
  BY <1>7, <1>8 DEF h, c


\* RAM and EEPROM hold bytes.
BytesInv ==
  /\ G_EE \in [Setting -> Byte] /\ colors \in [Color -> Byte] /\ ee \in [Address -> Byte]

\* The largest element of a set of numbers that has a bound.
LEMMA Greatest ==
  ASSUME NEW n \in Nat, NEW T, T \subseteq 0..n, T # {}
  PROVE  Max(T) \in T
<1> DEFINE Below == {n - t : t \in T}
<1>1. Below \subseteq Nat /\ Below # {}
  <2>1. \A t \in T : n - t \in Nat
    OBVIOUS
  <2> QED
    BY <2>1
<1>2. PICK x \in Below : \A y \in Below : ~(<<y, x>> \in OpToRel(<, Nat))
  BY <1>1, NatLessThanWellFounded, WFMin
<1>3. PICK t \in T : x = n - t
  OBVIOUS
<1>4. ASSUME NEW y \in T PROVE t >= y
  <2>1. n - y \in Below /\ n - y \in Nat /\ x \in Nat
    BY <1>1
  <2>2. n - y < x => <<n - y, x>> \in OpToRel(<, Nat)
    BY <2>1 DEF OpToRel
  <2>3. ~(n - y < x)
    BY <1>2, <2>1, <2>2
  <2> QED
    BY <1>3, <2>1, <2>3, SMTT(30)
<1> QED
  BY <1>4 DEF Max

\* A pushed message decodes to bytes.
LEMMA DecodedByte ==
  ASSUME NEW buffer \in Buffers, NEW tag \in 0..23
  PROVE  tv_table_decode(buffer)[tag] \in Byte
<1> DEFINE at == {i \in 1 .. (Len(buffer) - 1) : i % 2 = 1 /\ buffer[i] = tag}
<1>1. buffer \in Seq(Byte) /\ Len(buffer) \in Nat
  BY SettingsAssumption, SMTT(30)
<1>2. tv_table_decode(buffer)[tag] = IF at = {} THEN 0 ELSE buffer[Max(at) + 1]
  <2>1. tag \in 0 .. (TV_TABLE_SIZE - 1)
    BY DEF TV_TABLE_SIZE
  <2> QED
    BY <2>1 DEF tv_table_decode
<1>3. CASE at = {}
  BY <1>2, <1>3, ByteRange, SMTT(30) DEF IsByte
<1>4. CASE at # {}
  <2>1. at \subseteq 0 .. Len(buffer)
    BY <1>1
  <2>2. Max(at) \in at
    BY <1>1, <1>4, <2>1, Greatest
  <2>3. Max(at) + 1 \in 1 .. Len(buffer)
    BY <1>1, <2>2, SMTT(30)
  <2> HIDE DEF at
  <2> QED
    BY <1>1, <1>2, <1>4, <2>3
<1> QED
  BY <1>3, <1>4

LEMMA OrIsByte ==
  ASSUME NEW a, NEW b PROVE BitOr(a, b) \in Byte
<1>1. \A v \in Nat : Bit(a, b, v) \in Int /\ 0 <= Bit(a, b, v) /\ Bit(a, b, v) <= v
  BY DEF Bit
<1> QED
  BY <1>1, ByteRange, SMTT(30) DEF BitOr, IsByte

\* A push stores bytes.
LEMMA PushedBytes ==
  ASSUME NEW g \in [Setting -> Byte], NEW buffer \in Buffers
  PROVE  Pushed(g, tv_table_decode(buffer)) \in [Setting -> Byte]
<1> DEFINE c == tv_table_decode(buffer)
           h == Pushed(g, c)
<1>1. \A tag \in 0..23 : c[tag] \in Byte
  BY DecodedByte
<1>2. Fields(h, g, c) /\ h = [s \in Setting |-> h[s]]
  <2>1. DOMAIN g = Setting
    OBVIOUS
  <2> QED
    BY <2>1, PushedFields
<1> HIDE DEF c, h
<1>3. /\ Channel(c[0]) \in Byte /\ TiltMode(c[13]) \in Byte
      /\ BitOr((c[12] * 16) % 256, c[11]) \in Byte
  <2>0. 0 \in 0..23 /\ 13 \in 0..23
    OBVIOUS
  <2>1. c[0] \in Byte /\ c[13] \in Byte
    BY <1>1, <2>0
  <2>2. IsByte(c[0]) /\ IsByte(c[13])
    BY <2>1, ByteRange
  <2>3. Channel(c[0]) \in Byte /\ TiltMode(c[13]) \in Byte
    BY <2>2, ByteRange, SMTT(30) DEF Channel, TiltMode, IsByte
  <2> QED
    BY <2>3, OrIsByte, ZenonT(60)
<1>4. g.PITCH_SENSITIVITY \in Byte /\ g.PITCH_DEADZONE \in Byte
  BY SettingNames
<1>5. ASSUME NEW s \in Setting PROVE h[s] \in Byte
  BY <1>1, <1>2, <1>3, <1>4, SettingNames, SMTT(30) DEF Fields
<1> QED
  BY <1>2, <1>5 DEF h, c

\* What a save writes are bytes, to cells of the EEPROM.
LEMMA ValueIsByte ==
  ASSUME NEW m \in Write, NEW g \in [Setting -> Byte], NEW c \in [Color -> Byte]
  PROVE  Value(m, g, c) \in Byte
<1>1. CASE IsSetting(m)
  <2>1. m \in 1..18
    BY <1>1, Sizes, SMTT(30) DEF Write, IsSetting, SETTINGS
  <2>2. SettingOrder[m] \in Setting
    BY <2>1, SMTT(30) DEF SettingOrder, Setting, EE
  <2> QED
    BY <1>1, <2>2 DEF Value
<1>2. CASE ~IsSetting(m)
  <2>1. PICK q \in 0..3, i \in 0 .. (COLORS - 1) : m = SETTINGS + (COLORS * q + i + 1)
    BY <1>2, EveryWrite
  <2>2. Value(m, g, c) = c[<<Kind(q), BankOf(q), i>>]
    BY <2>1, ColorCells
  <2>3. <<Kind(q), BankOf(q), i>> \in Color
    BY SMTT(30) DEF Color, Bank, NUM_BANKS, Kind, BankOf
  <2> QED
    BY <2>2, <2>3
<1> QED
  BY <1>1, <1>2

LEMMA DefaultBytes == Default \in [Setting -> Byte] /\ load_default_colors \in [Color -> Byte]
<1>1. Default \in [Setting -> Byte]
  <2>1. DOMAIN Default = Setting /\ Default = [s \in Setting |-> Default[s]]
    BY SMTT(30) DEF Default, Setting, EE
  <2>2. \A s \in Setting : Default[s] \in Byte
    BY SettingNames, ByteRange, SMTT(30) DEF Default, IsByte
  <2> QED
    BY <2>1, <2>2
<1> DEFINE default(c) == CASE c[1] = "idle" /\ c[2] = 0 -> 0
                           [] c[1] = "idle" /\ c[2] = 1 -> 24
                           [] c[1] = "active" /\ c[2] = 0 -> IF c[3] % 3 = 2 THEN 48 ELSE 0
                           [] c[1] = "active" /\ c[2] = 1 -> IF c[3] % 3 = 1 THEN 48 ELSE 0
<1>2. ASSUME NEW c \in Color PROVE default(c) \in Byte
  <2>1. c[1] \in {"idle", "active"} /\ c[2] \in 0..1
    BY DEF Color, Bank, NUM_BANKS
  <2> QED
    BY <2>1, ByteRange, SMTT(30) DEF IsByte
<1>3. load_default_colors = [c \in Color |-> default(c)]
  BY DEF load_default_colors
<1> HIDE DEF default
<1> QED
  BY <1>1, <1>2, <1>3


\* Reading the EEPROM gives bytes.
LEMMA LoadBytes ==
  ASSUME ee \in [Address -> Byte], Load
  PROVE  G_EE' \in [Setting -> Byte] /\ colors' \in [Color -> Byte]
<1>1. /\ G_EE' = [s \in Setting |-> ee[EE[s]]]
      /\ colors' = [c \in Color |-> ee[ColorAddress(c)]]
  BY DEF Load
<1>2. \A s \in Setting : EE[s] \in Address
  BY DEF Address
<1>3. \A c \in Color : ColorAddress(c) \in Address
  BY DEF Address
<1> QED
  BY <1>1, <1>2, <1>3

LEMMA BytesStep == SaveInv /\ BytesInv /\ [SettingsNext]_settingsVars => BytesInv'
<1> SUFFICES ASSUME SaveInv, BytesInv, [SettingsNext]_settingsVars PROVE BytesInv'
  OBVIOUS
<1>0. G_EE \in [Setting -> Byte] /\ colors \in [Color -> Byte] /\ ee \in [Address -> Byte]
  BY DEF BytesInv
<1>1. CASE UNCHANGED ee /\ (Load \/ UNCHANGED <<G_EE, colors>>)
  BY <1>0, <1>1, LoadBytes DEF BytesInv
<1>2. CASE eeprom_setup \/ SaveDone
  BY <1>1, <1>2 DEF eeprom_setup, SaveDone
<1>3. CASE eeprom_factory_reset
  <2>1. /\ G_EE' = Default /\ colors' = load_default_colors
        /\ ee' = [ee EXCEPT ![EE_EEPROM_VERSION] = EEPROM_LAYOUT]
    BY <1>3 DEF eeprom_factory_reset, BeginSave
  <2>2. EEPROM_LAYOUT \in Byte
    BY ByteRange, SMTT(30) DEF EEPROM_LAYOUT, IsByte
  <2>3. ee' \in [Address -> Byte]
    BY <1>0, <2>1, <2>2
  <2> QED
    BY <2>1, <2>3, DefaultBytes DEF BytesInv
<1>4. CASE eeprom_save_edits
  <2>1. /\ next <= LAST /\ UNCHANGED <<G_EE, colors>>
        /\ ee' = [ee EXCEPT ![Cell(next)] = Value(next, G_EE, colors)]
    BY <1>4 DEF eeprom_save_edits
  <2>2. next \in Write
    BY <2>1, Sizes, SMTT(30) DEF SaveInv, Write, SETTINGS
  <2>3. Value(next, G_EE, colors) \in Byte
    BY <1>0, <2>2, ValueIsByte
  <2> QED
    BY <1>0, <2>1, <2>3 DEF BytesInv
<1>5. ASSUME NEW buffer \in Buffers, sysExCmdPushConfig(buffer) PROVE BytesInv'
  <2>1. /\ G_EE' = Pushed(G_EE, tv_table_decode(buffer)) /\ colors' = colors /\ ee' = ee
    BY <1>5 DEF sysExCmdPushConfig, BeginSave
  <2> QED
    BY <1>0, <2>1, PushedBytes DEF BytesInv
<1>6. CASE sysExCmdPullConfig \/ sysExCmdSystem \/ PowerLoss \/ UNCHANGED settingsVars
  BY <1>1, <1>6 DEF sysExCmdPullConfig, sysExCmdSystem, PowerLoss, settingsVars
<1>7. ASSUME NEW kind, NEW bank, NEW offset, NEW value \in ColorByte,
             sysExCmdBulkXfer(kind, bank, offset, value)
      PROVE  BytesInv'
  <2> DEFINE part == {kind} \X {bank} \X (offset .. (offset + PART - 1))
  <2>1. /\ colors' = [c \in Color |-> IF c \in part THEN value ELSE colors[c]]
        /\ UNCHANGED <<ee, G_EE>>
    BY <1>7 DEF sysExCmdBulkXfer
  <2> HIDE DEF part
  <2>2. value \in Byte
    BY SettingsAssumption
  <2> QED
    BY <1>0, <2>1, <2>2 DEF BytesInv
<1> QED
  BY <1>2, <1>3, <1>4, <1>5, <1>6, <1>7 DEF SettingsNext

LEMMA BytesStart == SettingsInit => BytesInv
<1> SUFFICES ASSUME SettingsInit PROVE BytesInv
  OBVIOUS
<1>1. ee \in [Address -> Byte]
  BY SMTT(30) DEF SettingsInit, Byte
<1> QED
  BY <1>1, DefaultBytes DEF SettingsInit, BytesInv

LEMMA BytesPushBack == BytesInv => PushBack
BY SentBackIsSame DEF BytesInv, PushBack

----------------------------------------------------------------------------
(* Colours pulled and pushed back.                                         *)

\* What a pull makes of a colour and a push of that.
Doubled(c) == (2 * Pulled(c)) % 256

\* What a colour becomes once its hue is known.
As(rgb, hue) ==
  IF hue[2] # 0 /\ rgb[hue[2]] = default_color[hue[1]][hue[2]] THEN rgb
  ELSE default_color[hue[1] + Brightness(rgb, hue)]

\* Each colour of the palette comes back, whichever hue and brightness it is
\* recognised by.
LEMMA PaletteComesBack ==
  ASSUME NEW rgb \in Palette
  PROVE  /\ Adjusted(<<Doubled(rgb[1]), Doubled(rgb[2]), Doubled(rgb[3])>>) = rgb
         /\ \A j \in 1..3 : Pulled(rgb[j]) < 128
<1> DEFINE Back(r, g, b) ==
      /\ Adjusted(<<Doubled(r), Doubled(g), Doubled(b)>>) = <<r, g, b>>
      /\ Pulled(r) < 128 /\ Pulled(g) < 128 /\ Pulled(b) < 128
<1>A. \A r, g, b : Adjusted(<<r, g, b>>) = As(<<r, g, b>>, Hue(r, g, b))
  BY SMTT(30) DEF Adjusted, As
<1>1. /\ default_color[1] = <<0, 0, 0>> /\ default_color[2] = <<48, 0, 0>>
      /\ default_color[3] = <<24, 0, 0>> /\ default_color[4] = <<40, 12, 0>>
      /\ default_color[5] = <<20, 6, 0>> /\ default_color[6] = <<32, 25, 0>>
      /\ default_color[7] = <<16, 12, 0>> /\ default_color[8] = <<25, 32, 0>>
      /\ default_color[9] = <<12, 16, 0>> /\ default_color[10] = <<0, 48, 0>>
  BY DEF default_color
<1>2. /\ default_color[11] = <<0, 24, 0>> /\ default_color[12] = <<0, 30, 30>>
      /\ default_color[13] = <<0, 15, 15>> /\ default_color[14] = <<0, 0, 48>>
      /\ default_color[15] = <<0, 0, 24>> /\ default_color[16] = <<25, 7, 32>>
      /\ default_color[17] = <<13, 3, 17>> /\ default_color[18] = <<36, 0, 18>>
      /\ default_color[19] = <<18, 0, 9>> /\ default_color[20] = <<24, 24, 24>>
  BY DEF default_color
<1>3. /\ Pulled(0) = 0 /\ Pulled(3) = 7 /\ Pulled(6) = 15 /\ Pulled(7) = 18 /\ Pulled(9) = 23
      /\ Pulled(12) = 31 /\ Pulled(13) = 34 /\ Pulled(15) = 39 /\ Pulled(16) = 42
      /\ Pulled(17) = 44 /\ Pulled(18) = 47 /\ Pulled(20) = 52 /\ Pulled(24) = 63
      /\ Pulled(25) = 66 /\ Pulled(30) = 79 /\ Pulled(32) = 84 /\ Pulled(36) = 95
      /\ Pulled(40) = 105 /\ Pulled(48) = 127
  BY SMTT(30) DEF Pulled
<1>4. /\ Doubled(0) = 0 /\ Doubled(3) = 14 /\ Doubled(6) = 30 /\ Doubled(7) = 36
      /\ Doubled(9) = 46 /\ Doubled(12) = 62 /\ Doubled(13) = 68 /\ Doubled(15) = 78
      /\ Doubled(16) = 84 /\ Doubled(17) = 88 /\ Doubled(18) = 94 /\ Doubled(20) = 104
      /\ Doubled(24) = 126 /\ Doubled(25) = 132 /\ Doubled(30) = 158 /\ Doubled(32) = 168
      /\ Doubled(36) = 190 /\ Doubled(40) = 210 /\ Doubled(48) = 254
  BY <1>3, SMTT(30) DEF Doubled
<1>5. /\ Hue(0, 0, 0) = <<1, 0>> /\ Hue(254, 0, 0) = <<2, 1>> /\ Hue(126, 0, 0) = <<2, 1>>
      /\ Hue(210, 62, 0) = <<4, 1>> /\ Hue(104, 30, 0) = <<4, 1>>
  BY SMTT(30) DEF Hue, OFF, RED, ORANGE, YELLOW, CHARTREUSE, GREEN, CYAN, BLUE, LAVENDER, PINK, WHITE,
     LAVENDER_GREEN_LIMIT
<1>6. /\ Hue(168, 132, 0) = <<6, 1>> /\ Hue(84, 62, 0) = <<6, 1>>
      /\ Hue(132, 168, 0) = <<8, 2>> /\ Hue(62, 84, 0) = <<8, 2>>
      /\ Hue(0, 254, 0) = <<10, 2>>
  BY SMTT(30) DEF Hue, OFF, RED, ORANGE, YELLOW, CHARTREUSE, GREEN, CYAN, BLUE, LAVENDER, PINK, WHITE,
     LAVENDER_GREEN_LIMIT
<1>7. /\ Hue(0, 126, 0) = <<10, 2>> /\ Hue(0, 158, 158) = <<12, 2>>
      /\ Hue(0, 78, 78) = <<12, 2>> /\ Hue(0, 0, 254) = <<14, 3>>
      /\ Hue(0, 0, 126) = <<14, 3>>
  BY SMTT(30) DEF Hue, OFF, RED, ORANGE, YELLOW, CHARTREUSE, GREEN, CYAN, BLUE, LAVENDER, PINK, WHITE,
     LAVENDER_GREEN_LIMIT
<1>8. /\ Hue(132, 36, 168) = <<16, 3>> /\ Hue(68, 14, 88) = <<16, 3>>
      /\ Hue(190, 0, 94) = <<18, 1>> /\ Hue(94, 0, 46) = <<18, 1>>
      /\ Hue(126, 126, 126) = <<20, 0>>
  BY SMTT(30) DEF Hue, OFF, RED, ORANGE, YELLOW, CHARTREUSE, GREEN, CYAN, BLUE, LAVENDER, PINK, WHITE,
     LAVENDER_GREEN_LIMIT
<1>H5. /\ As(<<0, 0, 0>>, <<1, 0>>) = <<0, 0, 0>>
       /\ As(<<254, 0, 0>>, <<2, 1>>) = <<48, 0, 0>>
       /\ As(<<126, 0, 0>>, <<2, 1>>) = <<24, 0, 0>>
  BY <1>1, <1>2, SMTT(30) DEF As, Brightness, LAVENDER, BRIGHT_LIMIT
<1>I5. /\ As(<<210, 62, 0>>, <<4, 1>>) = <<40, 12, 0>>
       /\ As(<<104, 30, 0>>, <<4, 1>>) = <<20, 6, 0>>
  BY <1>1, <1>2, SMTT(30) DEF As, Brightness, LAVENDER, BRIGHT_LIMIT
<1>9. /\ Adjusted(<<0, 0, 0>>) = <<0, 0, 0>> /\ Adjusted(<<254, 0, 0>>) = <<48, 0, 0>>
      /\ Adjusted(<<126, 0, 0>>) = <<24, 0, 0>> /\ Adjusted(<<210, 62, 0>>) = <<40, 12, 0>>
      /\ Adjusted(<<104, 30, 0>>) = <<20, 6, 0>>
  BY <1>5, <1>H5, <1>I5, <1>A, SMTT(30)
<1>H6. /\ As(<<168, 132, 0>>, <<6, 1>>) = <<32, 25, 0>>
       /\ As(<<84, 62, 0>>, <<6, 1>>) = <<16, 12, 0>>
       /\ As(<<132, 168, 0>>, <<8, 2>>) = <<25, 32, 0>>
  BY <1>1, <1>2, SMTT(30) DEF As, Brightness, LAVENDER, BRIGHT_LIMIT
<1>I6. /\ As(<<62, 84, 0>>, <<8, 2>>) = <<12, 16, 0>>
       /\ As(<<0, 254, 0>>, <<10, 2>>) = <<0, 48, 0>>
  BY <1>1, <1>2, SMTT(30) DEF As, Brightness, LAVENDER, BRIGHT_LIMIT
<1>10. /\ Adjusted(<<168, 132, 0>>) = <<32, 25, 0>> /\ Adjusted(<<84, 62, 0>>) = <<16, 12, 0>>
       /\ Adjusted(<<132, 168, 0>>) = <<25, 32, 0>> /\ Adjusted(<<62, 84, 0>>) = <<12, 16, 0>>
       /\ Adjusted(<<0, 254, 0>>) = <<0, 48, 0>>
  BY <1>6, <1>H6, <1>I6, <1>A, SMTT(30)
<1>H7. /\ As(<<0, 126, 0>>, <<10, 2>>) = <<0, 24, 0>>
       /\ As(<<0, 158, 158>>, <<12, 2>>) = <<0, 30, 30>>
       /\ As(<<0, 78, 78>>, <<12, 2>>) = <<0, 15, 15>>
  BY <1>1, <1>2, SMTT(30) DEF As, Brightness, LAVENDER, BRIGHT_LIMIT
<1>I7. /\ As(<<0, 0, 254>>, <<14, 3>>) = <<0, 0, 48>>
       /\ As(<<0, 0, 126>>, <<14, 3>>) = <<0, 0, 24>>
  BY <1>1, <1>2, SMTT(30) DEF As, Brightness, LAVENDER, BRIGHT_LIMIT
<1>11. /\ Adjusted(<<0, 126, 0>>) = <<0, 24, 0>> /\ Adjusted(<<0, 158, 158>>) = <<0, 30, 30>>
       /\ Adjusted(<<0, 78, 78>>) = <<0, 15, 15>> /\ Adjusted(<<0, 0, 254>>) = <<0, 0, 48>>
       /\ Adjusted(<<0, 0, 126>>) = <<0, 0, 24>>
  BY <1>7, <1>H7, <1>I7, <1>A, SMTT(30)
<1>H8. /\ As(<<132, 36, 168>>, <<16, 3>>) = <<25, 7, 32>>
       /\ As(<<68, 14, 88>>, <<16, 3>>) = <<13, 3, 17>>
       /\ As(<<190, 0, 94>>, <<18, 1>>) = <<36, 0, 18>>
  BY <1>1, <1>2, SMTT(30) DEF As, Brightness, LAVENDER, BRIGHT_LIMIT
<1>I8. /\ As(<<94, 0, 46>>, <<18, 1>>) = <<18, 0, 9>>
       /\ As(<<126, 126, 126>>, <<20, 0>>) = <<24, 24, 24>>
  BY <1>1, <1>2, SMTT(30) DEF As, Brightness, LAVENDER, BRIGHT_LIMIT
<1>12. /\ Adjusted(<<132, 36, 168>>) = <<25, 7, 32>>
       /\ Adjusted(<<68, 14, 88>>) = <<13, 3, 17>> /\ Adjusted(<<190, 0, 94>>) = <<36, 0, 18>>
       /\ Adjusted(<<94, 0, 46>>) = <<18, 0, 9>>
       /\ Adjusted(<<126, 126, 126>>) = <<24, 24, 24>>
  BY <1>8, <1>H8, <1>I8, <1>A, SMTT(30)
<1>13. /\ Back(0, 0, 0) /\ Back(48, 0, 0) /\ Back(24, 0, 0) /\ Back(40, 12, 0)
       /\ Back(20, 6, 0)
  BY <1>3, <1>4, <1>9, SMTT(30)
<1>14. /\ Back(32, 25, 0) /\ Back(16, 12, 0) /\ Back(25, 32, 0) /\ Back(12, 16, 0)
       /\ Back(0, 48, 0)
  BY <1>3, <1>4, <1>10, SMTT(30)
<1>15. /\ Back(0, 24, 0) /\ Back(0, 30, 30) /\ Back(0, 15, 15) /\ Back(0, 0, 48)
       /\ Back(0, 0, 24)
  BY <1>3, <1>4, <1>11, SMTT(30)
<1>16. /\ Back(25, 7, 32) /\ Back(13, 3, 17) /\ Back(36, 0, 18) /\ Back(18, 0, 9)
       /\ Back(24, 24, 24)
  BY <1>3, <1>4, <1>12, SMTT(30)
<1>17. PICK c \in 1..20 : rgb = default_color[c]
  <2>1. DOMAIN default_color = 1..20
    BY SMTT(30) DEF default_color
  <2> QED
    BY <2>1 DEF Palette
<1> HIDE DEF Back
<1>18. Back(rgb[1], rgb[2], rgb[3]) /\ rgb = <<rgb[1], rgb[2], rgb[3]>>
  BY <1>1, <1>2, <1>13, <1>14, <1>15, <1>16, <1>17, SMTT(30)
<1> QED
  BY <1>18 DEF Back

\* The bytes of a button stay inside the arrays, and one of a part inside the part.
LEMMA ButtonBytes ==
  ASSUME NEW i \in At, NEW part \in 1 .. (2 * PARTS)
  PROVE  /\ ButtonAt(i) \in Int /\ i % 3 \in 0..2 /\ i = ButtonAt(i) + (i % 3)
         /\ \A k \in 0..2 : ButtonAt(i) + k \in At
         /\ FirstByte(part) \in Int
         /\ FirstByte(part) <= ButtonAt(i) /\ ButtonAt(i) < FirstByte(part) + PART_BYTES
              => \A k \in 0..2 : ButtonAt(i) + k - FirstByte(part) + 1 \in 1..PART_BYTES
         /\ FirstByte(part) <= i /\ i < FirstByte(part) + PART_BYTES
              => FirstByte(part) <= ButtonAt(i) /\ ButtonAt(i) < FirstByte(part) + PART_BYTES
<1>0. PARTS \in Nat \ {0} /\ PART_BYTES \in Nat \ {0}
  BY PartSizes
<1>1. PICK u \in Nat : PART_BYTES = 3 * u
  BY PartSizes
<1>2. FirstByte(part) = PART_BYTES * (part - 1)
  BY PartStart
<1>3. PICK w \in Nat : w = u * (part - 1)
  BY <1>0, SMTT(30)
<1>4. FirstByte(part) = 3 * w
  BY <1>1, <1>2, <1>3, SMTT(30)
<1>5. PICK n \in Nat : n = PARTS * u
  BY <1>0
<1>6. 2 * BANK_BYTES = 6 * n
  BY <1>0, <1>1, <1>5, SMTT(30) DEF BANK_BYTES
<1>7. i \in Nat /\ i < 6 * n
  BY <1>6 DEF At
<1>8. PICK v \in Nat : ButtonAt(i) = 3 * v /\ i % 3 = i - 3 * v /\ i - 3 * v \in 0..2
  <2>1. i % 3 \in 0..2 /\ i \div 3 \in Nat /\ i = 3 * (i \div 3) + (i % 3)
    BY <1>7
  <2> QED
    BY <2>1, <1>7, SMTT(30) DEF ButtonAt
<1>9. \A k \in 0..2 : ButtonAt(i) + k \in At
  BY <1>6, <1>7, <1>8, SMTT(30) DEF At
<1> QED
  BY <1>1, <1>4, <1>7, <1>8, <1>9

LEMMA PalettePushedBack == PullPushIsSame
<1> SUFFICES ASSUME NEW t \in Tag, NEW part \in 1 .. (2 * PARTS), NEW i \in At,
                    Rgb(default_bank[t], i) \in Palette
             PROVE  /\ StoredPart(default_bank[t], FirstByte(part), PART_BYTES,
                                  PulledPart(default_bank[t], part))[i] = default_bank[t][i]
                    /\ Pulled(default_bank[t][i]) < 128
  BY DEF PullPushIsSame
<1>1. PICK a : a = default_bank[t]
  OBVIOUS
<1>2. PICK first \in Int : first = FirstByte(part)
  BY ButtonBytes
<1>3. PICK B \in Int : B = ButtonAt(i)
  BY ButtonBytes
<1>4. PICK r \in 0..2 : r = i % 3
  BY ButtonBytes
<1>5. /\ i = B + r /\ \A k \in 0..2 : B + k \in At
      /\ first <= B /\ B < first + PART_BYTES => \A k \in 0..2 : B + k - first + 1 \in 1..PART_BYTES
      /\ first <= i /\ i < first + PART_BYTES => first <= B /\ B < first + PART_BYTES
  BY <1>2, <1>3, <1>4, ButtonBytes
<1>6. PICK rgb \in Palette : rgb = Rgb(a, i)
  BY <1>1
<1>7. rgb = <<a[B], a[B + 1], a[B + 2]>>
  BY <1>3, <1>6 DEF Rgb
<1>8. rgb[r + 1] = a[i] /\ r + 1 \in 1..3
  <2>1. i = B \/ i = B + 1 \/ i = B + 2
    BY <1>5
  <2> QED
    BY <1>5, <1>7, SMTT(30)
<1>9. Pulled(a[i]) < 128
  BY <1>8, PaletteComesBack
<1> DEFINE s == [j \in At |-> IF first <= j /\ j < first + PART_BYTES
                              THEN (2 * PulledPart(a, part)[j - first + 1]) % 256 ELSE a[j]]
           b == StoredPart(a, first, PART_BYTES, PulledPart(a, part))
<1>10. b[i] = IF first <= B /\ B < first + PART_BYTES THEN Adjusted(Rgb(s, i))[r + 1] ELSE s[i]
  BY <1>3, <1>4, ZenonT(60) DEF StoredPart, adjust_bank_leds_for_power
<1>11. CASE first <= B /\ B < first + PART_BYTES
  <2>1. \A k \in 0..2 : s[B + k] = Doubled(a[B + k])
    <3> SUFFICES ASSUME NEW k \in 0..2 PROVE s[B + k] = Doubled(a[B + k])
      OBVIOUS
    <3>1. B + k \in At /\ B + k - first + 1 \in 1..PART_BYTES
      BY <1>5, <1>11
    <3>2. PICK j \in At : j = B + k
      BY <3>1
    <3>3. /\ j - first + 1 \in 1..PART_BYTES /\ first + (j - first + 1) - 1 = j
          /\ first <= j /\ j < first + PART_BYTES
      BY <3>1, <3>2, PartSizes, SMTT(30)
    <3>4. PulledPart(a, part)[j - first + 1] = Pulled(a[j])
      BY <1>2, <3>3 DEF PulledPart
    <3>5. s[j] = (2 * PulledPart(a, part)[j - first + 1]) % 256
      BY <3>3
    <3>6. s[j] = Doubled(a[j])
      BY <3>4, <3>5, ZenonT(60) DEF Doubled
    <3> HIDE DEF s
    <3> QED
      BY <3>2, <3>6
  <2>2. s[B] = Doubled(a[B]) /\ s[B + 1] = Doubled(a[B + 1]) /\ s[B + 2] = Doubled(a[B + 2])
    <3>1. B + 0 = B /\ 0 \in 0..2 /\ 1 \in 0..2 /\ 2 \in 0..2
      OBVIOUS
    <3> HIDE DEF s
    <3>2. s[B + 0] = Doubled(a[B + 0])
      BY <2>1, <3>1
    <3> QED
      BY <2>1, <3>1, <3>2
  <2>3. rgb[1] = a[B] /\ rgb[2] = a[B + 1] /\ rgb[3] = a[B + 2]
    BY <1>7
  <2>4. Rgb(s, i) = <<Doubled(rgb[1]), Doubled(rgb[2]), Doubled(rgb[3])>>
    <3> HIDE DEF s
    <3> QED
      BY <1>3, <2>2, <2>3 DEF Rgb
  <2>5. Adjusted(Rgb(s, i)) = rgb
    <3> HIDE DEF s
    <3> QED
      BY <2>4, PaletteComesBack
  <2>6. b[i] = a[i]
    <3> HIDE DEF s, b
    <3> QED
      BY <1>8, <1>10, <1>11, <2>5
  <2> QED
    BY <1>1, <1>2, <1>9, <2>6
<1>12. CASE ~(first <= B /\ B < first + PART_BYTES)
  <2>1. ~(first <= i /\ i < first + PART_BYTES)
    BY <1>5, <1>12
  <2>2. s[i] = a[i]
    BY <2>1
  <2>3. b[i] = a[i]
    <3> HIDE DEF s, b
    <3> QED
      BY <1>10, <1>12, <2>2
  <2> QED
    BY <1>1, <1>2, <1>9, <2>3
<1> QED
  BY <1>11, <1>12


----------------------------------------------------------------------------
(* Settings and colours together: a step of one leaves the other alone.    *)

ConfigStateInv == component \in {"settings", "colors"} /\ SaveInv /\ BytesInv

LEMMA ConfigStep == ConfigStateInv /\ [ConfigNext]_configVars => ConfigStateInv'
<1> SUFFICES ASSUME ConfigStateInv, [ConfigNext]_configVars PROVE ConfigStateInv'
  OBVIOUS
<1>1. UNCHANGED component /\ [SettingsNext]_settingsVars
  <2>1. CASE Only("settings") /\ SettingsNext
    BY <2>1 DEF Only
  <2>2. CASE Only("colors") /\ ColorsNext
    BY <2>2 DEF Only
  <2>3. CASE UNCHANGED configVars
    BY <2>3 DEF configVars
  <2> QED
    BY <2>1, <2>2, <2>3 DEF ConfigNext
<1>2. SaveInv'
  BY <1>1, SaveStep DEF ConfigStateInv
<1>3. BytesInv'
  BY <1>1, BytesStep DEF ConfigStateInv
<1> QED
  BY <1>1, <1>2, <1>3 DEF ConfigStateInv

\* Whatever the host has pushed, with parts of any size and number, what it pulls
\* is what it has to push to change nothing: each of the settings that
\* send_config_data sends comes back through the tags and halves of
\* sysExCmdPushConfig, and each colour of the palette through the scaling to
\* seven bits and adjust_inactive_bank_leds_for_power.
THEOREM PullThenPushAlways == ConfigSpec => []PullThenPush
<1>1. ConfigInit => ConfigStateInv
  BY SaveStart, BytesStart DEF ConfigInit, ConfigStateInv
<1>2. ConfigStateInv /\ [ConfigNext]_configVars => ConfigStateInv'
  BY ConfigStep
<1>3. ConfigStateInv => PullThenPush
  BY BytesPushBack, PalettePushedBack DEF ConfigStateInv, PullThenPush
<1> QED
  BY <1>1, <1>2, <1>3, PTL DEF ConfigSpec
=============================================================================

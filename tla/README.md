# A TLA+ verification of the Midi Fighter 64 firmware

The Midi Fighter 64 is a USB-MIDI controller with 64 arcade buttons, each with an
RGB light.  Its firmware (`src/midi_fighter_64/`, about 5,000 lines of C for an
ATmega32U4) is one main loop and two timer interrupts, sharing globals with no
locks.  This directory models it in TLA+, checks the models with TLC on small
instances and proves with TLAPS, for every value of the constants, each safety
property that holds.

## The system

| part | source | what it does |
|---|---|---|
| key sampling and debounce | `key.c` | TIMER0 interrupt shifts 64 contacts into a ring of 10 samples every millisecond; `key_read`/`key_calc` AND the ring in the main loop and derive press and release edges |
| combo recogniser | `combo.c` | a table-driven state machine over the low 16 keys that fires combos A to E |
| bank select | `midifighter64.c`, `key_pressed` to `service_bank_select_buttons` | holding one of two keys switches between the two banks of notes |
| main task | `midifighter64.c`, `Midifighter_Task` | receive, poll keys, send notes and CCs, combos, refresh the lights |
| MIDI receive and light feedback | `midifighter64.c`, `Midifighter_GetIncomingUsbMidiMessages`, `update_note_off_feedback_delay` | notes from the host set the lights; a note off takes effect after a short delay |
| MIDI output | `midi.c` | packet formats, key to note mapping, MIDI clock |
| USB endpoints | LUFA's MIDI class driver, as `midifighter64.c` and `midi.c` use it | event packets to and from the host, with timeouts |
| system exclusive parser | `sysex.c` | reassembles packets into a 64-byte buffer and dispatches commands |
| configuration | `config.c` | push, pull, system commands, bulk colour transfer |
| persistent settings | `eeprom.c` | settings and colours in EEPROM, layout version, factory reset |
| display | `display.c` | bank colours, MIDI feedback colours, geometric animations, sleep mode, palette clamping |
| LED driver and ball demo | `led.c` | TIMER1 interrupt for animation counters, bit-banged output, sleep-mode ball demo |
| start up, watchdog and bootloader entry | `main`, `jumptoboot.c` | the main loop, the watchdog it feeds, the jump to the bootloader |
| USB glue | `usb_descriptors.c`, USB events | descriptors and LUFA callbacks |

See `PROJECT.json` for the same list with the modules of each part and the reason
for each part that is left out.

## How the parts interact

`main` sets everything up and then repeats `Midifighter_Task`: receive what the host
sent, poll the keys, turn edges into MIDI, look for combos and, every 25 ms, serve
the bank keys, apply delayed note offs and redraw the lights.  TIMER0 interrupts
it every millisecond to sample the keys and advance `system_time_ms`; TIMER1
advances animation counters.  Nothing is locked, so the interrupts fall between any
two bytes the main loop reads.  A configuration command runs inside the receive
step and holds the main loop for up to 2.7 s while it writes the EEPROM.

```
 contacts -> TIMER0 -> ring -> key_read/key_calc --> notes, CCs --> packets --> host
   (KeyScan, refines KeyDebounce)      |  |           (MidiTask)   (UsbMidi)
                                       |  +--> combo_recognize (Combo, ComboTable)
             system_time_ms -----------+--> bank keys (BankSelect, refines BankButtons)
 host --> packets (UsbMidi)
      --> notes --> lights (Feedback), animations (Animations, Shapes)
      --> clock --> flashing and pulsing (FlashClock, Pulse) <-- TIMER1
      --> sysex packets --> command (SysEx) --> settings in RAM and EEPROM (Settings)
                                            --> colours and palette (Colors)
                                            --> answer in packets (SysExOut)
                                            --> bootloader (Watchdog)
 TIMER1 --> seconds, minutes without a key (Sleep) --> ball demo (BallDemo)
 main loop --> watchdog (Watchdog)
```

`MidiTask` extends `Combo` and instantiates `BankButtons`, the abstract
specification `BankSelect` is proved to implement; so the composition carries
neither the clock nor its torn reads.  The other modules meet only in a variable that one
sets and another reads, or not at all; each has its partner as an actor that does
anything the partner could.

## Modules

Variables and actions have the names of the C globals and functions they stand
for; variables commented as history or ghost record what happened and influence
nothing.  `PROJECT.json` maps each definition to its lines.  Definitions
whose comment begins "Mutant" are plausible mistakes, each used to show that a
property would notice it.

**KeyDebounce, KeyScan** (`key.c`).  A set of keys stands for a 64-bit mask.  The
interrupt is one action (it is not interrupted itself); `key_read` is one action per
ring entry, as interrupts are on.  An interrupt between two of the eight byte loads
of one entry is covered only key by key: every byte belongs to eight keys, and
keys do not influence one another.  At most one interrupt falls into a poll
(`ISR_PER_POLL`): a poll takes microseconds, the timer a millisecond.

**Combo, ComboTable, ComboPath** (`combo.c`).  `combo_recognize` is one action with
one operator per phase, in the order of the code's early returns.  The rule table is
a constant of `Combo`; `ComboTable` is the firmware's.  `ComboPath` adds how
far the presses since state 0 follow the drawing above the table.

**BankButtons, BankSelect** (`midifighter64.c`).  `pc` walks one pass of the task.
Each read of `system_time_ms` may have the low byte from before an interrupt and the
high byte from after: it is a tick old or, when the low byte carried, torn, and then
`BYTE - 1` ahead of the clock.  `BYTE` scales the clock; 0 means "no press" in the
code and here.  `since` measures real time, and `torn` tells whether a
torn value was used for a counter.

**MidiTask** (`Midifighter_Task`).  One poll is one action: the key loop, then the
combos.  The host is the sets of sounding notes, of CCs at 127 and of combo notes.
`unsettled` collects keys whose note the code cannot keep track of: those held at
power on or while the channel or the output mode changes.

**Feedback** (note handlers, `update_note_off_feedback_delay`).  Stamps have `STAMP`
values with a flag on top, clock differences are 16 bits wide as in the code.
Animations (channel + 1) are carried but not delayed.

**SysEx** (`sysex.c`).  The host sends a message as USB-MIDI packets: three bytes
each, then an end packet of one to three; it may abandon a message at a packet
boundary and start another.  Pointers are numbers, NULL is 0 and the buffer starts
at `BASE`.  Commands are what `sysex_handle` would call, with their data.

**Settings** (`eeprom.c`, `config.c`).  Every EEPROM write is a step at its real
address, and power may fail between any two.  Push, pull, factory reset and bulk
push of colours are the commands.  A colour map has `COLORS` bytes instead of 192,
so that a bank's map starts where the code's arithmetic puts it.

**Colors** (`sysExCmdBulkXfer`, `adjust_*_bank_leds_for_power`).  A colour map is a flat
array, pushed in parts of `PART_BYTES` bytes and then mapped, button by button, to a
palette of 20 colours.  The arithmetic is the code's, at its real widths; only the
number and the size of the parts are smaller.  A push has any size that the code takes,
more than a part included: `BulkPush` then writes on into the next parts and, past the last
one, into the other array or into memory that is not modelled (`follows`).

**SysExOut** (`midi_stream_sysex`).  Byte i of the message is the number i; `heard` and
`over` are what a host makes of the packets by their event codes (`HostTakes`).

**UsbMidi** (`Midifighter_Task` through LUFA).  An endpoint has one bank of `CAPACITY`
packets that belongs to the device or to the host.  `at` walks the task: receive, read
the keys, send any number of packets, flush, and in a refresh perhaps notify the host of a
bank change (`notifying`), which no flush of this pass follows.  A wait counts the 1 ms frames of the bus
and gives up after `TIMEOUT`; suspension, reset and configuration of the bus come at any
time.  A packet is its number.

**FlashClock, Pulse** (`led.c`, `midi.c`, `display.c`).  FlashClock is the counter shared by
the TIMER1 interrupt and the main loop, whose increment is a read and a write with the
interrupt in between.  Pulse is what the display makes of that counter, for all eight
rates and all 65536 values.

**Sleep** (`default_display_run`).  The interrupt counts half milliseconds; a refresh
compares them, which reads two bytes, resets them, which writes two bytes, and counts
seconds and minutes.  Keys and pushed settings come between refreshes.

**Animations, Shapes** (`display.c`).  Animations are the slots: a refresh gives the notes
of the selected bank the next slots in turn and steps what runs, unless a start took
the step; a bank change and a pushed configuration start one outside a refresh.  Shapes is
what each step of each of the four kinds lights from each of the 64 buttons, in
eight-bit arithmetic.

**BallDemo** (`led.c`).  One action per cell of the scan, as a ball that moves ahead of the
scan is met again.  Random numbers are any of `Vertical` and `Horizontal`.

**Watchdog** (`main`, `jumptoboot.c`).  A tick is a unit of time; the watchdog's `age`
grows with it.  A pass takes at most `PASS` ticks, unless the host stops taking packets
(`stalled`).  `Boot_Key` is the key in RAM that survives a watchdog reset, and sometimes
a power glitch.

## Runs

| run | bounds | what it shows |
|---|---|---|
| `device` | below | interrupts against the main loop: keys, timers, lights, USB and the watchdog |
| `combo` | keys 0, 4-8; 2 edges a poll | an active combo sounds and its release key is held; releases end started combos; D and E fire only after their keys in the drawn order |
| `combo_ends` | keys 0, 4-7 | *violated*: combo B over an active combo loses that one's release |
| `bank_select` | 3-valued bytes, hold time 4, gap 1 | bank selection implements `BankButtons`; no released key counts; a held key is served eventually and, without torn values, not early, but for one millisecond for a press at time 0 and one for a read a tick old |
| `bank_hold_torn` | 4-valued bytes, hold time 6, gap 4 | *violated*: a carry between the two bytes read for a press changes the bank at once |
| `midi_task` | 2 keys, 3 channels, 1 push | what sounds at the host is what is held |
| `midi_task_combo` | no push | *violated*: a bank change during a combo leaves its note sounding |
| `midi` | below | messages of the host and to it, the lights they set |
| `sysex_stray` | buffer of 6, 21 messages | *violated*: a lone end packet is stored at the null pointer |
| `config` | below | commands on settings and colours |
| `settings_layout` | 2 colours a map | *violated*: power lost in a layout reset leaves old bytes in use |
| `palette` | 2 parts of 1 button | *violated*: a pushed colour outside the palette is kept |

`device`, `midi` and `config` each check several components that share no variable.  A
behaviour of such a run is one of a single component, named by the variable `component`;
the others stay in an initial state.  So a run costs the sum of its components' states,
and every component keeps its own specification, the one the proofs are about.
`DeviceInv` and `MidiInv` hold the types of all components and further invariants of some,
which the table names.  Types of the other runs are part of the proofs.  Liveness properties
of a component are guarded by its name.

| in run | component | bounds | properties |
|---|---|---|---|
| `device` | KeyScan | 2 keys, ring of 3 | `ScanIsAtomic`: the interruptible scan implements the atomic debouncer, by `ScanInv` (in `DeviceInv`); `SteadyKeyReported` |
| | Sleep | 3-valued bytes, seconds of 5 counts, minutes of 2 seconds, settings 0 to 3 | `SleepsNoSooner` than the setting allows, as long as no access was torn; `DemoIsWhole`: it starts on a cleared grid and goes on until something ends it; it comes (`SleepComes`), and `SleepsNoLater` (in `DeviceInv`) than the setting and the gaps between refreshes say |
| | FlashClock | counter of 4 values, beat of 3 | `NoBeatLost`; `FlashingGoesOn` |
| | Animations | 3 keys, 2 slots, 2 kinds, 3 triggers | `LatestAreShown`: the slots hold the latest animations; `AnimationsEnd` |
| | Shapes | real size | `ShapeIsMeant`: each step lights exactly the figure, clipped at the grid, and the last one leaves it |
| | BallDemo | 4 by 3 grid | `OneCellPerBall` (in `DeviceInv`); `BallsKeepMoving` |
| | UsbMidi | bank of 2, timeout of 2, limits 3 and 2 | `LostOnlyIfLate`, `SentInOrder` (in `DeviceInv`), `SentIsDelivered`; `MainLoopGoesOn`: keys are read and the host is heard |
| | Watchdog | watchdog 3 ticks, pass 2, save 4, 2 requests | `NoSpuriousReset`; `HangEnds`, as `PassIsGuarded`; `EntryPerRequest`; `RequestServed`, as `RequestKept` (both in `DeviceInv`) |
| `midi` | SysEx | buffer of 6, 21 messages | messages run what they mean (`RunsMeaning`), within the buffer (`NeverPastEnd`), by `SysExInv` (in `MidiInv`) |
| | SysExOut | lengths 0 to 35 | `SysExArrives` whole, and its end is seen with the last packet |
| | Feedback | 1 button, 3 channels, 8 stamps | lights follow the host (`FollowsHost`); note offs are done by the second refresh (`OffBySecondRefresh`, by `OffInv`, in `MidiInv`); `EchoLightsKey` |
| | Pulse | real size | `LightsKeepTime`: the eight rates flash together and no pulse jumps, over the wrap too |
| `config` | Settings | 2 colours a map, 2 commands | `Persisted`, `OnlyColorsUnsaved`, `ToldIsCurrent`, `PullThenPush`, through power loss at every write |
| | Colors | 2 parts of 1 button, 2 pushes of up to 2 parts | `OnlyItsPart`: nothing past the parts that the size fills; `PullThenPush` |

The violated properties quote comments of the source; `PROJECT.json` has the
lines under `findings`.

**Why the bounds are enough.**  A ring of three has an entry before, at and after the
one replaced.  A byte of three values carries, wraps and has a middle; the hold
time and the refresh interval are below the wrap, as 1000 and 25 are below 65536.
Three channels are the fewest in which a bank's channel, its neighbour and the
wrap differ.  The messages reach every length from two bytes to past the end of the
buffer with each kind of end packet.  Two commands allow a push over a
reset, a save after unsaved colours and the like.  Minutes wrap at 5, above every setting,
as 256 is above all but 255.  Three triggers for two slots reuse one that runs.
A push of up to six bytes, for parts of three, ends inside a button, at the end of a part, in
the next part and past the array.
A bank of two packets is full, partly full and empty.  A save outlasts the watchdog, as
2.7 s does 2 s, and two requests leave a key behind for the second.

Deadlock is checked in `combo`, `bank_select` and `midi_task`.  In the runs of several
components it is not: counters that bound a component (triggers, pushes, the length of
a message) let it come to its end.

`combo` leaves out the keys of A and of the end of C, which take part in no rule of D
or E.  All three of its properties are proved for the 16 keys and any number of edges.

**Fairness.**  Every fair action is an interrupt, which hardware raises, or a step of the
main loop, which nothing blocks for ever: the receive loop has a limit on packets, waits
for the host have a timeout, the EEPROM wait is bounded, and the watchdog restarts a main
loop that hangs.  In detail: weak fairness of TIMER0 and of the main loop in `KeyScan`
and `BankSelect`; of TIMER1 and of the refresh in `Sleep`, `FlashClock` and `Animations`;
of the scan in `BallDemo`; of the task and of the 1 ms frames of the bus in `UsbMidi`
(the hardware counts them while the bus is up); of time and of the running program
in `Watchdog`.  Nothing is assumed of the host or of the player; properties that need a
host that reads, or a bus that is up, say so in their own premise.  `bank_select` keeps the gap
between passes small against the wrap of the clock
(`TIME_MOD > LIMIT + REFRESH + 2 * MAX_GAP`, as 65536 is against 1000, 25 and the 2700 ms
of a save).

## What reading the code against its comments showed

Six places where the code does not do what a comment says have a run of their own
(the violated ones above).  The models show these as well:

- `key.c:157` says a key is activated "if any bit is set in the column"; `key_read`
  ANDs the samples, so every bit must be set, which is what `KeyDebounce` states.
- `combo.c:187` marks a branch with "THIS SHOULD NEVER HAPPEN".  Releasing a fifth key
  while the four keys of combo B are held reaches it (`CheckComboB`, `keydown = {}`),
  and a combo that is active then is forgotten without its release.
- `combo.c:125`, `131` and `134` jump out of combo E.  The first lets C fire without its
  first key, the other two let D fire with a press too many (a-b-a-c-c-d).
- `config.c:129` switches to bank 1 when the bank keys are switched off by a push; a factory
  reset switches them off as well (`eeprom.c:228`) and leaves bank 2 selected.
- `midifighter64.c:250` says "Hold 2 seconds"; the limit is 1000 ms.
- `midifighter64.c:893` says "Finished generating MIDI events" where the task flushes; a bank
  change is notified afterwards (`midifighter64.c:256`), and its packet waits for the flush of
  the next pass (the last conjunct of `SentInOrder`).
- `display.c:1074` says the demo is shown "until next key press"; the minutes go on in eight
  bits, so when they wrap it ends without a key (`DemoIsWhole` allows for it).  A setting of
  255 never sleeps, as nothing is greater; a setting lowered below the minutes shows the
  demo without `ball_demo_setup`.
- `led.c:99` says "If there is no MIDI clock use this timer"; a host that goes silent
  without a stop message freezes flashing lights (the premise of `FlashGoesOn`).
- `midifighter64.c:1002` speaks of four corner keys to enter the bootloader; one key is tested.
- `Boot_Key` survives a power glitch in the 250 ms before the reset, and the next watchdog
  reset, whenever it comes, then enters the bootloader.  It is still one entry for one request.
- A pass with more than 20 packets to a host that reads nothing takes longer than the watchdog
  allows, at 100 ms a packet: the device restarts (`stalled` in `NoSpuriousReset`).
- `led.c:758` says "go back down after collision" of a ball that it sends on upwards
  (`led.c:602`: "1 = falling, 0 = rising"), and so do the seven assignments that follow: the
  balls press on until one turns elsewhere.  The branch for explosions cannot be reached, as `last_*` are never set.
- `config.c:117` stores all bits of `config.rotation` in the low half of the tilt mask, and its
  comment gives bits 2 and 3 to the two kinds of Z axis; `config.c:165` sends back `& 0x3`.  So
  these two bits survive no pull and push.  `PushBack` says so (`Told`).  No other code uses
  the mask.
- `config.c:293` counts the closing 0xf7 as payload, so a part one byte longer than its
  data is accepted, and 0xf7 stored as a colour.
- `config.c:262` says the size of a part "must be 24 or lower"; `config.c:293` only compares it
  with the data, so a larger one changes the parts that follow as well (`Filled`).

## Proofs

Every invariant and every action property of a passing run is a theorem.  A theorem holds for every value of the constants that the named
assumptions of the modules allow.  The assumptions are what the code's constants satisfy:
sizes are not 0, a clock is wider than the delays measured with it
(`BankSelectAssumption`, `FeedbackAssumption`), a watchdog period is longer than a pass, a
minute has two seconds or more, a second is at least 256 counts (`SleepAssumption`), the flash counter makes whole turns of the slowest pulse
(`PulseAssumption`), and the rule table is well-formed (`ComboAssumption`) and ends a combo
only in a state that firing it leads to (`ReleaseAssumption`).  TLC evaluates all of them.

Few of the properties are inductive.  What each proof adds to its property:

**Keys, timers, USB and the watchdog** (`DeviceProofs`)
- `ScanInvariance`, `ScanRefinesDebounce`: `ScanInv` says that the entries read so far are
  the common part of the ring as it is, or as it was before the one interrupt of this
  poll, the latter only if the replaced entry was read already.  `WholeRing` and
  `RingBeforeInterrupt` turn the two cases into the two polls `KeyDebounce` allows.
- `NoBeatLostAlways`: the main loop increments only while the flag keeps the interrupt
  away, so what it read is still the counter.
- `LostOnlyIfLateAlways`: the frames a wait counted and those left make up the timeout
  (`WaitInv`).
- `SentInOrderAlways`: `OrderInv` follows one packet through a send: a send that waits has the
  newest number and is in the bank only once it is done (`QueueOK`), and a bank with packets is
  flushed unless the bus goes down, after which it holds at most the one notification of a
  bank change, alone (`GivenOK`).
- `PassAdvancesAlways`: why `MainLoopGoesOn`.  `StepsOfPass` bounds what is left of a pass by the
  packets, failures and frames that its limits still allow, the wait of a notification after
  the flush included; each step of the task lowers it, and
  host, bus and frames never raise it.
- `EntryPerRequestAlways`: a key in RAM stands for a request not yet used (`BootInv`).
- `NoSpuriousResetAlways`: the age of a fed watchdog is at most the time spent in the pass
  (`FeedInv`), for every length of saves.
- `PassIsGuardedAlways`: why `HangEnds`, and half of why `RequestServed`.  `GuardInv` adds to
  `PassIsGuarded` and `RequestKept` that a configured device has the watchdog on in all of its
  main loop, as a pass begins there.  The other half is `RequestAdvancesAlways`: the bootloader
  is entered after at most `StepsLeft` more steps.

**Lights** (`LightsProofs`, `PatternProofs`)
- `SleepsNoSoonerAlways`, `DemoIsWholeAlways`: `TimerInv` ties the three counters to the real
  time without a key: half milliseconds, seconds and minutes never add up to more than it
  (`NotAhead`), unless an access was torn; the minutes are past the setting only with the demo
  on show (`SetupIsMet`), and the demo is on show only while they are (`DemoPast`).
- `SleepsNoLaterAlways`: the other direction.  A refresh finds a second over at most
  `REFRESH_GAP` counts late (`HalfBound`), so the counters fall behind time by no more than that
  a second (`NotBehind`), until the minutes turn through 0, which `NotAhead` puts far away; and
  without the demo the minutes are below the setting (`Awake`).
- `OneCellPerBallAlways`: the scan has counted every ball it passed (`AllMet`), so it adds one only
  if fewer than two are there; and the balls come in turn (`InTurn`), so the next index is
  then that of a ball not on the grid.
- `LatestAreShownAlways`: `SlotInv` numbers the starts; start k is in slot `(k - 1) % SLOTS`, and
  the slots hold the last `SLOTS` starts and no other, whether they came in one refresh or in
  many.
- `ShapeIsMeantAlways`: a coordinate that wraps in eight bits is never a line of the grid by
  accident (`NoWrap`), so each loop of the four figures lights the cells of its definition
  (`SquareIsMeant` to `TriangleIsMeant`), by arithmetic and not case by case.

**The runs of several components** (`MCDeviceProofs`, `MidiProofs`, `ConfigProofs`)
- `DeviceInvAlways`, `MidiInvAlways`: a step of the composition is a step or a stutter of each
  component (`StepOfEach`), so the conjunction of the components' invariants
  (`DeviceStateInv`, `MidiStateInv`) is inductive.

**Bank keys** (`BankSelectProofs`)
- `BankSelectImplementsButtons`, step by step under the mapping "armed = its counter is not
  0": a torn read is still a time (`ReadTimeIsTime`) and a press never stores 0
  (`PressTimeRuns`), which is all the mapping needs.  `OnlyHeldKeyCountsAlways` follows from
  what `BankButtons` allows (`ButtonsKeep`).
- `HoldHonouredUntornAlways`: `CounterInv` says that, with no torn value in use and until the
  hold time is over, the 16-bit difference of clock and counter (`Elapsed`) is the time the key
  was held, or one more for a press at time 0 and one more for a read a tick old; and that a
  test can read a time a tick old only after an interrupt since the press, so never one
  before it (`MinusStale`).

**Main task and combos** (`MidiTaskProofs`)
- `ActiveComboIsHeld`: inductive with the types; `RightmostBit` supplies that the release key
  is one of the keys just pressed.
- `ActionsArePaired`: in a state in which a rule can end a combo, that combo is sounding
  (`EndsSounding`).
- `FiredAsDrawnAlways`: `PathInv` bounds from below, for each state of the firmware's table,
  how many keys of each drawing were pressed on any way to it (`Least`); each rule keeps the
  bound, also those that jump out of another combo.
- `HostMirrorsKeysAlways`: inductive with the types; `g_key_bank_last_up` is the memory of
  the bank a key was pressed in, and the `<=>` rules out both stuck and missing notes.
- The recogniser in the task: `CombosHeardAlways` (what it takes to be sounding sounds at the
  host), and what the failures of `ComboNotesEnd` and of a switched recogniser come down to.
  `OnlyCombosHeardAlways`: as long as bank and channel stay while a combo sounds (`ChannelKept`),
  no other combo sounds.  `TaskRunsCombo`: with combos always on, the task implements `Combo`'s
  specification.  `ActiveComboHeldInTask`: with combos switched only while none is active
  (`SwitchedIdle`), an active combo's key is held.  TLC finds counterexamples to the last and to
  `OnlyCombosHeard` without these premises, so they are needed.

**MIDI messages** (`MidiProofs`)
- `RunsMeaningAlways`, `NeverPastEndAlways`: `SysExInv` says where the parser stands inside a
  message: how many bytes are stored, which ones, and that a message given up on
  (`Invalid`) means nothing.
- `SysExArrivesAlways`: the host has heard the message up to the bytes left, and no end before
  them (`StreamInv`).
- `FollowsHostAlways`; `OffBySecondRefreshAlways` by `OffInv`, which bounds the age of a stamp
  a refresh skipped by the time since that refresh; `EchoLightsKeyAlways`.  The lemmas from
  `StampFacts` to `StampTicks` are the modular arithmetic.
- `LightsKeepTimeAlways`: a count goes up by one or back to 0 after whole turns
  (`NextCount`), so both shifts of a pulse lose only whole turns (`ShiftedCount`,
  `PulseMoves`).

**Configuration** (`ConfigProofs`)
- `PersistedAlways`, `OnlyColorsUnsavedAlways` by `SaveInv`, for every size of a colour map up
  to 192 bytes.  They rest on `CellsApart`: the addresses of a save are distinct.
  `ToldIsCurrentAlways` follows with `ToldInv`.
- `OnlyItsPartAlways`: parts follow each other (`PartStart`), through both arrays, and a button
  that starts in one of the parts the size fills ends in it (`ButtonInParts`), for every payload
  and every size.
- `PullThenPushAlways`: settings and EEPROM cells are bytes (`BytesInv`, through every push,
  save and power loss), and for any bytes the tags are distinct and the halves and the `or`
  of the tilt mask undo each other (`SentBackIsSame`).  For colours,
  each of the 20 of the palette comes back from the scaling to seven bits
  (`PaletteComesBack`), and a button's bytes lie all inside a part or all outside
  (`ButtonBytes`).

A step that names no prover is given to Zenon, which translates it fastest, then to the SMT
solver (the `USE` at the head of each component's proof module).

Only model-checked is liveness, as fairness is out of the prover's reach:
`SteadyKeyReported`, `SleepComes`, `FlashingGoesOn`, `AnimationsEnd`, `BallsKeepMoving`,
`SentIsDelivered`, `MainLoopGoesOn`, `HangEnds`, `RequestServed` and `HoldServed`.  What four of
them rest on is proved: a bound in time for the demo (`SleepsNoLater`), a measure that every
step of the task or of the device lowers (`PassAdvances`, `RequestAdvances`), and the watchdog
on in every pass (`PassIsGuarded`).

## Limits of the models

- In `MidiTask` a packet sent is heard; when one is lost is `UsbMidi`'s matter, and what the
  main task then believes of the host is not followed up.
- In `UsbMidi` the host sends no packet of length zero.
- `G_EE_MIDI_CHANNEL` is 0 to 15 in `MidiTask` and `Feedback`.  A push without
  a channel stores 255, which `Settings` has and the other two do not.
- `Feedback` reads its clock untorn and assumes a refresh at least every
  `STAMP - LIMIT` ms.  A save of the configuration takes longer; a note off
  pending at that time can be late by a turn of the stamp.
- `Settings` stores and sends colours as bytes, and a push is one whole part; their scaling,
  and pushes of other sizes, are `Colors`'s.
- In `Colors` the data of a push are shorter than a bank, as the 64 bytes of the SysEx buffer
  are.  A size above 24 in part 16 writes past the array: into the other array, which
  is modelled, or into whatever else the linker put there, which is not.
- In `BallDemo` the grid is 4 by 3; a ball's colour and the numbers behind its
  speed are left out.
- `Pulse` ends at the step a sine is taken of; the sine and the brightness are floating point.

## Not modelled

- Which colour a button shows (`midi_color_state`, `info_display_active`): table look-ups that
  a refresh makes from the state the other modules have, and keep nothing.
- The bit-banged output to the lights, in counted cycles: TLA+ has nothing to say of it.
- `random.c`: a shift register that decorates the ball demo.
- USB descriptors, which are constant tables, and enumeration inside LUFA.
- `InterpretUsbMidiMessage`, the tilt sensor settings and the colour test have no effect in
  the compiled configuration.
- The LUFA tree beside the firmware: demos, projects, host stacks and other architectures,
  none of them linked.  What the firmware uses of LUFA's MIDI driver is in `UsbMidi`; the
  definitions map to about half of the firmware's own lines, and to a hundredth of the tree.

## Open questions

Worth adding: a composition of `MidiTask` with `UsbMidi` that shows which notes stay on at a
host that lost their end.

----------------------------- MODULE Watchdog ------------------------------
(***************************************************************************)
(* main (midifighter64.c) and jumptoboot.c: the main loop, the watchdog    *)
(* that is fed by it, the commands that switch the watchdog off while they *)
(* take long, and the way into the bootloader through a key in RAM that    *)
(* survives the reset.                                                     *)
(*                                                                         *)
(* A pass of the main loop takes at most PASS ticks, unless the host stops *)
(* taking packets: then every packet waits 100 ms and the pass may take    *)
(* any time.                                                               *)
(***************************************************************************)
EXTENDS Integers

CONSTANTS
  WDTO_2S, WDTO_250MS,   \* ticks until the watchdog fires
  PASS,                  \* ticks of a pass, when the host takes the packets
  SAVE,                  \* ticks of a command that saves: 2.7 s
  JUMP,                  \* ticks Jump_To_Bootloader waits: 128 * 16 ms
  MAX_REQUESTS           \* bound: requests for the bootloader

ASSUME WatchdogAssumption ==
  /\ WDTO_2S \in Nat \ {0} /\ WDTO_250MS \in 1..WDTO_2S
  /\ PASS \in 1 .. (WDTO_2S - 1)
  /\ SAVE \in Nat /\ JUMP \in Nat /\ MAX_REQUESTS \in Nat

VARIABLES
  mode,         \* where the processor is, see Mode
  Boot_Key,     \* Boot_Key = MAGIC_BOOT_KEY
  WDRF,         \* the watchdog reset flag of MCUSR
  wdt, age,     \* the watchdog's limit, 0 when it is off; ticks since it was fed
  watchdog_flag,
  configured, suspended,  \* USB_DeviceState
  spent,        \* ticks of this pass, command or wait
  stalled,      \* the host does not take the packets of this pass
  served,       \* history: a pass was completed and the watchdog fed since the reset
  requests, entries,  \* history: bootloader requests, and times it was entered
  owed          \* history: a request that neither the bootloader nor a power loss met

watchdogVars == <<mode, Boot_Key, WDRF, wdt, age, watchdog_flag, configured, suspended, spent,
                  stalled, served, requests, entries, owed>>
busVars == <<configured, suspended>>
bootVars == <<Boot_Key, WDRF, requests, entries, owed>>

\* off; reset: before main; loop: between two passes; task: Midifighter_Task; usb:
\* USB_USBTask; save: a command with the watchdog off; jump, spin: Jump_To_Bootloader
\* while it waits and after it armed the watchdog.
Running == {"loop", "task", "usb", "save", "jump", "spin"}
Mode == {"off", "reset", "bootloader"} \cup Running

Expired == wdt # 0 /\ age >= wdt
Alive == mode \in Running /\ ~Expired
Longest == CASE mode = "save" -> SAVE [] mode = "jump" -> JUMP
             [] mode = "spin" -> WDTO_250MS [] OTHER -> PASS

WatchdogInit ==
  /\ mode = "off" /\ Boot_Key = FALSE /\ WDRF = FALSE
  /\ wdt = 0 /\ age = 0 /\ watchdog_flag = FALSE
  /\ configured = FALSE /\ suspended = FALSE
  /\ spent = 0 /\ stalled = FALSE /\ served = FALSE
  /\ requests = 0 /\ entries = 0 /\ owed = FALSE

\* Time passes: no longer than the current step takes, but for a stalled pass.
ClockTick ==
  /\ Alive /\ (spent < Longest \/ (stalled /\ mode = "task"))
  /\ spent' = IF spent < Longest THEN spent + 1 ELSE spent
  /\ age' = IF wdt = 0 THEN age ELSE age + 1
  /\ UNCHANGED <<mode, wdt, watchdog_flag, busVars, bootVars, stalled, served>>

\* The watchdog fires.
WatchdogReset ==
  /\ mode \in Running /\ Expired
  /\ mode' = "reset" /\ WDRF' = TRUE
  /\ UNCHANGED <<Boot_Key, wdt, age, watchdog_flag, busVars, spent, stalled, served, requests,
                 entries, owed>>

\* Mutant: the key stays in RAM when the bootloader is entered.
Bootloader_Jump_Check_key_kept ==
  /\ WDRF /\ Boot_Key
  /\ mode' = "bootloader" /\ entries' = entries + 1 /\ owed' = FALSE
  /\ UNCHANGED <<Boot_Key, WDRF, wdt, age, watchdog_flag, busVars, spent, stalled, served,
                 requests>>

\* Before main: a watchdog reset with the key in RAM goes to the bootloader.
Bootloader_Jump_Check ==
  /\ WDRF /\ Boot_Key
  /\ Boot_Key' = FALSE
  /\ mode' = "bootloader" /\ entries' = entries + 1 /\ owed' = FALSE
  /\ UNCHANGED <<WDRF, wdt, age, watchdog_flag, busVars, spent, stalled, served, requests>>

\* main, up to its loop: with key 0 held, the bootloader.
StartMain(held) ==
  /\ ~(WDRF /\ Boot_Key)
  /\ WDRF' = FALSE /\ wdt' = 0 /\ age' = 0
  /\ watchdog_flag' = FALSE /\ configured' = FALSE /\ suspended' = FALSE
  /\ spent' = 0 /\ stalled' = FALSE /\ served' = FALSE
  /\ \/ held /\ requests < MAX_REQUESTS /\ mode' = "jump" /\ requests' = requests + 1
           /\ owed' = TRUE
     \/ ~held /\ mode' = "loop" /\ UNCHANGED <<requests, owed>>
  /\ UNCHANGED <<Boot_Key, entries>>

Reset == mode = "reset" /\ (Bootloader_Jump_Check \/ \E held \in BOOLEAN : StartMain(held))

\* The start of Midifighter_Task.  Unless configured it returns at once; otherwise it
\* receives, and feeds the watchdog whenever it finds no packet.
BeginTask(fed) ==
  /\ Alive /\ mode = "loop"
  /\ \/ configured /\ ~suspended /\ mode' = "task" /\ age' = (IF fed THEN 0 ELSE age)
     \/ (~configured \/ suspended) /\ mode' = "usb" /\ UNCHANGED age
  /\ UNCHANGED <<wdt, watchdog_flag, busVars, bootVars, spent, stalled, served>>

\* The host stops taking packets while there are some to send.
HostStalls ==
  /\ Alive /\ mode = "task" /\ stalled' = TRUE
  /\ UNCHANGED <<mode, wdt, age, watchdog_flag, busVars, bootVars, spent, served>>

\* Mutant: a command saves with the watchdog on.
BeginSave_guarded ==
  /\ Alive /\ mode = "task" /\ mode' = "save" /\ spent' = 0
  /\ UNCHANGED <<wdt, age, watchdog_flag, busVars, bootVars, stalled, served>>

\* sysExCmdPushConfig and the factory reset of sysExCmdSystem.
BeginSave ==
  /\ Alive /\ mode = "task" /\ mode' = "save" /\ spent' = 0
  /\ wdt' = 0
  /\ UNCHANGED <<age, watchdog_flag, busVars, bootVars, stalled, served>>

\* Mutant: the watchdog stays off after a save.
EndSave_off ==
  /\ Alive /\ mode = "save" /\ mode' = "task" /\ spent' = 0
  /\ UNCHANGED <<wdt, age, watchdog_flag, busVars, bootVars, stalled, served>>

EndSave ==
  /\ Alive /\ mode = "save" /\ mode' = "task" /\ spent' = 0
  /\ wdt' = WDTO_2S /\ age' = 0
  /\ UNCHANGED <<watchdog_flag, busVars, bootVars, stalled, served>>

\* Mutant: the bootloader command leaves the watchdog on.
sysExCmdSystem_guarded ==
  /\ Alive /\ mode = "task" /\ requests < MAX_REQUESTS
  /\ mode' = "jump" /\ spent' = 0 /\ requests' = requests + 1 /\ owed' = TRUE
  /\ UNCHANGED <<Boot_Key, WDRF, wdt, age, watchdog_flag, busVars, stalled, served, entries>>

\* The bootloader command of sysExCmdSystem, up to the wait.
sysExCmdSystem_bootloader ==
  /\ Alive /\ mode = "task" /\ requests < MAX_REQUESTS
  /\ wdt' = 0
  /\ mode' = "jump" /\ spent' = 0 /\ requests' = requests + 1 /\ owed' = TRUE
  /\ UNCHANGED <<Boot_Key, WDRF, age, watchdog_flag, busVars, stalled, served, entries>>

\* Jump_To_Bootloader after the wait, up to its endless loop.
Jump_To_Bootloader ==
  /\ Alive /\ mode = "jump" /\ spent >= JUMP
  /\ Boot_Key' = TRUE
  /\ wdt' = WDTO_250MS /\ age' = 0
  /\ mode' = "spin" /\ spent' = 0
  /\ UNCHANGED <<WDRF, requests, entries, owed, watchdog_flag, busVars, stalled, served>>

\* The end of Midifighter_Task.
EndTask ==
  /\ Alive /\ mode = "task"
  /\ watchdog_flag' = TRUE
  /\ mode' = "usb"
  /\ UNCHANGED <<wdt, age, busVars, bootVars, spent, stalled, served>>

\* USB_USBTask handles SET_CONFIGURATION: EVENT_USB_Device_ConfigurationChanged.
\* The endpoints always fit, so their set up does not fail.
SetConfiguration ==
  /\ Alive /\ mode = "usb" /\ ~suspended
  /\ configured' = TRUE
  /\ wdt' = WDTO_2S /\ age' = 0
  /\ UNCHANGED <<mode, watchdog_flag, suspended, bootVars, spent, stalled, served>>

\* if (watchdog_flag) wdt_reset().
Feed ==
  /\ age' = IF watchdog_flag THEN 0 ELSE age
  /\ UNCHANGED watchdog_flag

\* The end of a pass of the main loop.
EndLoop ==
  /\ Alive /\ mode = "usb"
  /\ Feed
  /\ mode' = "loop" /\ spent' = 0 /\ stalled' = FALSE
  /\ served' = (served \/ watchdog_flag)
  /\ UNCHANGED <<wdt, busVars, bootVars>>

\* USB_GEN_vect: suspend, wake up and bus reset, at any time.
USB_GEN_vect ==
  /\ Alive /\ mode \notin {"jump", "spin"}   \* interrupts are off there
  /\ \/ ~suspended /\ suspended' = TRUE /\ UNCHANGED configured
     \/ suspended /\ suspended' = FALSE /\ UNCHANGED configured
     \/ configured' = FALSE /\ suspended' = FALSE
  /\ UNCHANGED <<mode, wdt, age, watchdog_flag, bootVars, spent, stalled, served>>

\* Power fails and returns; RAM may outlast it, MCUSR does not say watchdog.
PowerOff ==
  /\ mode # "off" /\ mode' = "off"
  /\ WDRF' = FALSE /\ owed' = FALSE
  /\ \E key \in BOOLEAN : Boot_Key' = (key /\ Boot_Key)
  /\ UNCHANGED <<wdt, age, watchdog_flag, busVars, spent, stalled, served, requests, entries>>
PowerOn ==
  /\ mode = "off" /\ mode' = "reset"
  /\ UNCHANGED <<wdt, age, watchdog_flag, busVars, bootVars, spent, stalled, served>>

\* The bootloader starts the firmware, after a watchdog reset or not.
BootloaderExit ==
  /\ mode = "bootloader" /\ mode' = "reset"
  /\ WDRF' \in BOOLEAN
  /\ UNCHANGED <<Boot_Key, wdt, age, watchdog_flag, busVars, spent, stalled, served, requests,
                 entries, owed>>

WatchdogNext ==
  \/ ClockTick \/ WatchdogReset \/ Reset
  \/ \E fed \in BOOLEAN : BeginTask(fed)
  \/ HostStalls \/ BeginSave \/ EndSave \/ sysExCmdSystem_bootloader \/ Jump_To_Bootloader
  \/ EndTask \/ SetConfiguration \/ EndLoop
  \/ USB_GEN_vect \/ PowerOff \/ PowerOn \/ BootloaderExit

\* Time passes, the watchdog fires, a reset starts the program, and the bootloader
\* jump runs to its end; no two of these are enabled together.  Nothing makes a
\* pass end.
Onward == ClockTick \/ WatchdogReset \/ Reset \/ Jump_To_Bootloader
WatchdogFairness == WF_watchdogVars(Onward)

WatchdogSpec == WatchdogInit /\ [][WatchdogNext]_watchdogVars /\ WatchdogFairness

----------------------------------------------------------------------------
\* Types.
WatchdogTypeOK ==
  /\ mode \in Mode
  /\ Boot_Key \in BOOLEAN /\ WDRF \in BOOLEAN /\ watchdog_flag \in BOOLEAN
  /\ wdt \in {0, WDTO_2S, WDTO_250MS} /\ age \in 0..WDTO_2S
  /\ configured \in BOOLEAN /\ suspended \in BOOLEAN
  /\ spent \in Nat /\ stalled \in BOOLEAN /\ served \in BOOLEAN
  /\ requests \in 0..MAX_REQUESTS /\ entries \in Nat /\ owed \in BOOLEAN

\* Once a pass was completed, the watchdog fires only when the host stalled a pass, or
\* when Jump_To_Bootloader wants it to: not while a command saves, and not while the
\* bus is suspended or reset, when Midifighter_Task returns early.
NoSpuriousReset ==
  [][WatchdogReset => stalled \/ mode = "spin" \/ ~served]_watchdogVars

\* A pass that never ends is ended by the watchdog, whatever commands came before.
HangEnds == []<>~(mode = "task" /\ stalled)

\* The bootloader is entered at most once for every request: the key in RAM does not
\* send a later watchdog reset there.
EntryPerRequest == entries <= requests

\* A request gets to the bootloader, unless power fails: nothing resets the device
\* while it waits for the host to notice the detachment.
RequestServed == []<>~owed

\* Why HangEnds: Midifighter_Task always runs under the two-second watchdog, also after
\* a command that switched it off and after the bus was reset in the middle of a pass.
PassIsGuarded == mode = "task" => wdt = WDTO_2S

\* Why RequestServed: a request is on its way, waiting without the watchdog, then under
\* the short one with the key in RAM, then in a reset that will find the key.
RequestKept ==
  owed => \/ mode = "jump" /\ wdt = 0 /\ spent <= JUMP
          \/ mode = "spin" /\ wdt = WDTO_250MS /\ age <= wdt /\ Boot_Key
          \/ mode = "reset" /\ WDRF /\ Boot_Key

\* The steps left of a request, and that every step of the device is one of them: the
\* bootloader is entered JUMP + WDTO_250MS ticks after the request, unless power fails.
StepsLeft ==
  CASE mode = "jump" -> (JUMP - spent) + WDTO_250MS + 2
    [] mode = "spin" -> (WDTO_250MS - age) + 1
    [] OTHER -> 0
RequestAdvances == [][owed /\ owed' => StepsLeft' < StepsLeft /\ StepsLeft' >= 0]_watchdogVars
=============================================================================

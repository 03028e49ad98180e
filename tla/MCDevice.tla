----------------------------- MODULE MCDevice ------------------------------
(* What the interrupts and the main loop do without end: the scan of the     *)
(* keys, the timers, the lights, the USB endpoints and the watchdog.  The    *)
(* components share no variable, and a behaviour is one of a single          *)
(* component: the others stay in an initial state.                          *)
EXTENDS KeyScan, Sleep, FlashClock, Animations, Shapes, BallDemo, UsbMidi, Watchdog

\* Two keys are enough: a key's bit is combined only with the same key's bits, and
\* the second key shows they stay apart.
CONSTANTS k1, k2
MCKey == {k1, k2}
MCTypeSteps == <<2, 3>>
MCVertical == [rows \in 0..3 |-> IF rows = 0 THEN 3 ELSE IF rows < 3 THEN 2 ELSE 1]

VARIABLE component

Component == {"scan", "sleep", "flash", "animations", "shapes", "balls", "usb", "watchdog"}
deviceVars == <<component, scanVars, sleepVars, flashVars, animVars, shapeVars, ballVars,
                usbVars, watchdogVars>>

DeviceInit ==
  /\ component \in Component
  /\ ScanInit /\ SleepInit /\ FlashInit /\ AnimInit /\ ShapesInit /\ BallInit /\ UsbInit
  /\ WatchdogInit
  /\ component # "sleep" => G_EE_SLEEP_TIME = 0
  /\ component # "shapes" => shape_btn = 0 /\ shape_type = SQUARE

Only(c) ==
  /\ component = c /\ UNCHANGED component
  /\ c # "scan" => UNCHANGED scanVars
  /\ c # "sleep" => UNCHANGED sleepVars
  /\ c # "flash" => UNCHANGED flashVars
  /\ c # "animations" => UNCHANGED animVars
  /\ c # "shapes" => UNCHANGED shapeVars
  /\ c # "balls" => UNCHANGED ballVars
  /\ c # "usb" => UNCHANGED usbVars
  /\ c # "watchdog" => UNCHANGED watchdogVars

DeviceNext ==
  \/ Only("scan") /\ ScanNext
  \/ Only("sleep") /\ SleepNext
  \/ Only("flash") /\ FlashNext
  \/ Only("animations") /\ AnimNext
  \/ Only("shapes") /\ StepShape
  \/ Only("balls") /\ BallNext
  \/ Only("usb") /\ UsbNext
  \/ Only("watchdog") /\ WatchdogNext

\* Each component under its own fairness.
DeviceSpec ==
  /\ DeviceInit /\ [][DeviceNext]_deviceVars
  /\ WF_scanVars(component = "scan" /\ Interrupt)
  /\ WF_scanVars(component = "scan" /\ MainLoop)
  /\ WF_sleepVars(component = "sleep" /\ TIMER1_OVF_vect)
  /\ WF_sleepVars(component = "sleep" /\ RefreshStep)
  /\ WF_flashVars(component = "flash" /\ TimerBeat)
  /\ WF_flashVars(component = "flash" /\ (ReadCounter \/ WriteCounter))
  /\ WF_animVars(component = "animations" /\ CountDown)
  /\ WF_animVars(component = "animations" /\ DisplayRun)
  /\ WF_ballVars(component = "balls" /\ (Visit \/ EndScan))
  /\ WF_usbVars(component = "usb" /\ Loop)
  /\ WF_usbVars(component = "usb" /\ Frame)
  /\ WF_watchdogVars(component = "watchdog" /\ Onward)

----------------------------------------------------------------------------
\* The component that runs keeps its types, indices in their arrays and counters in
\* their bytes; what key_read has collected are N consecutive samples, before or after
\* an interrupt; ball_demo_run keeps each ball in one cell at most; the IN bank holds
\* packets in the order of their sends and none whose send failed, and past the end of
\* Midifighter_Task at most the notification of a bank change; the demo is on show once
\* the device was left alone for long enough; the watchdog is on throughout a pass;
\* and a request for the bootloader stays on its way to it.
DeviceInv ==
  CASE component = "scan" -> ScanTypeOK /\ ScanInv
    [] component = "sleep" -> SleepTypeOK /\ SleepsNoLater
    [] component = "flash" -> FlashTypeOK [] component = "animations" -> AnimTypeOK
    [] component = "shapes" -> ShapeTypeOK [] component = "balls" -> BallTypeOK /\ OneCellPerBall
    [] component = "usb" -> UsbTypeOK /\ SentInOrder
    [] component = "watchdog" -> WatchdogTypeOK /\ PassIsGuarded /\ RequestKept

Runs(c) == <>[](component = c)

\* FlashGoesOn: display_flash_counter goes on counting while the host sends its clock
\* and once it has stopped it, though interrupt and main loop hand over to each other.
FlashingGoesOn == Runs("flash") => FlashGoesOn

\* BothBallsKeepMoving: in ball_demo_run both balls come, and neither stops for good,
\* whatever walls and collisions do to them.
BallsKeepMoving == Runs("balls") => BothBallsKeepMoving

\* TaskGoesOn: Midifighter_Task comes to its keys again and again and takes what the
\* host writes, however fast it does and even if it never reads, unless the bus stays
\* down.
MainLoopGoesOn == Runs("usb") => TaskGoesOn
=============================================================================

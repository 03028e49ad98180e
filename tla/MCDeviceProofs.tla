--------------------------- MODULE MCDeviceProofs ---------------------------
(***************************************************************************)
(* MCDevice's components side by side: what each keeps by itself, it keeps *)
(* whichever of them runs.                                                 *)
(***************************************************************************)
EXTENDS MCDevice, DeviceProofs, LightsProofs, PatternProofs

\* Each component in the states its own inductive invariant describes.
DeviceStateInv ==
  /\ component \in Component
  /\ ScanInv /\ TimerInv /\ FlashInv /\ ShowInv /\ GridInv /\ BankInv /\ WatchdogTypeOK
  /\ ShapeTypeOK /\ GuardInv /\ OrderInv /\ LateInv

\* A step of the device is a step, or none, of each of its components.
LEMMA StepOfEach ==
  [DeviceNext]_deviceVars =>
    /\ UNCHANGED component
    /\ [ScanNext]_scanVars /\ [SleepNext]_sleepVars /\ [FlashNext]_flashVars
    /\ [AnimNext]_animVars /\ [BallNext]_ballVars /\ [UsbNext]_usbVars
    /\ [WatchdogNext]_watchdogVars /\ [StepShape]_shapeVars
<1> SUFFICES ASSUME [DeviceNext]_deviceVars
             PROVE  /\ UNCHANGED component
                    /\ [ScanNext]_scanVars /\ [SleepNext]_sleepVars /\ [FlashNext]_flashVars
                    /\ [AnimNext]_animVars /\ [BallNext]_ballVars /\ [UsbNext]_usbVars
                    /\ [WatchdogNext]_watchdogVars /\ [StepShape]_shapeVars
  OBVIOUS
<1>1. CASE UNCHANGED deviceVars
  BY <1>1, ZenonT(40) DEF deviceVars
<1>2. CASE DeviceNext
  BY <1>2, ZenonT(60) DEF DeviceNext, Only
<1> QED
  BY <1>1, <1>2

LEMMA DeviceStart == DeviceInit => DeviceStateInv
BY ScanStart, TimerStart, FlashStart, ShowStart, GridStart, BankStart, WatchdogTypeStart, ShapeStart,
   GuardStart, OrderStart, LateStart, ZenonT(40)
   DEF DeviceInit, DeviceStateInv

LEMMA DeviceStep == DeviceStateInv /\ [DeviceNext]_deviceVars => DeviceStateInv'
<1> SUFFICES ASSUME DeviceStateInv, [DeviceNext]_deviceVars PROVE DeviceStateInv'
  OBVIOUS
<1>1. component \in Component /\ UNCHANGED component
  BY StepOfEach, ZenonT(60) DEF DeviceStateInv
<1>2. ScanInv'
  BY StepOfEach, ScanStep, ZenonT(60) DEF DeviceStateInv
<1>3. TimerInv'
  BY StepOfEach, TimerStep, ZenonT(60) DEF DeviceStateInv
<1>4. FlashInv'
  BY StepOfEach, FlashStep, ZenonT(60) DEF DeviceStateInv
<1>5. ShowInv'
  BY StepOfEach, ShowStep, ZenonT(60) DEF DeviceStateInv
<1>6. GridInv'
  BY StepOfEach, GridStep, ZenonT(60) DEF DeviceStateInv
<1>7. BankInv'
  BY StepOfEach, BankStep, ZenonT(60) DEF DeviceStateInv
<1>8. WatchdogTypeOK'
  BY StepOfEach, WatchdogTypeStep, ZenonT(60) DEF DeviceStateInv
<1>9. ShapeTypeOK'
  BY StepOfEach, ShapeTypeStep, ZenonT(60) DEF DeviceStateInv
<1>10. GuardInv'
  BY StepOfEach, GuardStep, ZenonT(60) DEF DeviceStateInv
<1>11. OrderInv'
  BY StepOfEach, OrderStep, ZenonT(60) DEF DeviceStateInv
<1>12. LateInv'
  BY StepOfEach, LateStep, ZenonT(60) DEF DeviceStateInv
<1> QED
  BY <1>1, <1>2, <1>3, <1>4, <1>5, <1>6, <1>7, <1>8, <1>9, <1>10, <1>11, <1>12,
     ZenonT(40) DEF DeviceStateInv

\* Whichever component runs, with any number of keys, slots, ticks, packets and
\* requests: its indices stay in their arrays and its counters in their bytes,
\* key_read finds N consecutive samples, no ball is in two cells of the grid that
\* ball_demo_run moves them in, the IN bank is in order, a device left alone sleeps in
\* time, the watchdog guards each pass, and a request for the bootloader is not forgotten.
THEOREM DeviceInvAlways == DeviceSpec => []DeviceInv
<1>1. DeviceStateInv => DeviceInv
  <2> SUFFICES ASSUME DeviceStateInv PROVE DeviceInv
    OBVIOUS
  <2>1. /\ ScanTypeOK /\ ScanInv /\ SleepTypeOK /\ FlashTypeOK /\ AnimTypeOK
        /\ BallTypeOK /\ OneCellPerBall /\ UsbTypeOK /\ WatchdogTypeOK /\ ShapeTypeOK
        /\ PassIsGuarded /\ RequestKept /\ SentInOrder /\ SleepsNoLater
    BY OrderImplies, LateImplies, ZenonT(60)
    DEF DeviceStateInv, ScanInv, TimerInv, FlashInv, ShowInv, GridInv, BankInv, GuardInv
  <2> QED
    BY <2>1, ZenonT(60) DEF DeviceInv, DeviceStateInv, Component
<1> QED
  BY <1>1, DeviceStart, DeviceStep, PTL DEF DeviceSpec
=============================================================================

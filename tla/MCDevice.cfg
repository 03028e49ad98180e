SPECIFICATION DeviceSpec
CONSTANTS
  k1 = k1
  k2 = k2
  Key <- MCKey
  N = 3
  TIME_MOD = 1
  ISR_PER_POLL = 1
  BYTE = 3
  SECOND = 5
  MINUTE = 2
  MINUTES = 5
  SleepTime = {0, 1, 2, 3}
  REFRESH_GAP = 2
  MAX_CHANGES = 1
  MAX_IDLE = 20
  WIDTH = 4
  BEAT = 3
  KEYS = 3
  SLOTS = 2
  TypeSteps <- MCTypeSteps
  STEP_TICKS = 2
  MAX_TRIGGERS = 3
  ROWS = 4
  COLS = 3
  Vertical <- MCVertical
  Horizontal = {2, 3}
  OVERRIDE = 9
  DELAY = 4
  MAX_SETUPS = 1
  CAPACITY = 2
  TIMEOUT = 2
  RX_PACKET_LIMIT = 3
  RX_FAIL_LIMIT = 2
  MAX_SENDS = 4
  MAX_BUS = 1
  WDTO_2S = 3
  WDTO_250MS = 1
  PASS = 2
  SAVE = 4
  JUMP = 4
  MAX_REQUESTS = 2
CHECK_DEADLOCK FALSE
INVARIANTS
  DeviceInv NoBeatLost LatestAreShown ShapeIsMeant LostOnlyIfLate EntryPerRequest
PROPERTIES
  ScanIsAtomic SteadyKeyReported
  SleepsNoSooner DemoIsWhole SleepComes
  FlashingGoesOn AnimationsEnd BallsKeepMoving
  SentIsDelivered MainLoopGoesOn
  NoSpuriousReset HangEnds RequestServed

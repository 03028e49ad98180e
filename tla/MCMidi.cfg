SPECIFICATION MidiSpec
CONSTANTS
  Message <- MCMessage
  MIDI_MAX_SYSEX = 6
  BASE = 4
  MAX_LENGTH = 35
  NUM_BUTTONS = 1
  MIDI_BASENOTE = 1
  Note = {0, 1}
  MAX_VELOCITY = 1
  CHANNELS = 3
  STAMP = 8
  TIME_MOD = 16
  REFRESH = 3
  LIMIT = 2
  MAX_GAP = 6
  COUNT = 65536
CHECK_DEADLOCK FALSE
INVARIANTS
  MidiInv RunsMeaning NeverPastEnd SysExArrives
  FollowsHost OffBySecondRefresh EchoLightsKey
PROPERTY LightsKeepTime

SPECIFICATION SysExSpec
CONSTANTS
  Message <- MCMessage
  MIDI_MAX_SYSEX = 6
  BASE = 4
INVARIANT StoredInBuffer

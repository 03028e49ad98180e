SPECIFICATION SettingsSpec
CONSTANTS
  COLORS = 2
  PART = 2
  Buffers <- MCBuffers
  ColorByte = {12}
  MAX_COMMANDS = 0
INVARIANT ResetOnNewLayout

SPECIFICATION ConfigSpec
CONSTANTS
  COLORS = 2
  PART = 2
  Buffers <- MCBuffers
  ColorByte = {12}
  MAX_COMMANDS = 2
  PARTS = 2
  PART_BYTES = 3
  Payload <- MCPayload
  MAX_PUSHES = 2
CHECK_DEADLOCK FALSE
INVARIANTS
  Persisted OnlyColorsUnsaved ToldIsCurrent PullThenPush
PROPERTY OnlyItsPart

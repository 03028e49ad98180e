SPECIFICATION ColorsSpec
CONSTANTS
  PARTS = 2
  PART_BYTES = 3
  Payload <- MCPayload
  MAX_PUSHES = 1
CHECK_DEADLOCK FALSE
INVARIANT PaletteOnly

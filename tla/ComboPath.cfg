SPECIFICATION PathSpec
CONSTANTS
  Key = {0, 4, 5, 6, 7, 8}
  MAX_CHANGE = 2
  state_table <- FirmwareTable
  state_offset <- FirmwareOffset
INVARIANTS ActiveComboHeld FiredAsDrawn
PROPERTY PairedActions

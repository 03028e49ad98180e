SPECIFICATION Spec
CONSTANTS
  Key = {0, 4, 5, 6, 7}
  MAX_CHANGE = 2
  state_table <- FirmwareTable
  state_offset <- FirmwareOffset
INVARIANT CombosEnd
